----------------------------- MODULE LRUMapProofs -----------------------------
(***************************************************************************)
(* Each operation of the linked map keeps it a well-typed, consistent and  *)
(* sorted map.  Stated for an arbitrary map, cited by the proofs about the *)
(* cache that uses it.                                                     *)
(***************************************************************************)
EXTENDS LRUMap, NumberInduction, TLAPS

\* A step that names no prover is tried with SMT, then with Zenon, then with
\* SMT again for longer.
USE SMTT(15), ZenonT(20), SMTT(60)

Whole(m) == m \in LinkedMap /\ Consistent(m) /\ CostsAddUp(m)
Sound(m, now) == Whole(m) /\ Sorted(m, now)

\* Removing the i-th element shifts the later ones down by one.
LEMMA WithoutProperties ==
    ASSUME NEW S, NEW s \in Seq(S), NEW i \in 1..Len(s)
    PROVE  /\ Without(s, i) \in Seq(S)
           /\ Len(Without(s, i)) = Len(s) - 1
           /\ \A j \in 1..(Len(s) - 1) :
                Without(s, i)[j] = IF j < i THEN s[j] ELSE s[j + 1]
<1> DEFINE a == SubSeq(s, 1, i - 1)
           b == SubSeq(s, i + 1, Len(s))
<1>1. Len(s) \in Nat /\ \A j \in 1..Len(s) : s[j] \in S
  OBVIOUS
<1>2. /\ a \in Seq(S) /\ Len(a) = i - 1
      /\ \A j \in 1..(i - 1) : a[j] = s[j]
  BY <1>1
<1>3. /\ b \in Seq(S) /\ Len(b) = Len(s) - i
      /\ \A j \in 1..(Len(s) - i) : b[j] = s[i + j]
  <2>1. b \in Seq(S)
    BY <1>1
  <2>2. Len(b) = Len(s) - i
    BY <1>1
  <2>3. ASSUME NEW j \in 1..(Len(s) - i)
        PROVE  b[j] = s[i + j]
    BY <1>1
  <2> QED
    BY <2>1, <2>2, <2>3
<1> HIDE DEF a, b
<1>4. /\ a \o b \in Seq(S)
      /\ Len(a \o b) = Len(a) + Len(b)
      /\ \A j \in 1..(Len(a) + Len(b)) :
            (a \o b)[j] = IF j <= Len(a) THEN a[j] ELSE b[j - Len(a)]
  <2>1. a \o b \in Seq(S)
    BY <1>2, <1>3
  <2>2. Len(a \o b) = Len(a) + Len(b)
    <3>1. a \in Seq(S) /\ b \in Seq(S)
      BY <1>2, <1>3
    <3> QED
      BY <3>1
  <2>3. ASSUME NEW j \in 1..(Len(a) + Len(b))
        PROVE  (a \o b)[j] = IF j <= Len(a) THEN a[j] ELSE b[j - Len(a)]
    BY <1>2, <1>3
  <2> QED
    BY <2>1, <2>2, <2>3
<1>5. Without(s, i) = a \o b
  BY DEF Without, a, b
<1>6. ASSUME NEW j \in 1..(Len(s) - 1)
      PROVE  (a \o b)[j] = IF j < i THEN s[j] ELSE s[j + 1]
  <2>1. CASE j < i
    BY <2>1, <1>1, <1>2, <1>3, <1>4
  <2>2. CASE ~(j < i)
    <3>1. j - Len(a) \in 1..(Len(s) - i) /\ i + (j - Len(a)) = j + 1
      BY <2>2, <1>1, <1>2
    <3>2. (a \o b)[j] = b[j - Len(a)]
      BY <2>2, <1>1, <1>2, <1>3, <1>4
    <3>3. b[j - Len(a)] = s[i + (j - Len(a))]
      BY <3>1, <1>3
    <3> QED
      BY <2>2, <3>1, <3>2, <3>3
  <2> QED
    BY <2>1, <2>2, Zenon, ZenonT(60)
<1>7. Len(a) + Len(b) = Len(s) - 1
  BY <1>1, <1>2, <1>3
<1> QED
  BY <1>4, <1>5, <1>6, <1>7

-------------------------------------------------------------------------------
(* Sums of costs along a list. *)

\* g is the sequence of partial sums of the n numbers x.
Sums(n, x, g) ==
    /\ g \in [0..n -> Int] /\ g[0] = 0
    /\ \A i \in 1..n : g[i] = g[i - 1] + x[i]

\* Partial sums exist.
LEMMA SumsExist ==
    ASSUME NEW L \in Nat, NEW x \in [1..L -> Int]
    PROVE  \E g : Sums(L, x, g)
<1> DEFINE S == {n \in Nat : n <= L => \E g : Sums(n, x, g)}
<1>1. 0 \in S
  <2>1. Sums(0, x, [i \in 0..0 |-> 0])
    BY DEF Sums
  <2> QED
    BY <2>1
<1>2. ASSUME NEW n \in Nat, n \in S
      PROVE  n + 1 \in S
  <2> SUFFICES ASSUME n + 1 <= L
               PROVE  \E g : Sums(n + 1, x, g)
    OBVIOUS
  <2>1. PICK g : Sums(n, x, g)
    BY <1>2
  <2> DEFINE h == [i \in 0..(n + 1) |-> IF i = n + 1 THEN g[n] + x[n + 1] ELSE g[i]]
  <2>2. g \in [0..n -> Int] /\ g[n] \in Int /\ x[n + 1] \in Int
    BY <2>1 DEF Sums
  <2>3. h \in [0..(n + 1) -> Int] /\ h[0] = 0
    BY <2>1, <2>2 DEF Sums
  <2>4. ASSUME NEW i \in 1..(n + 1)
        PROVE  h[i] = h[i - 1] + x[i]
    <3>1. CASE i = n + 1
      BY <3>1, <2>1
    <3>2. CASE i \in 1..n
      BY <3>2, <2>1 DEF Sums
    <3> QED
      BY <3>1, <3>2
  <2> HIDE DEF h
  <2>5. Sums(n + 1, x, h)
    BY <2>3, <2>4 DEF Sums
  <2> QED
    BY <2>5
<1>3. Nat \subseteq S
  <2> HIDE DEF S
  <2> QED
    BY <1>1, <1>2, SetInduction
<1>4. L \in S
  BY <1>3
<1> QED
  BY <1>4

\* A number put in front adds to every sum.
LEMMA SumsWithFirst ==
    ASSUME NEW n \in Nat, NEW x \in [1..n -> Int], NEW g, Sums(n, x, g),
           NEW y \in [1..(n + 1) -> Int], \A i \in 1..n : y[i + 1] = x[i]
    PROVE  \E h : Sums(n + 1, y, h) /\ h[n + 1] = g[n] + y[1]
<1> DEFINE h == [i \in 0..(n + 1) |-> IF i = 0 THEN 0 ELSE g[i - 1] + y[1]]
<1>1. g \in [0..n -> Int] /\ g[0] = 0 /\ \A i \in 1..n : g[i] = g[i - 1] + x[i]
  BY DEF Sums
<1>2. h \in [0..(n + 1) -> Int] /\ h[0] = 0 /\ h[n + 1] = g[n] + y[1]
  BY <1>1
<1>3. ASSUME NEW i \in 1..(n + 1)
      PROVE  h[i] = h[i - 1] + y[i]
  <2>1. CASE i = 1
    BY <2>1, <1>1
  <2>2. CASE i - 1 \in 1..n
    <3>1. g[i - 1] = g[i - 2] + x[i - 1] /\ y[i] = x[i - 1]
      BY <2>2, <1>1
    <3>2. g[i - 2] \in Int /\ x[i - 1] \in Int /\ y[1] \in Int
      BY <2>2, <1>1
    <3>3. h[i] = g[i - 1] + y[1] /\ h[i - 1] = g[i - 2] + y[1]
      BY <2>2
    <3> HIDE DEF h
    <3> QED
      BY <3>1, <3>2, <3>3
  <2> QED
    BY <2>1, <2>2
<1> HIDE DEF h
<1>4. Sums(n + 1, y, h)
  BY <1>2, <1>3 DEF Sums
<1> QED
  BY <1>2, <1>4

\* Taking the p-th number out takes it off every later sum.
LEMMA SumsWithout ==
    ASSUME NEW n \in Nat, NEW x \in [1..n -> Int], NEW g, Sums(n, x, g),
           NEW p \in 1..n, NEW y \in [1..(n - 1) -> Int],
           \A i \in 1..(n - 1) : y[i] = IF i < p THEN x[i] ELSE x[i + 1]
    PROVE  \E h : Sums(n - 1, y, h) /\ h[n - 1] = g[n] - x[p]
<1> DEFINE h == [i \in 0..(n - 1) |-> IF i < p THEN g[i] ELSE g[i + 1] - x[p]]
<1>1. /\ g \in [0..n -> Int] /\ g[0] = 0 /\ \A i \in 1..n : g[i] = g[i - 1] + x[i]
      /\ x[p] \in Int /\ \A i \in 0..n : g[i] \in Int
  BY DEF Sums
<1>2. h \in [0..(n - 1) -> Int] /\ h[0] = 0
  <2>1. ASSUME NEW i \in 0..(n - 1)
        PROVE  g[i] \in Int /\ g[i + 1] - x[p] \in Int
    <3> HIDE DEF h
    <3>1. i \in 0..n /\ i + 1 \in 0..n
      OBVIOUS
    <3>2. g[i] \in Int /\ g[i + 1] \in Int
      BY <3>1, <1>1
    <3> QED
      BY <3>2, <1>1
  <2>2. 0 \in 0..(n - 1) /\ 0 < p
    OBVIOUS
  <2> QED
    BY <2>1, <2>2, <1>1, Zenon, ZenonT(60)
<1>3. g[p] = g[p - 1] + x[p] /\ g[p] \in Int /\ g[p - 1] \in Int
  BY <1>1
<1>4. ASSUME NEW i \in 0..(n - 1), i >= p - 1
      PROVE  h[i] = g[i + 1] - x[p]
  <2>1. CASE i = p - 1
    BY <2>1, <1>3
  <2>2. CASE ~(i < p)
    BY <2>2
  <2> QED
    BY <2>1, <2>2, <1>4
<1>5. ASSUME NEW i \in 1..(n - 1)
      PROVE  h[i] = h[i - 1] + y[i]
  <2>1. CASE i < p
    BY <2>1, <1>1
  <2>2. CASE ~(i < p)
    <3>1. h[i] = g[i + 1] - x[p] /\ h[i - 1] = g[i] - x[p] /\ y[i] = x[i + 1]
      BY <2>2, <1>4
    <3>2. g[i + 1] = g[i] + x[i + 1] /\ g[i] \in Int /\ x[i + 1] \in Int
      <4> HIDE DEF h
      <4>1. i + 1 \in 1..n /\ i \in 0..n /\ i + 1 - 1 = i
        OBVIOUS
      <4>2. g[i] \in Int /\ x[i + 1] \in Int
        BY <4>1, <1>1, Zenon, ZenonT(60)
      <4>3. g[i + 1] = g[i + 1 - 1] + x[i + 1]
        BY <4>1, <1>1
      <4> QED
        BY <4>1, <4>2, <4>3
    <3>3. x[p] \in Int
      BY <1>1
    <3> HIDE DEF h
    <3> QED
      BY <3>1, <3>2, <3>3
  <2> QED
    BY <2>1, <2>2
<1>6. h[n - 1] = g[n] - x[p]
  BY <1>4
<1> HIDE DEF h
<1>7. Sums(n - 1, y, h)
  BY <1>2, <1>5 DEF Sums
<1> QED
  BY <1>6, <1>7

\* Another p-th number changes every sum from there on by the difference.
LEMMA SumsWithChange ==
    ASSUME NEW n \in Nat, NEW x \in [1..n -> Int], NEW g, Sums(n, x, g),
           NEW p \in 1..n, NEW y \in [1..n -> Int],
           \A i \in 1..n : i # p => y[i] = x[i]
    PROVE  \E h : Sums(n, y, h) /\ h[n] = g[n] - x[p] + y[p]
<1> DEFINE h == [i \in 0..n |-> IF i < p THEN g[i] ELSE g[i] - x[p] + y[p]]
<1>1. /\ g \in [0..n -> Int] /\ g[0] = 0 /\ \A i \in 1..n : g[i] = g[i - 1] + x[i]
      /\ x[p] \in Int /\ y[p] \in Int
  BY DEF Sums
<1>2. h \in [0..n -> Int] /\ h[0] = 0 /\ h[n] = g[n] - x[p] + y[p]
  <2>1. ASSUME NEW i \in 0..n
        PROVE  (IF i < p THEN g[i] ELSE g[i] - x[p] + y[p]) \in Int
    <3>1. g[i] \in Int /\ x[p] \in Int /\ y[p] \in Int
      BY <1>1
    <3> QED
      BY <3>1
  <2>2. 0 \in 0..n /\ n \in 0..n /\ 0 < p /\ ~(n < p)
    OBVIOUS
  <2> QED
    BY <2>1, <2>2, <1>1, Zenon, ZenonT(60)
<1>3. ASSUME NEW i \in 1..n
      PROVE  h[i] = h[i - 1] + y[i]
  <2>1. /\ g[i] = g[i - 1] + x[i] /\ g[i - 1] \in Int /\ x[i] \in Int
        /\ x[p] \in Int /\ y[p] \in Int
    BY <1>1
  <2>2. CASE i < p
    BY <2>1, <2>2
  <2>3. CASE i = p
    BY <2>1, <2>3
  <2>4. CASE i > p
    BY <2>1, <2>4
  <2> QED
    BY <2>2, <2>3, <2>4
<1> HIDE DEF h
<1>4. Sums(n, y, h)
  BY <1>2, <1>3 DEF Sums
<1> QED
  BY <1>2, <1>4

\* The costs of the nodes of a map, along its list.
Costs(m) == [i \in 1..Len(m.list) |-> m.dic[m.list[i]].cost]

\* There is one sequence of partial sums, the one that CostUpTo computes.
LEMMA SumsUnique ==
    ASSUME NEW m, m.list \in Seq(Key), NEW g, Sums(Len(m.list), Costs(m), g)
    PROVE  CostUpTo(m.dic, m.list) = g
<1> DEFINE f == CostUpTo(m.dic, m.list)
           L == Len(m.list)
           c(i) == m.dic[m.list[i]].cost
           S == {n \in Nat : n <= L => f[n] = g[n]}
<1>1. /\ L \in Nat /\ g \in [0..L -> Int] /\ g[0] = 0
      /\ \A i \in 1..L : g[i] = g[i - 1] + c(i)
  <2>1. L \in Nat
    OBVIOUS
  <2>2. /\ g \in [0..L -> Int] /\ g[0] = 0
        /\ \A i \in 1..L : g[i] = g[i - 1] + Costs(m)[i]
    BY DEF Sums
  <2>3. \A i \in 1..L : Costs(m)[i] = c(i)
    BY DEF Costs
  <2> HIDE DEF L, c
  <2> QED
    BY <2>1, <2>2, <2>3, Zenon, ZenonT(60)
<1>2. g = [i \in 0..L |-> IF i = 0 THEN 0 ELSE g[i - 1] + c(i)]
  <2> HIDE DEF L, c
  <2>1. \A i \in 0..L : g[i] = IF i = 0 THEN 0 ELSE g[i - 1] + c(i)
    BY <1>1
  <2> QED
    BY <2>1, <1>1
<1>3. f = [i \in 0..L |-> IF i = 0 THEN 0 ELSE f[i - 1] + c(i)]
  BY <1>2, Zenon, ZenonT(60) DEF CostUpTo
<1> HIDE DEF f, c, L
<1>4. 0 \in S
  BY <1>2, <1>3, <1>1
<1>5. ASSUME NEW n \in Nat, n \in S
      PROVE  n + 1 \in S
  BY <1>1, <1>2, <1>3, <1>5
<1>6. Nat \subseteq S
  <2> HIDE DEF S
  <2> QED
    BY <1>4, <1>5, SetInduction
<1>7. \A i \in 0..L : f[i] = g[i]
  BY <1>1, <1>6
<1> QED
  BY <1>2, <1>3, <1>7 DEF f

\* To show what a list costs, it is enough to give its partial sums.
LEMMA CostByWitness ==
    ASSUME NEW m, m.list \in Seq(Key), NEW g, Sums(Len(m.list), Costs(m), g)
    PROVE  CostOf(m.dic, m.list) = g[Len(m.list)]
BY SumsUnique, Zenon, ZenonT(60) DEF CostOf

\* The costs in a consistent map, and their sums.
LEMMA MapSums ==
    ASSUME NEW m \in LinkedMap, Consistent(m)
    PROVE  /\ Costs(m) \in [1..Len(m.list) -> Int]
           /\ \E g : /\ Sums(Len(m.list), Costs(m), g)
                     /\ g[Len(m.list)] = CostOf(m.dic, m.list)
<1>1. /\ m.list \in Seq(Key) /\ m.dic \in [Key -> Node \cup {Nil}]
      /\ \A i \in 1..Len(m.list) : m.list[i] \in Key
  BY DEF LinkedMap
<1>2. \A i \in 1..Len(m.list) : m.dic[m.list[i]] \in Node
  BY <1>1 DEF Consistent
<1>3. \A i \in 1..Len(m.list) : m.dic[m.list[i]].cost \in Int
  BY <1>2 DEF Node
<1>4. Costs(m) \in [1..Len(m.list) -> Int] /\ Len(m.list) \in Nat
  BY <1>1, <1>3 DEF Costs
<1>5. PICK g : Sums(Len(m.list), Costs(m), g)
  BY <1>4, SumsExist
<1> QED
  BY <1>1, <1>4, <1>5, CostByWitness

\* So a total cost is never below zero: no subtraction in removeNode: or
\* removeTailNode takes an NSUInteger below it.
LEMMA CostNotNegative ==
    ASSUME NEW m, Whole(m)
    PROVE  0 <= m.totalCost
<1> DEFINE L == Len(m.list)
<1>1. /\ m \in LinkedMap /\ Consistent(m) /\ m.totalCost = CostOf(m.dic, m.list)
      /\ L \in Nat /\ m.dic \in [Key -> Node \cup {Nil}] /\ m.list \in Seq(Key)
  BY DEF Whole, CostsAddUp, LinkedMap
<1>2. \A i \in 1..L : Costs(m)[i] \in Nat
  <2> SUFFICES ASSUME NEW i \in 1..L
               PROVE  m.dic[m.list[i]].cost \in Nat
    BY DEF Costs
  <2>1. m.list[i] \in Key /\ m.dic[m.list[i]] # Nil
    BY <1>1 DEF Consistent
  <2> QED
    BY <2>1, <1>1 DEF Node
<1>3. PICK g : Sums(L, Costs(m), g) /\ g[L] = m.totalCost
  BY <1>1, MapSums
<1> DEFINE S == {n \in Nat : n <= L => g[n] \in Nat}
<1> HIDE DEF L
<1>4. 0 \in S
  BY <1>3 DEF Sums
<1>5. ASSUME NEW n \in Nat, n \in S
      PROVE  n + 1 \in S
  <2> SUFFICES ASSUME n + 1 <= L
               PROVE  g[n + 1] \in Nat
    OBVIOUS
  <2>1. n + 1 \in 1..L /\ n + 1 - 1 = n /\ g[n] \in Nat
    BY <1>1, <1>5
  <2>2. g[n + 1] = g[n + 1 - 1] + Costs(m)[n + 1]
    BY <2>1, <1>3 DEF Sums
  <2>3. Costs(m)[n + 1] \in Nat
    BY <2>1, <1>2
  <2> QED
    BY <2>1, <2>2, <2>3
<1>6. Nat \subseteq S
  <2> HIDE DEF S
  <2> QED
    BY <1>4, <1>5, SetInduction
<1>7. L \in S
  BY <1>1, <1>6
<1> QED
  BY <1>1, <1>3, <1>7

-------------------------------------------------------------------------------
(* Each operation. *)

\* A key of the dictionary has an index in the list.
LEMMA IndexOfProperties ==
    ASSUME NEW m, Whole(m), NEW k \in Key, m.dic[k] # Nil
    PROVE  IndexOf(m.list, k) \in 1..Len(m.list) /\ m.list[IndexOf(m.list, k)] = k
BY DEF IndexOf, Whole, Consistent, LinkedMap

\* The empty map, which removeAll leaves, is sound.
LEMMA EmptyMapSound ==
    ASSUME NEW now \in Nat
    PROVE  Sound(EmptyMap, now)
<1>1. EmptyMap \in LinkedMap /\ Consistent(EmptyMap) /\ Sorted(EmptyMap, now)
  BY NilAssumption DEF EmptyMap, LinkedMap, Consistent, Sorted
<1>2. CostsAddUp(EmptyMap)
  <2>1. /\ EmptyMap.list \in Seq(Key) /\ Len(EmptyMap.list) = 0
        /\ EmptyMap.totalCost = 0
    BY DEF EmptyMap
  <2>2. PICK g : /\ Sums(0, Costs(EmptyMap), g)
                 /\ g[0] = CostOf(EmptyMap.dic, EmptyMap.list)
    BY <1>1, <2>1, MapSums
  <2> QED
    BY <2>1, <2>2 DEF CostsAddUp, Sums
<1> QED
  BY <1>1, <1>2 DEF Sound, Whole

\* insertNodeAtHead: of a new key's node: the list grows by one at the head.
LEMMA InsertWhole ==
    ASSUME NEW m, Whole(m), NEW k \in Key, m.dic[k] = Nil, NEW n \in Node
    PROVE  LET r == InsertNodeAtHead(m, k, n) IN
           /\ Whole(r)
           /\ r.dic = [m.dic EXCEPT ![k] = n]
           /\ Len(r.list) = Len(m.list) + 1
           /\ r.list[1] = k
           /\ \A j \in 2..Len(r.list) :
                j - 1 \in 1..Len(m.list) /\ r.list[j] = m.list[j - 1]
           /\ \A i \in 1..Len(m.list) : m.list[i] \in Key /\ m.list[i] # k
<1> DEFINE r == InsertNodeAtHead(m, k, n)
<1>1. m \in LinkedMap /\ Consistent(m)
  BY DEF Whole
<1>2. /\ m.list \in Seq(Key) /\ Len(m.list) \in Nat /\ m.totalCost \in Int
      /\ m.totalCount = Len(m.list) /\ m.dic \in [Key -> Node \cup {Nil}]
      /\ n.cost \in Nat /\ n # Nil
  BY <1>1, NilAssumption DEF LinkedMap, Consistent, Node
<1>3. /\ r.list \in Seq(Key) /\ Len(r.list) = Len(m.list) + 1
      /\ r.list[1] = k
      /\ \A j \in 2..Len(r.list) : r.list[j] = m.list[j - 1]
  BY <1>2 DEF InsertNodeAtHead
<1>4. /\ r.dic = [m.dic EXCEPT ![k] = n]
      /\ r.totalCost = m.totalCost + n.cost /\ r.totalCount = m.totalCount + 1
      /\ r = [dic |-> r.dic, list |-> r.list, totalCost |-> r.totalCost,
              totalCount |-> r.totalCount]
  BY DEF InsertNodeAtHead
<1>5. \A i \in 1..Len(m.list) : m.list[i] \in Key /\ m.list[i] # k
  BY <1>1, <1>2 DEF Consistent
<1> HIDE DEF r
<1>6. r \in LinkedMap
  BY <1>2, <1>3 DEF LinkedMap, InsertNodeAtHead, r
<1>7. Consistent(r)
  <2>1. ASSUME NEW x \in Key
        PROVE  r.dic[x] # Nil <=> \E i \in 1..Len(r.list) : r.list[i] = x
    <3>1. CASE x = k
      BY <3>1, <1>2, <1>3, <1>4
    <3>2. CASE x # k
      <4>1. r.dic[x] = m.dic[x]
        BY <3>2, <1>2, <1>4
      <4>2. (\E i \in 1..Len(r.list) : r.list[i] = x)
              <=> (\E i \in 1..Len(m.list) : m.list[i] = x)
        <5>1. ASSUME NEW i \in 1..Len(r.list), r.list[i] = x
              PROVE  i - 1 \in 1..Len(m.list) /\ m.list[i - 1] = x
          BY <5>1, <3>2, <1>2, <1>3
        <5>2. ASSUME NEW i \in 1..Len(m.list), m.list[i] = x
              PROVE  i + 1 \in 1..Len(r.list) /\ r.list[i + 1] = x
          BY <5>2, <1>2, <1>3
        <5> QED
          BY <5>1, <5>2
      <4> QED
        BY <4>1, <4>2, <1>1 DEF Consistent
    <3> QED
      BY <3>1, <3>2
  <2>2. \A i, j \in 1..Len(r.list) : r.list[i] = r.list[j] => i = j
    <3>1. ASSUME NEW i \in 2..Len(r.list)
          PROVE  i - 1 \in 1..Len(m.list) /\ r.list[i] = m.list[i - 1]
      BY <1>2, <1>3
    <3>2. ASSUME NEW i \in 1..Len(r.list), NEW j \in 1..Len(r.list),
                 r.list[i] = r.list[j]
          PROVE  i = j
      <4>1. CASE i = 1 \/ j = 1
        <5>1. ASSUME NEW x \in 2..Len(r.list)
              PROVE  r.list[x] # k
          BY <3>1, <1>5, Zenon, ZenonT(60)
        <5> QED
          BY <4>1, <5>1, <3>2, <1>3
      <4>2. CASE i \in 2..Len(r.list) /\ j \in 2..Len(r.list)
        <5>1. m.list[i - 1] = m.list[j - 1]
          BY <4>2, <3>1, <3>2
        <5>2. i - 1 \in 1..Len(m.list) /\ j - 1 \in 1..Len(m.list)
          BY <4>2, <3>1
        <5>3. \A a, b \in 1..Len(m.list) : m.list[a] = m.list[b] => a = b
          BY <1>1 DEF Consistent
        <5>4. i - 1 = j - 1
          BY <5>1, <5>2, <5>3
        <5> QED
          BY <5>4
      <4> QED
        BY <4>1, <4>2
    <3> QED
      BY <3>2
  <2> QED
    BY <2>1, <2>2, <1>2, <1>3, <1>4 DEF Consistent
<1>8. ASSUME NEW j \in 2..Len(r.list)
      PROVE  j - 1 \in 1..Len(m.list) /\ r.list[j] = m.list[j - 1]
  BY <1>2, <1>3
<1>9. CostsAddUp(r)
  <2> DEFINE L == Len(m.list)
  <2>1. Costs(r) \in [1..(L + 1) -> Int] /\ Costs(m) \in [1..L -> Int]
    BY <1>1, <1>3, <1>6, <1>7, MapSums
  <2>2. ASSUME NEW i \in 1..L
        PROVE  Costs(r)[i + 1] = Costs(m)[i]
    <3>1. i + 1 \in 2..Len(r.list) /\ r.list[i + 1] = m.list[i]
      BY <1>2, <1>3
    <3>2. r.dic[m.list[i]] = m.dic[m.list[i]]
      BY <1>2, <1>4, <1>5
    <3> QED
      BY <3>1, <3>2 DEF Costs
  <2>3. Costs(r)[1] = n.cost
    BY <1>2, <1>3, <1>4 DEF Costs
  <2>4. PICK g : Sums(L, Costs(m), g) /\ g[L] = CostOf(m.dic, m.list)
    BY <1>1, MapSums
  <2>5. PICK h : Sums(L + 1, Costs(r), h) /\ h[L + 1] = g[L] + Costs(r)[1]
    BY <2>1, <2>2, <2>4, <1>2, SumsWithFirst, Zenon, ZenonT(60)
  <2>6. CostOf(r.dic, r.list) = h[L + 1]
    BY <2>5, <1>3, CostByWitness
  <2> QED
    BY <2>3, <2>4, <2>5, <2>6, <1>4 DEF Whole, CostsAddUp
<1> QED
  BY <1>3, <1>4, <1>5, <1>6, <1>7, <1>8, <1>9 DEF Whole, r

\* The same for a node stamped now: the list stays sorted.
LEMMA InsertSound ==
    ASSUME NEW m, NEW now \in Nat, Sound(m, now), NEW k \in Key, m.dic[k] = Nil,
           NEW n \in Node, n.time = now
    PROVE  Sound(InsertNodeAtHead(m, k, n), now)
<1> DEFINE r == InsertNodeAtHead(m, k, n)
<1>1. Whole(m) /\ Sorted(m, now)
  BY DEF Sound
<1>2. /\ Whole(r) /\ r.dic = [m.dic EXCEPT ![k] = n]
      /\ Len(r.list) = Len(m.list) + 1 /\ r.list[1] = k
      /\ \A j \in 2..Len(r.list) :
           j - 1 \in 1..Len(m.list) /\ r.list[j] = m.list[j - 1]
      /\ \A i \in 1..Len(m.list) : m.list[i] \in Key /\ m.list[i] # k
  BY <1>1, InsertWhole
<1>3. m.dic \in [Key -> Node \cup {Nil}] /\ Len(m.list) \in Nat
  BY <1>1 DEF Whole, LinkedMap
<1> HIDE DEF r
<1>4. Sorted(r, now)
  <2>1. r.dic[r.list[1]].time = now
    BY <1>2, <1>3
  <2>2. ASSUME NEW j \in 2..Len(r.list)
        PROVE  /\ j - 1 \in 1..Len(m.list)
               /\ r.dic[r.list[j]].time = m.dic[m.list[j - 1]].time
    <3>1. /\ j - 1 \in 1..Len(m.list) /\ r.list[j] = m.list[j - 1]
          /\ m.list[j - 1] \in Key /\ m.list[j - 1] # k
      BY <1>2
    <3> QED
      BY <3>1, <1>2, <1>3
  <2>3. ASSUME NEW i \in 1..Len(r.list)
        PROVE  r.dic[r.list[i]].time <= now
    <3>1. CASE i = 1
      BY <3>1, <2>1
    <3>2. CASE i \in 2..Len(r.list)
      BY <3>2, <2>2, <1>1, Zenon, ZenonT(60) DEF Sorted
    <3> QED
      BY <3>1, <3>2
  <2>4. ASSUME NEW i \in 1..Len(r.list), NEW j \in 1..Len(r.list), i <= j
        PROVE  r.dic[r.list[j]].time <= r.dic[r.list[i]].time
    <3>1. CASE i = 1
      BY <3>1, <2>1, <2>3
    <3>2. CASE i # 1
      <4>1. i \in 2..Len(r.list) /\ j \in 2..Len(r.list)
        BY <3>2, <2>4, <1>2, <1>3
      <4>2. i - 1 <= j - 1
        BY <2>4
      <4> QED
        BY <4>1, <4>2, <2>2, <1>1, Zenon, ZenonT(60) DEF Sorted
    <3> QED
      BY <3>1, <3>2
  <2> QED
    BY <2>3, <2>4 DEF Sorted
<1> QED
  BY <1>2, <1>4 DEF Sound, r

\* Where the j-th element was before the p-th was removed.
Old(p, j) == IF j < p THEN j ELSE j + 1

\* removeNode: of a key's node; the key is gone and the rest keeps its order.
LEMMA RemoveWhole ==
    ASSUME NEW m, Whole(m), NEW k \in Key, m.dic[k] # Nil
    PROVE  LET r == RemoveNode(m, k)
               p == IndexOf(m.list, k)
           IN /\ Whole(r)
              /\ r.dic = [m.dic EXCEPT ![k] = Nil]
              /\ p \in 1..Len(m.list) /\ m.list[p] = k
              /\ Len(r.list) = Len(m.list) - 1
              /\ \A j \in 1..Len(r.list) :
                   /\ Old(p, j) \in 1..Len(m.list) /\ Old(p, j) # p
                   /\ r.list[j] = m.list[Old(p, j)]
                   /\ r.list[j] \in Key /\ r.list[j] # k
<1> DEFINE r == RemoveNode(m, k)
           p == IndexOf(m.list, k)
<1>1. m \in LinkedMap /\ Consistent(m)
  BY DEF Whole
<1>2. /\ m.list \in Seq(Key) /\ Len(m.list) \in Nat /\ m.totalCost \in Int
      /\ m.totalCount = Len(m.list) /\ m.dic \in [Key -> Node \cup {Nil}]
      /\ m.dic[k].cost \in Nat
  BY <1>1 DEF LinkedMap, Consistent, Node
<1>3. p \in 1..Len(m.list) /\ m.list[p] = k
  BY IndexOfProperties
<1> HIDE DEF p
<1>4. /\ r.dic = [m.dic EXCEPT ![k] = Nil] /\ r.list = Without(m.list, p)
      /\ r.totalCost = m.totalCost - m.dic[k].cost
      /\ r.totalCount = m.totalCount - 1
  BY DEF RemoveNode, p
<1>5. r.list \in Seq(Key) /\ Len(r.list) = Len(m.list) - 1
  <2>1. Without(m.list, p) \in Seq(Key) /\ Len(Without(m.list, p)) = Len(m.list) - 1
    BY <1>2, <1>3, WithoutProperties, Zenon, ZenonT(60)
  <2> QED
    BY <2>1, <1>4
<1>6. ASSUME NEW j \in 1..Len(r.list)
      PROVE  /\ Old(p, j) \in 1..Len(m.list) /\ Old(p, j) # p
             /\ r.list[j] = m.list[Old(p, j)]
  <2>1. Old(p, j) \in 1..Len(m.list) /\ Old(p, j) # p
    BY <1>2, <1>3, <1>5 DEF Old
  <2>2. \A i \in 1..(Len(m.list) - 1) :
           Without(m.list, p)[i] = IF i < p THEN m.list[i] ELSE m.list[i + 1]
    BY <1>2, <1>3, WithoutProperties, Zenon, ZenonT(60)
  <2>3. r.list[j] = IF j < p THEN m.list[j] ELSE m.list[j + 1]
    BY <1>4, <1>5, <2>2
  <2> QED
    BY <2>1, <2>3 DEF Old
<1>7. ASSUME NEW i \in 1..Len(m.list), i # p
      PROVE  \E j \in 1..Len(r.list) : Old(p, j) = i
  <2>1. CASE i < p
    <3>1. i \in 1..Len(r.list) /\ Old(p, i) = i
      BY <2>1, <1>2, <1>3, <1>5 DEF Old
    <3> QED
      BY <3>1
  <2>2. CASE i > p
    <3>1. i - 1 \in 1..Len(r.list) /\ Old(p, i - 1) = i
      BY <2>2, <1>2, <1>3, <1>5 DEF Old
    <3> QED
      BY <3>1
  <2> QED
    BY <2>1, <2>2, <1>2, <1>3, <1>7
<1>8. ASSUME NEW i \in 1..Len(r.list), NEW j \in 1..Len(r.list)
      PROVE  /\ i <= j => Old(p, i) <= Old(p, j)
             /\ Old(p, i) = Old(p, j) => i = j
  BY <1>2, <1>3, <1>5 DEF Old
<1>9. r \in LinkedMap
  BY <1>2, <1>4, <1>5 DEF LinkedMap, RemoveNode, r
<1> HIDE DEF r
<1>10. ASSUME NEW j \in 1..Len(r.list)
       PROVE  r.list[j] \in Key /\ r.list[j] # k
  <2>1. Old(p, j) \in 1..Len(m.list) /\ Old(p, j) # p /\ r.list[j] = m.list[Old(p, j)]
    BY <1>6
  <2>2. m.list[Old(p, j)] \in Key
    BY <2>1, <1>2
  <2>3. m.list[Old(p, j)] # m.list[p]
    BY <2>1, <1>3, <1>1 DEF Consistent
  <2> QED
    BY <2>1, <2>2, <2>3, <1>3
<1>11. Consistent(r)
  <2>1. ASSUME NEW x \in Key
        PROVE  r.dic[x] # Nil <=> \E j \in 1..Len(r.list) : r.list[j] = x
    <3>1. CASE x = k
      BY <3>1, <1>2, <1>4, <1>10
    <3>2. CASE x # k
      <4>1. r.dic[x] = m.dic[x]
        BY <3>2, <1>2, <1>4
      <4>2. ASSUME NEW i \in 1..Len(m.list), m.list[i] = x
            PROVE  \E j \in 1..Len(r.list) : r.list[j] = x
        <5>1. i # p
          BY <4>2, <3>2, <1>3
        <5>2. PICK j \in 1..Len(r.list) : Old(p, j) = i
          BY <5>1, <1>7
        <5> QED
          BY <5>2, <4>2, <1>6
      <4>3. ASSUME NEW j \in 1..Len(r.list), r.list[j] = x
            PROVE  \E i \in 1..Len(m.list) : m.list[i] = x
        BY <4>3, <1>6
      <4> QED
        BY <4>1, <4>2, <4>3, <1>1 DEF Consistent
    <3> QED
      BY <3>1, <3>2
  <2>2. ASSUME NEW i \in 1..Len(r.list), NEW j \in 1..Len(r.list),
               r.list[i] = r.list[j]
        PROVE  i = j
    <3>1. m.list[Old(p, i)] = m.list[Old(p, j)]
      BY <2>2, <1>6
    <3>2. Old(p, i) = Old(p, j)
      BY <3>1, <1>6, <1>1 DEF Consistent
    <3> QED
      BY <3>2, <1>8
  <2> QED
    BY <2>1, <2>2, <1>2, <1>4, <1>5 DEF Consistent
<1>12. CostsAddUp(r)
  <2> DEFINE L == Len(m.list)
  <2>1. Costs(r) \in [1..(L - 1) -> Int] /\ Costs(m) \in [1..L -> Int]
    BY <1>1, <1>5, <1>9, <1>11, MapSums
  <2>2. ASSUME NEW i \in 1..(L - 1)
        PROVE  Costs(r)[i] = IF i < p THEN Costs(m)[i] ELSE Costs(m)[i + 1]
    <3>1. /\ i \in 1..Len(r.list) /\ Old(p, i) \in 1..L
          /\ r.dic[r.list[i]] = m.dic[m.list[Old(p, i)]]
      BY <1>2, <1>4, <1>5, <1>6, <1>10
    <3>2. Costs(r)[i] = Costs(m)[Old(p, i)]
      BY <3>1 DEF Costs
    <3> QED
      BY <3>2 DEF Old
  <2>3. Costs(m)[p] = m.dic[k].cost
    BY <1>3 DEF Costs
  <2>4. PICK g : Sums(L, Costs(m), g) /\ g[L] = CostOf(m.dic, m.list)
    BY <1>1, MapSums
  <2>5. PICK h : Sums(L - 1, Costs(r), h) /\ h[L - 1] = g[L] - Costs(m)[p]
    BY <2>1, <2>2, <2>4, <1>2, <1>3, SumsWithout, ZenonT(30), ZenonT(60)
  <2>6. CostOf(r.dic, r.list) = h[L - 1]
    BY <2>5, <1>5, CostByWitness
  <2> QED
    BY <2>3, <2>4, <2>5, <2>6, <1>4 DEF Whole, CostsAddUp
<1> QED
  BY <1>3, <1>4, <1>5, <1>6, <1>9, <1>10, <1>11, <1>12 DEF Whole, r, p

\* The same, with the order by access time.
LEMMA RemoveSound ==
    ASSUME NEW m, NEW now \in Nat, Sound(m, now), NEW k \in Key, m.dic[k] # Nil
    PROVE  /\ Sound(RemoveNode(m, k), now)
           /\ RemoveNode(m, k).dic = [m.dic EXCEPT ![k] = Nil]
<1> DEFINE r == RemoveNode(m, k)
           p == IndexOf(m.list, k)
<1>1. Whole(m) /\ Sorted(m, now)
  BY DEF Sound
<1>2. /\ Whole(r) /\ r.dic = [m.dic EXCEPT ![k] = Nil]
      /\ p \in 1..Len(m.list) /\ m.list[p] = k
      /\ Len(r.list) = Len(m.list) - 1
      /\ \A j \in 1..Len(r.list) :
           /\ Old(p, j) \in 1..Len(m.list) /\ Old(p, j) # p
           /\ r.list[j] = m.list[Old(p, j)]
           /\ r.list[j] \in Key /\ r.list[j] # k
  BY <1>1, RemoveWhole, Zenon, ZenonT(60)
<1>3. m.dic \in [Key -> Node \cup {Nil}] /\ Len(m.list) \in Nat
  BY <1>1 DEF Whole, LinkedMap
<1> HIDE DEF r, p
<1>4. Sorted(r, now)
  <2>1. ASSUME NEW j \in 1..Len(r.list)
        PROVE  r.dic[r.list[j]].time = m.dic[m.list[Old(p, j)]].time
    BY <1>2, <1>3
  <2>2. ASSUME NEW j \in 1..Len(r.list)
        PROVE  r.dic[r.list[j]].time <= now
    BY <2>1, <1>2, <1>1 DEF Sorted
  <2>3. ASSUME NEW i \in 1..Len(r.list), NEW j \in 1..Len(r.list), i <= j
        PROVE  r.dic[r.list[j]].time <= r.dic[r.list[i]].time
    <3>1. Old(p, i) <= Old(p, j)
      BY <2>3, <1>2, <1>3 DEF Old
    <3>2. Old(p, i) \in 1..Len(m.list) /\ Old(p, j) \in 1..Len(m.list)
      BY <1>2
    <3>3. m.dic[m.list[Old(p, j)]].time <= m.dic[m.list[Old(p, i)]].time
      BY <3>1, <3>2, <1>1 DEF Sorted
    <3> QED
      BY <3>3, <2>1
  <2> QED
    BY <2>2, <2>3 DEF Sorted
<1> QED
  BY <1>2, <1>4 DEF Sound, r

\* A node that is overwritten in place.
LEMMA RewriteWhole ==
    ASSUME NEW m, Whole(m), NEW k \in Key, m.dic[k] # Nil, NEW c \in Node
    PROVE  Whole(RewriteNode(m, k, c))
<1> DEFINE r == RewriteNode(m, k, c)
           L == Len(m.list)
           p == IndexOf(m.list, k)
<1>1. /\ m \in LinkedMap /\ Consistent(m) /\ m.totalCost = CostOf(m.dic, m.list)
      /\ m.dic \in [Key -> Node \cup {Nil}] /\ m.list \in Seq(Key) /\ L \in Nat
      /\ c # Nil
  BY NilAssumption DEF Whole, LinkedMap, CostsAddUp
<1>2. /\ r.dic = [m.dic EXCEPT ![k] = c] /\ r.list = m.list
      /\ r.totalCount = m.totalCount
      /\ r.totalCost = m.totalCost - m.dic[k].cost + c.cost
  BY DEF RewriteNode
<1>3. p \in 1..L /\ m.list[p] = k
  BY IndexOfProperties
<1> HIDE DEF p
<1>4. r \in LinkedMap
  BY <1>1 DEF LinkedMap, RewriteNode, Node
<1> HIDE DEF r
<1>5. Consistent(r)
  <2>1. \A y \in Key : r.dic[y] # Nil <=> m.dic[y] # Nil
    BY <1>1, <1>2
  <2> QED
    BY <2>1, <1>1, <1>2 DEF Consistent
<1>6. CostsAddUp(r)
  <2>1. Costs(r) \in [1..L -> Int] /\ Costs(m) \in [1..L -> Int]
    BY <1>1, <1>2, <1>4, <1>5, MapSums
  <2>2. ASSUME NEW i \in 1..L, i # p
        PROVE  Costs(r)[i] = Costs(m)[i]
    <3>1. m.list[i] \in Key /\ m.list[i] # k
      BY <2>2, <1>1, <1>3 DEF Consistent
    <3>2. r.dic[m.list[i]] = m.dic[m.list[i]]
      BY <3>1, <1>1, <1>2
    <3> QED
      BY <3>2, <1>2 DEF Costs
  <2>3. Costs(r)[p] = c.cost /\ Costs(m)[p] = m.dic[k].cost
    BY <1>1, <1>2, <1>3 DEF Costs
  <2>4. PICK g : Sums(L, Costs(m), g) /\ g[L] = CostOf(m.dic, m.list)
    BY <1>1, MapSums
  <2>5. PICK h : Sums(L, Costs(r), h) /\ h[L] = g[L] - Costs(m)[p] + Costs(r)[p]
    <3>1. \A i \in 1..L : i # p => Costs(r)[i] = Costs(m)[i]
      BY <2>2
    <3> HIDE DEF L
    <3> QED
      BY <3>1, <2>1, <2>4, <1>1, <1>3, SumsWithChange, ZenonT(30), ZenonT(60)
  <2>6. CostOf(r.dic, r.list) = h[L]
    BY <2>5, <1>1, <1>2, CostByWitness
  <2> QED
    BY <2>3, <2>4, <2>5, <2>6, <1>1, <1>2 DEF CostsAddUp
<1> QED
  BY <1>4, <1>5, <1>6 DEF Whole, r

\* What is brought to the head is removed and inserted again.
LEMMA BringIsReinsert ==
    ASSUME NEW m, Whole(m), NEW k \in Key, m.dic[k] # Nil
    PROVE  LET gone == RemoveNode(m, k) IN
           /\ Whole(gone) /\ gone.dic[k] = Nil /\ m.dic[k] \in Node
           /\ BringNodeToHead(m, k) = InsertNodeAtHead(gone, k, m.dic[k])
           /\ Whole(BringNodeToHead(m, k))
<1> DEFINE gone == RemoveNode(m, k)
<1>1. /\ m.dic \in [Key -> Node \cup {Nil}] /\ m.dic[k] \in Node
      /\ m.totalCost \in Int /\ m.totalCount \in Int /\ m.dic[k].cost \in Nat
  BY DEF Whole, LinkedMap, Node
<1>2. Whole(gone) /\ gone.dic = [m.dic EXCEPT ![k] = Nil]
  BY RemoveWhole, Zenon, ZenonT(60)
<1>3. [[m.dic EXCEPT ![k] = Nil] EXCEPT ![k] = m.dic[k]] = m.dic
  BY <1>1
<1>4. /\ m.totalCount - 1 + 1 = m.totalCount
      /\ m.totalCost - m.dic[k].cost + m.dic[k].cost = m.totalCost
  BY <1>1
<1>5. BringNodeToHead(m, k) = InsertNodeAtHead(gone, k, m.dic[k])
  BY <1>3, <1>4, Zenon, ZenonT(60) DEF BringNodeToHead, InsertNodeAtHead, RemoveNode
<1> HIDE DEF gone
<1>6. gone.dic[k] = Nil
  BY <1>1, <1>2
<1>7. Whole(InsertNodeAtHead(gone, k, m.dic[k]))
  BY <1>1, <1>2, <1>6, InsertWhole
<1> QED
  BY <1>1, <1>2, <1>5, <1>6, <1>7 DEF gone

\* removeTailNode, on an empty list as well.
LEMMA RemoveTailSound ==
    ASSUME NEW m, NEW now \in Nat, Sound(m, now)
    PROVE  Sound(RemoveTailNode(m), now)
<1>1. CASE m.list = <<>>
  BY <1>1 DEF RemoveTailNode
<1>2. CASE m.list # <<>>
  <2> DEFINE k == m.list[Len(m.list)]
  <2>1. m \in LinkedMap /\ Consistent(m)
    BY DEF Sound, Whole
  <2>2. Len(m.list) \in 1..Len(m.list) /\ k \in Key
    BY <1>2, <2>1 DEF LinkedMap
  <2>3. m.dic[k] # Nil
    BY <2>1, <2>2 DEF Consistent
  <2> QED
    BY <1>2, <2>2, <2>3, RemoveSound, Zenon, ZenonT(60) DEF RemoveTailNode
<1> QED
  BY <1>1, <1>2

\* Using a node again: bringNodeToHead: after the node was rewritten is the
\* same as removing it and inserting the rewritten node.
LEMMA ReplaceSound ==
    ASSUME NEW m, NEW now \in Nat, Sound(m, now), NEW k \in Key, m.dic[k] # Nil,
           NEW n \in Node, n.time = now
    PROVE  Sound(BringNodeToHead(RewriteNode(m, k, n), k), now)
<1> DEFINE gone == RemoveNode(m, k)
<1>1. /\ m \in LinkedMap /\ m.dic \in [Key -> Node \cup {Nil}]
      /\ m.totalCost \in Int /\ m.totalCount \in Int
      /\ m.dic[k].cost \in Nat /\ n.cost \in Nat
  BY DEF Sound, Whole, LinkedMap, Node
<1>2. Sound(gone, now) /\ gone.dic[k] = Nil
  <2>1. Sound(gone, now) /\ gone.dic = [m.dic EXCEPT ![k] = Nil]
    BY RemoveSound
  <2> HIDE DEF gone
  <2> QED
    BY <1>1, <2>1
<1>3. Sound(InsertNodeAtHead(gone, k, n), now)
  BY <1>2, InsertSound
<1>4. InsertNodeAtHead(gone, k, n) =
         [dic |-> [m.dic EXCEPT ![k] = n],
          list |-> <<k>> \o Without(m.list, IndexOf(m.list, k)),
          totalCost |-> m.totalCost - m.dic[k].cost + n.cost,
          totalCount |-> m.totalCount]
  <2>1. [[m.dic EXCEPT ![k] = Nil] EXCEPT ![k] = n] = [m.dic EXCEPT ![k] = n]
    BY <1>1
  <2>2. m.totalCount - 1 + 1 = m.totalCount
    BY <1>1
  <2> QED
    BY <2>1, <2>2, Zenon, ZenonT(60) DEF InsertNodeAtHead, RemoveNode
<1>5. BringNodeToHead(RewriteNode(m, k, n), k) =
         [dic |-> [m.dic EXCEPT ![k] = n],
          list |-> <<k>> \o Without(m.list, IndexOf(m.list, k)),
          totalCost |-> m.totalCost - m.dic[k].cost + n.cost,
          totalCount |-> m.totalCount]
  BY DEF BringNodeToHead, RewriteNode
<1> QED
  BY <1>3, <1>4, <1>5
===============================================================================
