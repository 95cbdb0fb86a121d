-------------------------------- MODULE LRUMap --------------------------------
(***************************************************************************)
(* What _YYLinkedMap (YYMemoryCache.m) promises its only user: a           *)
(* dictionary from keys to nodes together with a recency list, most        *)
(* recently used key first, and the two running totals.  The list is a     *)
(* sequence here; the pointer surgery that implements it is in YYLinkedMap.*)
(* Every operator maps a linked map to a linked map, so that a method that *)
(* calls several of them under one lock hold is one expression.            *)
(***************************************************************************)
EXTENDS Integers, Sequences

CONSTANTS
    Key,      \* the keys callers use
    Value,    \* the objects callers store
    Nil       \* nil: no node, no object

\* A node of the list (the key is the one it is filed under).
Node == [value : Value, cost : Nat, time : Nat]

ASSUME NilAssumption == Nil \notin Node /\ Nil \notin Value /\ Nil \notin Key

LinkedMap == [dic : [Key -> Node \cup {Nil}], list : Seq(Key),
              totalCost : Int, totalCount : Int]

Keys(m) == {k \in Key : m.dic[k] # Nil}

EmptyMap == [dic |-> [k \in Key |-> Nil], list |-> <<>>,
             totalCost |-> 0, totalCount |-> 0]

IndexOf(s, k) == CHOOSE i \in 1..Len(s) : s[i] = k

\* s without its i-th element.
Without(s, i) == SubSeq(s, 1, i - 1) \o SubSeq(s, i + 1, Len(s))

\* insertNodeAtHead:, for a node not yet in the map.
InsertNodeAtHead(m, k, n) ==
    [dic |-> [m.dic EXCEPT ![k] = n], list |-> <<k>> \o m.list,
     totalCost |-> m.totalCost + n.cost, totalCount |-> m.totalCount + 1]

\* Mutation: the node is linked at the head without being unlinked.
BringNodeToHeadStillLinked(m, k) == [m EXCEPT !.list = <<k>> \o m.list]

\* bringNodeToHead:, for a node already in the map.
BringNodeToHead(m, k) ==
    [dic |-> m.dic, list |-> <<k>> \o Without(m.list, IndexOf(m.list, k)),
     totalCost |-> m.totalCost, totalCount |-> m.totalCount]

\* The fields of a node already in the map are overwritten, and the total cost
\* follows its cost.
RewriteNode(m, k, n) ==
    [dic |-> [m.dic EXCEPT ![k] = n], list |-> m.list,
     totalCost |-> m.totalCost - m.dic[k].cost + n.cost,
     totalCount |-> m.totalCount]

\* removeNode:
RemoveNode(m, k) ==
    [dic |-> [m.dic EXCEPT ![k] = Nil],
     list |-> Without(m.list, IndexOf(m.list, k)),
     totalCost |-> m.totalCost - m.dic[k].cost,
     totalCount |-> m.totalCount - 1]

\* Mutation: the newest node is removed instead of the oldest.
RemoveTailNodeAtHead(m) ==
    IF m.list = <<>> THEN m ELSE RemoveNode(m, m.list[1])

\* removeTailNode: nil, and no change, when the list is empty.
RemoveTailNode(m) ==
    IF m.list = <<>> THEN m ELSE RemoveNode(m, m.list[Len(m.list)])

\* One method call turns the map m into n; C is what a node may hold.
MethodStep(m, n, C) ==
    \/ \E k \in Key \ Keys(m), c \in C : n = InsertNodeAtHead(m, k, c)
    \/ \E k \in Keys(m), c \in C : n = RewriteNode(m, k, c)
    \/ \E k \in Keys(m) : n = BringNodeToHead(m, k) \/ n = RemoveNode(m, k)
    \/ n = RemoveTailNode(m)
    \/ n = EmptyMap

-------------------------------------------------------------------------------
(* What makes a linked map sound. *)

\* Dictionary and list hold the same nodes, each once, and are counted right.
Consistent(m) ==
    /\ \A k \in Key : m.dic[k] # Nil <=> \E i \in 1..Len(m.list) : m.list[i] = k
    /\ \A i, j \in 1..Len(m.list) : m.list[i] = m.list[j] => i = j
    /\ m.totalCount = Len(m.list)

\* The costs of the nodes d of the first i keys of s, added up.
CostUpTo(d, s) ==
    LET sum[i \in 0..Len(s)] == IF i = 0 THEN 0 ELSE sum[i - 1] + d[s[i]].cost
    IN sum

CostOf(d, s) == CostUpTo(d, s)[Len(s)]

\* The running total is the sum of the costs of the nodes in the list.
CostsAddUp(m) == m.totalCost = CostOf(m.dic, m.list)

\* The list is in order of access time, newest first, none later than now.
Sorted(m, now) ==
    /\ \A i, j \in 1..Len(m.list) :
          i <= j => m.dic[m.list[j]].time <= m.dic[m.list[i]].time
    /\ \A i \in 1..Len(m.list) : m.dic[m.list[i]].time <= now

===============================================================================
