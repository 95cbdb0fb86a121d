------------------------------ MODULE YYLinkedMap ------------------------------
(***************************************************************************)
(* _YYLinkedMap (YYMemoryCache.m), pointer by pointer.  A node is a cell   *)
(* of the heap at an address; _prev and _next are unretained, so a node    *)
(* that leaves the dictionary is freed at once and its address may be      *)
(* used again.  _totalCost is an NSUInteger and wraps.  As in LRUMap, a    *)
(* method is an operator from a linked map to a linked map.                *)
(***************************************************************************)
EXTENDS LRUMap

CONSTANTS
    Contents,        \* value, cost and time of a node
    Addr,            \* addresses of nodes
    Modulus          \* NSUInteger counts modulo this

ASSUME PointerAssumption ==
    /\ Contents \subseteq Node
    /\ Nil \notin Addr
    /\ Modulus \in Nat \ {0}

VARIABLE map

Pointer == Addr \cup {Nil}
Cell == [key : Key, node : Contents, prev : Pointer, next : Pointer]

ASSUME CellAssumption == Nil \notin Cell

PointerMap ==
    [dic : [Key -> Pointer], heap : [Addr -> Cell \cup {Nil}],
     head : Pointer, tail : Pointer,
     totalCost : 0..(Modulus - 1), totalCount : Int]

TypeOK == map \in PointerMap

\* A new linked map.
Empty == [dic |-> [k \in Key |-> Nil], heap |-> [a \in Addr |-> Nil],
          head |-> Nil, tail |-> Nil, totalCost |-> 0, totalCount |-> 0]

\* [_YYLinkedMapNode new] at a free address, for key k.
NewNode(p, a, k, c) ==
    [p EXCEPT !.heap[a] = [key |-> k, node |-> c, prev |-> Nil, next |-> Nil]]

\* Mutation: the old head is not told who precedes it.
insertNodeAtHeadForwardOnly(p, a) ==
    LET n == p.heap[a] IN
    [p EXCEPT !.dic[n.key] = a,
              !.totalCost = (@ + n.node.cost) % Modulus,
              !.totalCount = @ + 1,
              !.head = a,
              !.tail = IF p.head = Nil THEN a ELSE @,
              !.heap[a].next = p.head]

\* Mutation: the node is linked at the other end.
insertNodeAtTail(p, a) ==
    LET n == p.heap[a]
        counted == [p EXCEPT !.dic[n.key] = a,
                             !.totalCost = (@ + n.node.cost) % Modulus,
                             !.totalCount = @ + 1]
    IN IF p.tail = Nil
       THEN [counted EXCEPT !.head = a, !.tail = a]
       ELSE [counted EXCEPT !.heap[a].prev = p.tail,
                            !.heap[p.tail].next = a, !.tail = a]

\* insertNodeAtHead:
insertNodeAtHead(p, a) ==
    LET n == p.heap[a]
        counted == [p EXCEPT !.dic[n.key] = a,
                             !.totalCost = (@ + n.node.cost) % Modulus,
                             !.totalCount = @ + 1]
    IN IF p.head = Nil
       THEN [counted EXCEPT !.head = a, !.tail = a]
       ELSE [counted EXCEPT !.heap[a].next = p.head,
                            !.heap[p.head].prev = a, !.head = a]

\* bringNodeToHead:
bringNodeToHead(p, a) ==
    LET n == p.heap[a]
        unlinked == IF p.tail = a
                    THEN [p EXCEPT !.tail = n.prev, !.heap[n.prev].next = Nil]
                    ELSE [p EXCEPT !.heap[n.next].prev = n.prev,
                                   !.heap[n.prev].next = n.next]
    IN IF p.head = a THEN p
       ELSE [unlinked EXCEPT !.heap[a].next = p.head, !.heap[a].prev = Nil,
                             !.heap[p.head].prev = a, !.head = a]

\* removeNode:.  The node's neighbours, if it has them, are linked to each other.
removeNode(p, a) ==
    LET n == p.heap[a]
        link(h) == [b \in Addr |->
                      IF b = n.next THEN [h[b] EXCEPT !.prev = n.prev]
                      ELSE IF b = n.prev THEN [h[b] EXCEPT !.next = n.next]
                      ELSE IF b = a THEN Nil ELSE h[b]]
    IN [p EXCEPT !.dic[n.key] = Nil,
                 !.totalCost = (@ - n.node.cost) % Modulus,
                 !.totalCount = @ - 1,
                 !.heap = link(@),
                 !.head = IF @ = a THEN n.next ELSE @,
                 !.tail = IF @ = a THEN n.prev ELSE @]

\* Mutation: the most recently used node is taken instead.
removeTailNodeAtHead(p) == IF p.head = Nil THEN p ELSE removeNode(p, p.head)

\* removeTailNode
removeTailNode(p) ==
    LET t == p.tail
        n == p.heap[t]
        counted == [p EXCEPT !.dic[n.key] = Nil,
                             !.totalCost = (@ - n.node.cost) % Modulus,
                             !.totalCount = @ - 1, !.heap[t] = Nil]
    IN IF t = Nil THEN p
       ELSE IF p.head = t THEN [counted EXCEPT !.head = Nil, !.tail = Nil]
       ELSE [counted EXCEPT !.tail = n.prev, !.heap[n.prev].next = Nil]

\* Mutation: the total is counted in a signed integer.
rewriteNodeSigned(p, a, c) ==
    [p EXCEPT !.totalCost = @ - p.heap[a].node.cost + c.cost, !.heap[a].node = c]

\* The fields of a node that setObject: finds in the map are overwritten.
rewriteNode(p, a, c) ==
    [p EXCEPT !.totalCost = (@ - p.heap[a].node.cost + c.cost) % Modulus,
              !.heap[a].node = c]

-------------------------------------------------------------------------------
Init == map = Empty

\* setObject: of a key that has no node, and of a key that has one.
Insert(k, a, c) ==
    /\ map.dic[k] = Nil /\ map.heap[a] = Nil
    /\ map' = insertNodeAtHead(NewNode(map, a, k, c), a)
Rewrite(k, c) == map.dic[k] # Nil /\ map' = rewriteNode(map, map.dic[k], c)

BringToHead(k) == map.dic[k] # Nil /\ map' = bringNodeToHead(map, map.dic[k])
RemoveOne(k) == map.dic[k] # Nil /\ map' = removeNode(map, map.dic[k])
RemoveTail == map' = removeTailNode(map)

\* removeAll: the nodes go with the dictionary that held them.
RemoveAll == map' = Empty

Next ==
    \/ \E k \in Key, c \in Contents : (\E a \in Addr : Insert(k, a, c)) \/ Rewrite(k, c)
    \/ \E k \in Key : BringToHead(k) \/ RemoveOne(k)
    \/ RemoveTail
    \/ RemoveAll
Spec == Init /\ [][Next]_map

-------------------------------------------------------------------------------
(* Properties. *)

\* The i-th node of the list of m, in p; nil before the first and after the last.
At(p, m, i) == IF i \in 1..Len(m.list) THEN p.dic[m.list[i]] ELSE Nil

\* The linked map p holds exactly what the abstract map m says: following
\* _next from _head, and _prev from _tail, visits the nodes of the list in
\* order; every node is filed under its own key; nothing else is allocated;
\* the total cost is right up to the width of the integer.
Represents(p, m) ==
    /\ \A k \in Key : p.dic[k] = Nil <=> m.dic[k] = Nil
    /\ \A i \in 1..Len(m.list) :
          LET n == p.heap[At(p, m, i)] IN
          /\ n # Nil /\ n.key = m.list[i] /\ n.node = m.dic[m.list[i]]
          /\ n.prev = At(p, m, i - 1) /\ n.next = At(p, m, i + 1)
    /\ \A a \in Addr : p.heap[a] # Nil => p.dic[p.heap[a].key] = a
    /\ p.head = At(p, m, 1) /\ p.tail = At(p, m, Len(m.list))
    /\ p.totalCost = m.totalCost % Modulus /\ p.totalCount = m.totalCount

\* The nodes met from _head along _next, and the map they stand for.
Walk(p) ==
    LET at[i \in 1..p.totalCount] ==
            IF i = 1 THEN p.head
            ELSE IF at[i - 1] = Nil THEN Nil ELSE p.heap[at[i - 1]].next
    IN at

Abstract(p) ==
    LET dic == [k \in Key |->
                  IF p.dic[k] = Nil THEN Nil ELSE p.heap[p.dic[k]].node]
        list == [i \in 1..p.totalCount |->
                   IF Walk(p)[i] = Nil THEN Nil ELSE p.heap[Walk(p)[i]].key]
    IN [dic |-> dic, list |-> list, totalCost |-> CostOf(dic, list),
        totalCount |-> p.totalCount]

\* The pointers are those of one doubly linked list, in both directions, and
\* _totalCost is the sum of the costs modulo 2^64: a wrap while the sum is too
\* large leaves no error behind once it is small again.
WellLinked == Represents(map, Abstract(map))

List == INSTANCE LRUList WITH lru <- Abstract(map)

\* Whatever the pointers do, the list that the nodes form changes only as the
\* methods of LRUList change it.
ImplementsList == List!Spec

\* The pointer surgery of each method does to that list what the same method
\* of LRUMap, on which YYMemoryCache is built, does to it.
MethodsAgree ==
    [][LET m == Abstract(map)
           n == Abstract(map)'
       IN /\ \A k \in Key, c \in Contents :
                /\ \A a \in Addr : Insert(k, a, c) => n = InsertNodeAtHead(m, k, c)
                /\ Rewrite(k, c) => n = RewriteNode(m, k, c)
          /\ \A k \in Key : /\ BringToHead(k) => n = BringNodeToHead(m, k)
                            /\ RemoveOne(k) => n = RemoveNode(m, k)
          /\ RemoveTail => n = RemoveTailNode(m)
          /\ RemoveAll => n = EmptyMap]_map

===============================================================================
