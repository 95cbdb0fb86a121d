-------------------------- MODULE YYLinkedMapProofs --------------------------
(***************************************************************************)
(* The pointers of YYLinkedMap implement the list of LRUMap: every method  *)
(* takes a linked map that represents an abstract one to a linked map that *)
(* represents what LRUMap makes of it.                                     *)
(***************************************************************************)
EXTENDS YYLinkedMap, LRUMapProofs

\* A step that names no prover is tried with SMT, then with Zenon, then with
\* SMT again for longer.
USE SMTT(15), ZenonT(20), SMTT(60)

-------------------------------------------------------------------------------
(* Arithmetic modulo the width of an integer. *)

LEMMA Division ==
    ASSUME NEW x \in Int
    PROVE  /\ x \div Modulus \in Int /\ x % Modulus \in 0..(Modulus - 1)
           /\ x = (x \div Modulus) * Modulus + (x % Modulus)
BY PointerAssumption

LEMMA Remainder ==
    ASSUME NEW x \in Int, NEW q \in Int, NEW r \in 0..(Modulus - 1),
           x = q * Modulus + r
    PROVE  x % Modulus = r
BY PointerAssumption

\* A sum may be reduced before the next cost is added to it.
LEMMA ModularSum ==
    ASSUME NEW x \in Int, NEW c \in Int
    PROVE  ((x % Modulus) + c) % Modulus = (x + c) % Modulus
<1> DEFINE q == x \div Modulus
           r == x % Modulus
           s == (r + c) \div Modulus
           t == (r + c) % Modulus
<1>1. q \in Int /\ r \in Int /\ x = q * Modulus + r
  BY Division, PointerAssumption
<1>2. s \in Int /\ t \in 0..(Modulus - 1) /\ r + c = s * Modulus + t
  BY <1>1, Division
<1> HIDE DEF q, r, s, t
<1>3. x + c = (q + s) * Modulus + t
  BY <1>1, <1>2, PointerAssumption
<1>4. (x + c) % Modulus = t
  BY <1>1, <1>2, <1>3, Remainder
<1> QED
  BY <1>4 DEF t, r

-------------------------------------------------------------------------------
(* Positions and addresses. *)

Rep(p, m) == p \in PointerMap /\ Whole(m) /\ Represents(p, m)

\* The nodes of the list are allocated, one address each, and no others are.
LEMMA NodesAndCells ==
    ASSUME NEW p, NEW m, Rep(p, m)
    PROVE  /\ m.list \in Seq(Key) /\ Len(m.list) \in Nat
           /\ m.dic \in [Key -> Node \cup {Nil}]
           /\ \A i \in 1..Len(m.list) :
                /\ m.list[i] \in Key /\ At(p, m, i) = p.dic[m.list[i]]
                /\ At(p, m, i) \in Addr /\ At(p, m, i) # Nil
                /\ m.dic[m.list[i]] \in Contents
                /\ p.heap[At(p, m, i)] \in Cell
                /\ p.heap[At(p, m, i)].key = m.list[i]
                /\ p.heap[At(p, m, i)].node = m.dic[m.list[i]]
                /\ p.heap[At(p, m, i)].prev = At(p, m, i - 1)
                /\ p.heap[At(p, m, i)].next = At(p, m, i + 1)
           /\ \A i, j \in 1..Len(m.list) : At(p, m, i) = At(p, m, j) => i = j
           /\ \A i \in Int : At(p, m, i) = Nil <=> i \notin 1..Len(m.list)
           /\ \A k \in Key : p.dic[k] # Nil => \E i \in 1..Len(m.list) : m.list[i] = k
           /\ \A a \in Addr : p.heap[a] # Nil => \E i \in 1..Len(m.list) : a = At(p, m, i)
<1> DEFINE s == m.list
           n == Len(s)
<1>1. /\ s \in Seq(Key) /\ n \in Nat /\ m.dic \in [Key -> Node \cup {Nil}]
      /\ m.totalCost \in Int
      /\ \A i, j \in 1..n : s[i] = s[j] => i = j
      /\ \A k \in Key : m.dic[k] # Nil <=> \E i \in 1..n : s[i] = k
  BY DEF Rep, Whole, LinkedMap, Consistent
<1>2. /\ p.dic \in [Key -> Addr \cup {Nil}]
      /\ p.heap \in [Addr -> Cell \cup {Nil}]
  BY DEF Rep, PointerMap, Pointer
<1>3. \A i \in 1..n : /\ s[i] \in Key /\ At(p, m, i) = p.dic[s[i]]
                      /\ At(p, m, i) \in Addr /\ At(p, m, i) # Nil
  <2> TAKE i \in 1..n
  <2>1. s[i] \in Key /\ m.dic[s[i]] # Nil
    BY <1>1
  <2>2. p.dic[s[i]] # Nil
    BY <2>1 DEF Rep, Represents
  <2> QED
    BY <2>1, <2>2, <1>2 DEF At
<1>4. \A i \in 1..n : /\ p.heap[At(p, m, i)] \in Cell
                      /\ p.heap[At(p, m, i)].key = s[i]
                      /\ p.heap[At(p, m, i)].node = m.dic[s[i]]
                      /\ p.heap[At(p, m, i)].prev = At(p, m, i - 1)
                      /\ p.heap[At(p, m, i)].next = At(p, m, i + 1)
  BY <1>2, <1>3 DEF Rep, Represents
<1>5. \A i \in 1..n : m.dic[s[i]] \in Contents
  BY <1>4 DEF Cell
<1>6. \A i, j \in 1..n : At(p, m, i) = At(p, m, j) => i = j
  <2> SUFFICES ASSUME NEW i \in 1..n, NEW j \in 1..n, At(p, m, i) = At(p, m, j)
               PROVE  i = j
    OBVIOUS
  <2>1. p.heap[At(p, m, i)].key = s[i] /\ p.heap[At(p, m, j)].key = s[j]
    BY <1>4
  <2> QED
    BY <2>1, <1>1
<1>7. \A i \in Int : At(p, m, i) = Nil <=> i \notin 1..n
  BY <1>3 DEF At
<1>8. \A k \in Key : p.dic[k] # Nil => \E i \in 1..n : s[i] = k
  BY <1>1 DEF Rep, Represents
<1>9. \A a \in Addr : p.heap[a] # Nil => \E i \in 1..n : a = At(p, m, i)
  <2> SUFFICES ASSUME NEW a \in Addr, p.heap[a] # Nil
               PROVE  \E i \in 1..n : a = At(p, m, i)
    OBVIOUS
  <2>1. p.dic[p.heap[a].key] = a /\ p.heap[a].key \in Key
    BY <1>2 DEF Rep, Represents, Cell
  <2>2. p.dic[p.heap[a].key] # Nil
    BY <2>1, PointerAssumption
  <2>3. PICK i \in 1..n : s[i] = p.heap[a].key
    BY <2>1, <2>2, <1>8
  <2> QED
    BY <2>1, <2>3, <1>3
<1> QED
  BY <1>1, <1>3, <1>4, <1>5, <1>6, <1>7, <1>8, <1>9

\* Its parts, to cite one at a time. Where the nodes are:
LEMMA Nodes ==
    ASSUME NEW p, NEW m, Rep(p, m)
    PROVE  /\ Len(m.list) \in Nat
           /\ \A i \in 1..Len(m.list) :
                /\ m.list[i] \in Key /\ At(p, m, i) = p.dic[m.list[i]]
                /\ At(p, m, i) \in Addr /\ At(p, m, i) # Nil
           /\ \A i, j \in 1..Len(m.list) : At(p, m, i) = At(p, m, j) => i = j
           /\ \A i \in Int : At(p, m, i) = Nil <=> i \notin 1..Len(m.list)
BY NodesAndCells

\* What each node holds: its key, contents and neighbours.
LEMMA NodeCells ==
    ASSUME NEW p, NEW m, Rep(p, m)
    PROVE  \A i \in 1..Len(m.list) :
                /\ m.dic[m.list[i]] \in Contents
                /\ p.heap[At(p, m, i)] \in Cell
                /\ p.heap[At(p, m, i)].key = m.list[i]
                /\ p.heap[At(p, m, i)].node = m.dic[m.list[i]]
                /\ p.heap[At(p, m, i)].prev = At(p, m, i - 1)
                /\ p.heap[At(p, m, i)].next = At(p, m, i + 1)
BY NodesAndCells

\* A key of dic is the key of a node of the list.
LEMMA KeyListed ==
    ASSUME NEW p, NEW m, Rep(p, m), NEW k \in Key, p.dic[k] # Nil
    PROVE  \E i \in 1..Len(m.list) : m.list[i] = k
BY NodesAndCells

\* An allocated node is in the list.
LEMMA CellListed ==
    ASSUME NEW p, NEW m, Rep(p, m), NEW a \in Addr, p.heap[a] # Nil
    PROVE  \E i \in 1..Len(m.list) : a = At(p, m, i)
BY NodesAndCells

\* The ends of the list.
LEMMA Ends ==
    ASSUME NEW p, NEW m, Rep(p, m)
    PROVE  /\ p.head = At(p, m, 1) /\ p.tail = At(p, m, Len(m.list))
           /\ p.head = Nil <=> Len(m.list) = 0
           /\ p.tail = Nil <=> Len(m.list) = 0
           /\ Len(m.list) # 0 => /\ p.head \in Addr /\ p.heap[p.head] \in Cell
                                 /\ p.tail \in Addr /\ p.heap[p.tail] \in Cell
<1> DEFINE n == Len(m.list)
<1>1. p.head = At(p, m, 1) /\ p.tail = At(p, m, n)
  BY DEF Rep, Represents
<1>2. /\ n \in Nat /\ \A i \in Int : At(p, m, i) = Nil <=> i \notin 1..n
      /\ \A i \in 1..n : At(p, m, i) \in Addr
  BY Nodes
<1>cells. \A i \in 1..n : p.heap[At(p, m, i)] \in Cell
  BY NodeCells
<1> HIDE DEF n
<1>3. /\ At(p, m, 1) = Nil <=> 1 \notin 1..n
      /\ At(p, m, n) = Nil <=> n \notin 1..n
  BY <1>2
<1>4. n # 0 => 1 \in 1..n /\ n \in 1..n
  BY <1>2
<1>5. n = 0 => 1 \notin 1..n /\ n \notin 1..n
  BY <1>2
<1> QED
  BY <1>1, <1>2, <1>cells, <1>3, <1>4, <1>5 DEF n

-------------------------------------------------------------------------------
(* Each method. *)

\* The fields of a linked map whose heap and counters are known.
LEMMA FieldsTyped ==
    ASSUME NEW d \in [Key -> Pointer], NEW h \in [Addr -> Cell \cup {Nil}],
           NEW x \in Pointer, NEW y \in Pointer, NEW t \in Int, NEW n \in Int
    PROVE  [dic |-> d, heap |-> h, head |-> x, tail |-> y,
            totalCost |-> t % Modulus, totalCount |-> n] \in PointerMap
BY Division DEF PointerMap

\* Assigning every field.
LEMMA AllFields ==
    ASSUME NEW p \in PointerMap, NEW d \in [Key -> Pointer],
           NEW h \in [Addr -> Cell \cup {Nil}], NEW x \in Pointer,
           NEW y \in Pointer, NEW t \in Int, NEW n \in Int
    PROVE  [p EXCEPT !.dic = d, !.totalCost = t % Modulus, !.totalCount = n,
                     !.heap = h, !.head = x, !.tail = y] \in PointerMap
<1>1. t % Modulus \in 0..(Modulus - 1)
  BY Division
<1> QED
  BY <1>1, Zenon, ZenonT(60) DEF PointerMap

\* What insertNodeAtHead: of a new node assigns.
Inserted(p, q, k, a, c) ==
    /\ q.dic = [p.dic EXCEPT ![k] = a]
    /\ q.head = a /\ q.tail = IF p.head = Nil THEN a ELSE p.tail
    /\ q.totalCost = (p.totalCost + c.cost) % Modulus
    /\ q.totalCount = p.totalCount + 1
    /\ q.heap \in [Addr -> Cell \cup {Nil}] /\ q.heap[a] \in Cell
    /\ q.heap[a].key = k /\ q.heap[a].node = c
    /\ q.heap[a].prev = Nil /\ q.heap[a].next = p.head
    /\ \A b \in Addr \ {a, p.head} : q.heap[b] = p.heap[b]
    /\ p.head # Nil =>
         /\ q.heap[p.head] \in Cell
         /\ q.heap[p.head].key = p.heap[p.head].key
         /\ q.heap[p.head].node = p.heap[p.head].node
         /\ q.heap[p.head].next = p.heap[p.head].next
         /\ q.heap[p.head].prev = a
    /\ q \in PointerMap

LEMMA InsertFields ==
    ASSUME NEW p, NEW m, Rep(p, m), NEW k \in Key,
           NEW a \in Addr, p.heap[a] = Nil, NEW c \in Contents
    PROVE  Inserted(p, insertNodeAtHead(NewNode(p, a, k, c), a), k, a, c)
<1> DEFINE q == insertNodeAtHead(NewNode(p, a, k, c), a)
<1>1. /\ p.dic \in [Key -> Pointer] /\ p.heap \in [Addr -> Cell \cup {Nil}]
      /\ p.head \in Pointer /\ p.tail \in Pointer
      /\ p.totalCost \in Int /\ p.totalCount \in Int
  BY PointerAssumption DEF Rep, PointerMap
<1>2. c \in Node /\ c.cost \in Nat
  BY PointerAssumption DEF Node
<1>5. /\ q.dic = [p.dic EXCEPT ![k] = a]
      /\ q.head = a /\ q.tail = IF p.head = Nil THEN a ELSE p.tail
      /\ q.totalCost = (p.totalCost + c.cost) % Modulus
      /\ q.totalCount = p.totalCount + 1
  BY <1>1 DEF insertNodeAtHead, NewNode, Rep, PointerMap
<1>6. /\ q.heap \in [Addr -> Cell \cup {Nil}] /\ q.heap[a] \in Cell
      /\ q.heap[a].key = k /\ q.heap[a].node = c
      /\ q.heap[a].prev = Nil /\ q.heap[a].next = p.head
      /\ \A b \in Addr \ {a, p.head} : q.heap[b] = p.heap[b]
      /\ p.head # Nil =>
           /\ q.heap[p.head] \in Cell
           /\ q.heap[p.head].key = p.heap[p.head].key
           /\ q.heap[p.head].node = p.heap[p.head].node
           /\ q.heap[p.head].next = p.heap[p.head].next
           /\ q.heap[p.head].prev = a
  <2> DEFINE cell == [key |-> k, node |-> c, prev |-> Nil, next |-> Nil]
             h == [p.heap EXCEPT ![a] = cell]
  <2>1. cell \in Cell /\ [cell EXCEPT !.next = p.head] \in Cell
    BY <1>1 DEF Cell, Pointer
  <2>2. CASE p.head = Nil
    <3>1. q.heap = h
      BY <2>2, <1>1 DEF insertNodeAtHead, NewNode, Rep, PointerMap
    <3> QED
      BY <2>1, <2>2, <3>1, <1>1
  <2>3. CASE p.head # Nil
    <3>1. p.head \in Addr /\ p.head # a /\ p.heap[p.head] \in Cell
      BY <2>3, Ends, CellAssumption
    <3>2. [p.heap[p.head] EXCEPT !.prev = a] \in Cell
      BY <3>1 DEF Cell, Pointer
    <3>3. q.heap = [p.heap EXCEPT ![a] = [cell EXCEPT !.next = p.head],
                                  ![p.head] = [p.heap[p.head] EXCEPT !.prev = a]]
      BY <2>3, <3>1, <1>1 DEF insertNodeAtHead, NewNode, Rep, PointerMap
    <3> QED
      BY <2>1, <2>3, <3>1, <3>2, <3>3, <1>1
  <2> QED
    BY <2>2, <2>3
<1>7. q \in PointerMap
  <2>1. q = [dic |-> q.dic, heap |-> q.heap, head |-> q.head, tail |-> q.tail,
             totalCost |-> q.totalCost, totalCount |-> q.totalCount]
    BY Zenon, ZenonT(60) DEF insertNodeAtHead, NewNode, Rep, PointerMap
  <2>2. q.dic \in [Key -> Pointer] /\ q.head \in Pointer /\ q.tail \in Pointer
    BY <1>1, <1>5 DEF Pointer
  <2>3. p.totalCost + c.cost \in Int /\ p.totalCount + 1 \in Int
    BY <1>1, <1>2
  <2> HIDE DEF q
  <2> QED
    BY <2>1, <2>2, <2>3, <1>5, <1>6, FieldsTyped
<1> HIDE DEF q
<1>8. Inserted(p, q, k, a, c)
  BY <1>5, <1>6, <1>7 DEF Inserted
<1> QED
  BY <1>8 DEF q

\* insertNodeAtHead: of a new node.
LEMMA InsertRep ==
    ASSUME NEW p, NEW m, Rep(p, m), NEW k \in Key, p.dic[k] = Nil,
           NEW a \in Addr, p.heap[a] = Nil, NEW c \in Contents
    PROVE  Rep(insertNodeAtHead(NewNode(p, a, k, c), a), InsertNodeAtHead(m, k, c))
<1> DEFINE q == insertNodeAtHead(NewNode(p, a, k, c), a)
           r == InsertNodeAtHead(m, k, c)
           n == Len(m.list)
<1>1. /\ p.dic \in [Key -> Pointer] /\ p.heap \in [Addr -> Cell \cup {Nil}]
      /\ p.head \in Pointer /\ p.tail \in Pointer
      /\ p.totalCost \in Int /\ p.totalCount \in Int
      /\ p.totalCost = m.totalCost % Modulus /\ p.totalCount = m.totalCount
      /\ p.head = At(p, m, 1) /\ p.tail = At(p, m, n)
      /\ m.totalCost \in Int /\ Whole(m) /\ m.dic[k] = Nil
  BY PointerAssumption DEF Rep, PointerMap, Represents, Whole, LinkedMap
<1>2. c \in Node /\ c.cost \in Nat
  BY PointerAssumption DEF Node
<1>3. /\ Whole(r) /\ r.dic = [m.dic EXCEPT ![k] = c]
      /\ Len(r.list) = n + 1 /\ r.list[1] = k
      /\ \A j \in 2..Len(r.list) :
           j - 1 \in 1..n /\ r.list[j] = m.list[j - 1]
      /\ \A i \in 1..n : m.list[i] \in Key /\ m.list[i] # k
  BY <1>1, <1>2, InsertWhole
<1>4. r.totalCost = m.totalCost + c.cost /\ r.totalCount = m.totalCount + 1
  BY DEF InsertNodeAtHead
<1>0. Inserted(p, q, k, a, c)
  BY InsertFields
<1> HIDE DEF q
<1>5. /\ q.dic = [p.dic EXCEPT ![k] = a]
      /\ q.head = a /\ q.tail = IF p.head = Nil THEN a ELSE p.tail
      /\ q.totalCost = (p.totalCost + c.cost) % Modulus
      /\ q.totalCount = p.totalCount + 1
  BY <1>0 DEF Inserted
<1>6. /\ q.heap \in [Addr -> Cell \cup {Nil}] /\ q.heap[a] \in Cell
      /\ q.heap[a].key = k /\ q.heap[a].node = c
      /\ q.heap[a].prev = Nil /\ q.heap[a].next = p.head
      /\ \A b \in Addr \ {a, p.head} : q.heap[b] = p.heap[b]
      /\ p.head # Nil =>
           /\ q.heap[p.head] \in Cell
           /\ q.heap[p.head].key = p.heap[p.head].key
           /\ q.heap[p.head].node = p.heap[p.head].node
           /\ q.heap[p.head].next = p.heap[p.head].next
           /\ q.heap[p.head].prev = a
  BY <1>0 DEF Inserted
<1>7. q \in PointerMap
  BY <1>0 DEF Inserted
<1> HIDE DEF q, r
<1>8. /\ n \in Nat
      /\ \A i \in 1..n : /\ m.list[i] \in Key /\ At(p, m, i) = p.dic[m.list[i]]
                         /\ At(p, m, i) \in Addr /\ At(p, m, i) # Nil
      /\ \A i, j \in 1..n : At(p, m, i) = At(p, m, j) => i = j
      /\ \A i \in Int : At(p, m, i) = Nil <=> i \notin 1..n
  BY Nodes
<1>cells. \A i \in 1..n : /\ p.heap[At(p, m, i)] \in Cell
                          /\ p.heap[At(p, m, i)].key = m.list[i]
                          /\ p.heap[At(p, m, i)].node = m.dic[m.list[i]]
                          /\ p.heap[At(p, m, i)].prev = At(p, m, i - 1)
                          /\ p.heap[At(p, m, i)].next = At(p, m, i + 1)
  BY NodeCells
<1>new. \A i \in 1..n : At(p, m, i) # a
  BY <1>cells, CellAssumption
<1>9. At(q, r, 1) = a /\ \A i \in Int \ {1} : At(q, r, i) = At(p, m, i - 1)
  <2>1. At(q, r, 1) = a
    <3>1. 1 \in 1..Len(r.list) /\ q.dic[r.list[1]] = a
      BY <1>1, <1>3, <1>5, <1>8
    <3> QED
      BY <3>1 DEF At
  <2>2. ASSUME NEW i \in Int \ {1}
        PROVE  At(q, r, i) = At(p, m, i - 1)
    <3>1. CASE i \in 2..(n + 1)
      <4>1. i - 1 \in 1..n /\ r.list[i] = m.list[i - 1] /\ i \in 1..Len(r.list)
        BY <3>1, <1>3, <1>8
      <4>2. q.dic[m.list[i - 1]] = p.dic[m.list[i - 1]]
        BY <4>1, <1>1, <1>3, <1>5
      <4> QED
        BY <4>1, <4>2 DEF At
    <3>2. CASE i \notin 2..(n + 1)
      <4>1. i - 1 \notin 1..n /\ i \notin 1..Len(r.list)
        BY <3>2, <1>3, <1>8
      <4> QED
        BY <4>1 DEF At
    <3> QED
      BY <3>1, <3>2
  <2> QED
    BY <2>1, <2>2
<1>10. ASSUME NEW i \in 1..Len(r.list)
       PROVE  /\ q.heap[At(q, r, i)] # Nil
              /\ q.heap[At(q, r, i)].key = r.list[i]
              /\ q.heap[At(q, r, i)].node = r.dic[r.list[i]]
              /\ q.heap[At(q, r, i)].prev = At(q, r, i - 1)
              /\ q.heap[At(q, r, i)].next = At(q, r, i + 1)
  <2>1. CASE i = 1
    <3>1. At(q, r, 0) = Nil /\ At(q, r, 2) = p.head
      <4>1. At(q, r, 0) = At(p, m, 0 - 1) /\ At(q, r, 2) = At(p, m, 2 - 1)
        BY <1>9
      <4>2. At(p, m, 0 - 1) = Nil
        BY <1>8
      <4> QED
        BY <4>1, <4>2, <1>1
    <3>2. r.dic[k] = c
      BY <1>1, <1>3 DEF Whole, LinkedMap
    <3> QED
      BY <2>1, <3>1, <3>2, <1>3, <1>6, <1>9, CellAssumption
  <2>2. CASE i # 1
    <3>1. /\ i - 1 \in 1..n /\ r.list[i] = m.list[i - 1]
          /\ At(q, r, i) = At(p, m, i - 1) /\ At(q, r, i + 1) = At(p, m, i)
      BY <2>2, <1>3, <1>8, <1>9
    <3>2. r.dic[r.list[i]] = m.dic[m.list[i - 1]]
      BY <3>1, <1>1, <1>3 DEF Whole, LinkedMap
    <3>0. 1 \in 1..n /\ i - 1 - 1 = i - 2 /\ i - 1 + 1 = i
      BY <3>1
    <3>6. At(p, m, i - 1) \in Addr /\ At(p, m, i - 1) # a
      BY <3>1, <1>8, <1>new, Zenon, ZenonT(60)
    <3>5. /\ p.heap[At(p, m, i - 1)] \in Cell
          /\ p.heap[At(p, m, i - 1)].key = m.list[i - 1]
          /\ p.heap[At(p, m, i - 1)].node = m.dic[m.list[i - 1]]
          /\ p.heap[At(p, m, i - 1)].prev = At(p, m, i - 2)
          /\ p.heap[At(p, m, i - 1)].next = At(p, m, i)
      BY <3>0, <3>1, <1>cells, Zenon, ZenonT(60)
    <3>3. CASE i = 2
      <4>1. i - 1 = 1
        BY <3>3
      <4>2. At(q, r, i) = p.head /\ p.head # Nil /\ At(q, r, i - 1) = a
        BY <3>1, <3>6, <4>1, <1>1, <1>9, PointerAssumption, Zenon, ZenonT(60)
      <4>3. /\ q.heap[p.head] \in Cell
            /\ q.heap[p.head].key = p.heap[p.head].key
            /\ q.heap[p.head].node = p.heap[p.head].node
            /\ q.heap[p.head].next = p.heap[p.head].next
            /\ q.heap[p.head].prev = a
        BY <4>2, <1>6, Zenon, ZenonT(60)
      <4>4. p.head = At(p, m, i - 1)
        BY <3>1, <4>2, Zenon, ZenonT(60)
      <4> QED
        BY <3>1, <3>2, <3>5, <4>2, <4>3, <4>4, CellAssumption, Zenon, ZenonT(60)
    <3>4. CASE i # 2
      <4>1. i - 1 # 1 /\ i - 1 \in Int \ {1}
        BY <3>1, <3>4
      <4>2. At(q, r, i) # p.head
        BY <3>0, <3>1, <4>1, <1>1, <1>8, Zenon, ZenonT(60)
      <4>3. At(q, r, i - 1) = At(p, m, i - 2)
        BY <3>0, <4>1, <1>9, Zenon, ZenonT(60)
      <4>4. q.heap[At(q, r, i)] = p.heap[At(p, m, i - 1)]
        BY <3>1, <3>6, <4>2, <1>6, Zenon, ZenonT(60)
      <4> QED
        BY <3>1, <3>2, <3>5, <4>3, <4>4, CellAssumption, Zenon, ZenonT(60)
    <3> QED
      BY <3>3, <3>4
  <2> QED
    BY <2>1, <2>2
<1>11. \A x \in Key : q.dic[x] = Nil <=> r.dic[x] = Nil
  <2>1. \A x \in Key : p.dic[x] = Nil <=> m.dic[x] = Nil
    BY DEF Rep, Represents
  <2>2. /\ \A x \in Key \ {k} : q.dic[x] = p.dic[x] /\ r.dic[x] = m.dic[x]
        /\ q.dic[k] = a /\ r.dic[k] = c
    BY <1>1, <1>3, <1>5 DEF Whole, LinkedMap
  <2> QED
    BY <2>1, <2>2, <1>2, PointerAssumption, NilAssumption, Zenon, ZenonT(60)
<1>12. \A b \in Addr : q.heap[b] # Nil => q.dic[q.heap[b].key] = b
  <2> SUFFICES ASSUME NEW b \in Addr, q.heap[b] # Nil
               PROVE  q.dic[q.heap[b].key] = b
    OBVIOUS
  <2>1. CASE b = a
    BY <2>1, <1>1, <1>5, <1>6
  <2>2. CASE b # a
    <3>1. p.heap[b] # Nil /\ q.heap[b].key = p.heap[b].key
      <4>1. CASE b = p.head
        <5>1. p.head # Nil
          BY <4>1, PointerAssumption
        <5>2. p.heap[p.head] \in Cell
          BY <5>1, Ends
        <5> QED
          BY <4>1, <5>1, <5>2, <1>6, CellAssumption
      <4>2. CASE b # p.head
        BY <2>2, <4>2, <1>6
      <4> QED
        BY <4>1, <4>2
    <3>2. PICK i \in 1..n : b = At(p, m, i)
      BY <3>1, CellListed
    <3>3. p.heap[b].key = m.list[i] /\ p.dic[m.list[i]] = b
      <4>1. p.heap[At(p, m, i)].key = m.list[i]
        BY <1>cells, Zenon, ZenonT(60)
      <4>2. At(p, m, i) = p.dic[m.list[i]]
        BY <1>8, Zenon, ZenonT(60)
      <4> QED
        BY <3>2, <4>1, <4>2, Zenon, ZenonT(60)
    <3>4. q.dic[m.list[i]] = p.dic[m.list[i]]
      BY <1>1, <1>3, <1>5
    <3> QED
      BY <3>1, <3>3, <3>4
  <2> QED
    BY <2>1, <2>2
<1>13. q.head = At(q, r, 1) /\ q.tail = At(q, r, Len(r.list))
  <2>1. CASE n = 0
    BY <2>1, <1>3, <1>5, <1>9, Ends
  <2>2. CASE n # 0
    <3>1. q.tail = At(p, m, n)
      BY <2>2, <1>1, <1>5, Ends
    <3>2. At(q, r, n + 1) = At(p, m, n)
      BY <2>2, <1>8, <1>9
    <3> QED
      BY <3>1, <3>2, <1>3, <1>5, <1>9
  <2> QED
    BY <2>1, <2>2
<1>14. q.totalCost = r.totalCost % Modulus /\ q.totalCount = r.totalCount
  <2>1. ((m.totalCost % Modulus) + c.cost) % Modulus = (m.totalCost + c.cost) % Modulus
    <3>1. m.totalCost \in Int /\ c.cost \in Int
      BY <1>1, <1>2
    <3> QED
      BY <3>1, ModularSum, Zenon, ZenonT(60)
  <2> QED
    BY <2>1, <1>1, <1>4, <1>5
<1>15. Represents(q, r)
  BY <1>10, <1>11, <1>12, <1>13, <1>14, Zenon, ZenonT(60) DEF Represents
<1> QED
  BY <1>3, <1>7, <1>15 DEF Rep, q, r

\* removeNode: of a node of the map.
LEMMA RemoveRep ==
    ASSUME NEW p, NEW m, Rep(p, m), NEW k \in Key, p.dic[k] # Nil
    PROVE  Rep(removeNode(p, p.dic[k]), RemoveNode(m, k))
<1> DEFINE a == p.dic[k]
           x == p.heap[a]
           q == removeNode(p, a)
           r == RemoveNode(m, k)
           n == Len(m.list)
           pos == IndexOf(m.list, k)
<1>1. /\ p.dic \in [Key -> Pointer] /\ p.heap \in [Addr -> Cell \cup {Nil}]
      /\ p.head \in Pointer /\ p.tail \in Pointer
      /\ p.totalCost \in Int /\ p.totalCount \in Int
      /\ p.totalCost = m.totalCost % Modulus /\ p.totalCount = m.totalCount
      /\ p.head = At(p, m, 1) /\ p.tail = At(p, m, n)
      /\ m.totalCost \in Int /\ Whole(m) /\ m.dic[k] # Nil
      /\ m.dic \in [Key -> Node \cup {Nil}]
  BY PointerAssumption DEF Rep, PointerMap, Represents, Whole, LinkedMap
<1>2. m.dic[k] \in Node /\ m.dic[k].cost \in Int
  BY <1>1 DEF Node
<1>3. /\ Whole(r) /\ r.dic = [m.dic EXCEPT ![k] = Nil]
      /\ pos \in 1..n /\ m.list[pos] = k /\ Len(r.list) = n - 1
      /\ \A j \in 1..Len(r.list) :
           /\ Old(pos, j) \in 1..n /\ Old(pos, j) # pos
           /\ r.list[j] = m.list[Old(pos, j)]
           /\ r.list[j] \in Key /\ r.list[j] # k
  BY <1>1, RemoveWhole
<1>4. r.totalCost = m.totalCost - m.dic[k].cost /\ r.totalCount = m.totalCount - 1
  BY DEF RemoveNode
<1> HIDE DEF pos
<1>5. /\ n \in Nat
      /\ \A i \in 1..n : /\ m.list[i] \in Key /\ At(p, m, i) = p.dic[m.list[i]]
                         /\ At(p, m, i) \in Addr /\ At(p, m, i) # Nil
      /\ \A i, j \in 1..n : At(p, m, i) = At(p, m, j) => i = j
      /\ \A i \in Int : At(p, m, i) = Nil <=> i \notin 1..n
  BY Nodes
<1>cells. \A i \in 1..n : /\ p.heap[At(p, m, i)] \in Cell
                          /\ p.heap[At(p, m, i)].key = m.list[i]
                          /\ p.heap[At(p, m, i)].node = m.dic[m.list[i]]
                          /\ p.heap[At(p, m, i)].prev = At(p, m, i - 1)
                          /\ p.heap[At(p, m, i)].next = At(p, m, i + 1)
  BY NodeCells
<1>6. /\ a = At(p, m, pos) /\ a \in Addr /\ x \in Cell
      /\ x.key = k /\ x.node = m.dic[k]
      /\ x.prev = At(p, m, pos - 1) /\ x.next = At(p, m, pos + 1)
  BY <1>3, <1>5, <1>cells, Zenon, ZenonT(60)
<1>7. /\ q.dic = [p.dic EXCEPT ![k] = Nil]
      /\ q.totalCost = (p.totalCost - m.dic[k].cost) % Modulus
      /\ q.totalCount = p.totalCount - 1
      /\ q.head = IF p.head = a THEN x.next ELSE p.head
      /\ q.tail = IF p.tail = a THEN x.prev ELSE p.tail
      /\ q.heap = [b \in Addr |->
                      IF b = x.next THEN [p.heap[b] EXCEPT !.prev = x.prev]
                      ELSE IF b = x.prev THEN [p.heap[b] EXCEPT !.next = x.next]
                      ELSE IF b = a THEN Nil ELSE p.heap[b]]
  BY <1>1, <1>6 DEF removeNode, Rep, PointerMap
<1>names. a = p.dic[k] /\ x = p.heap[a]
  OBVIOUS
<1> HIDE DEF q, r, a, x
<1>8. \A j \in Int : At(q, r, j) = At(p, m, Old(pos, j))
  <2> TAKE j \in Int
  <2>1. CASE j \in 1..Len(r.list)
    <3>1. /\ Old(pos, j) \in 1..n /\ r.list[j] = m.list[Old(pos, j)]
          /\ m.list[Old(pos, j)] \in Key /\ m.list[Old(pos, j)] # k
      BY <2>1, <1>3
    <3>2. q.dic[r.list[j]] = p.dic[m.list[Old(pos, j)]]
      BY <3>1, <1>1, <1>7, ZenonT(30), ZenonT(60)
    <3> QED
      BY <2>1, <3>1, <3>2 DEF At
  <2>2. CASE j \notin 1..Len(r.list)
    <3>1. Old(pos, j) \notin 1..n
      BY <2>2, <1>3, <1>5 DEF Old
    <3> QED
      BY <2>2, <3>1 DEF At
  <2> QED
    BY <2>1, <2>2
<1>9. ASSUME NEW i \in 1..n, i # pos
      PROVE  /\ q.heap[At(p, m, i)] \in Cell
             /\ q.heap[At(p, m, i)].key = m.list[i]
             /\ q.heap[At(p, m, i)].node = m.dic[m.list[i]]
             /\ q.heap[At(p, m, i)].prev = At(p, m, IF i = pos + 1 THEN pos - 1 ELSE i - 1)
             /\ q.heap[At(p, m, i)].next = At(p, m, IF i = pos - 1 THEN pos + 1 ELSE i + 1)
  <2> DEFINE b == At(p, m, i)
  <2>1. b \in Addr /\ b # a /\ p.heap[b] \in Cell
    <3>1. b \in Addr /\ b # At(p, m, pos)
      BY <1>3, <1>5, <1>9, Zenon, ZenonT(60)
    <3>2. p.heap[b] \in Cell
      BY <1>cells, Zenon, ZenonT(60)
    <3> QED
      BY <3>1, <3>2, <1>6, Zenon, ZenonT(60)
  <2>0. /\ p.heap[b].key = m.list[i] /\ p.heap[b].node = m.dic[m.list[i]]
        /\ p.heap[b].prev = At(p, m, i - 1) /\ p.heap[b].next = At(p, m, i + 1)
    BY <1>cells, Zenon, ZenonT(60)
  <2>2. x.prev \in Pointer /\ x.next \in Pointer
    BY <1>6 DEF Cell
  <2>3. b = x.next <=> i = pos + 1
    <3>1. CASE pos + 1 \in 1..n
      BY <3>1, <1>5, <1>6
    <3>2. CASE pos + 1 \notin 1..n
      BY <3>2, <1>3, <1>5, <1>6
    <3> QED
      BY <3>1, <3>2
  <2>4. b = x.prev <=> i = pos - 1
    <3>1. CASE pos - 1 \in 1..n
      BY <3>1, <1>5, <1>6
    <3>2. CASE pos - 1 \notin 1..n
      BY <3>2, <1>3, <1>5, <1>6
    <3> QED
      BY <3>1, <3>2
  <2>5. CASE i = pos + 1
    <3>1. q.heap[b] = [p.heap[b] EXCEPT !.prev = x.prev]
      BY <2>1, <2>3, <2>5, <1>7, Zenon, ZenonT(60)
    <3>2. [p.heap[b] EXCEPT !.prev = x.prev] \in Cell
      BY <2>1, <2>2 DEF Cell
    <3>3. /\ q.heap[b].key = p.heap[b].key /\ q.heap[b].node = p.heap[b].node
          /\ q.heap[b].next = p.heap[b].next /\ q.heap[b].prev = x.prev
      BY <2>1, <3>1 DEF Cell
    <3>4. i # pos - 1
      BY <2>5, <1>3, <1>5
    <3> QED
      BY <2>0, <2>5, <3>1, <3>2, <3>3, <3>4, <1>6, Zenon, ZenonT(60)
  <2>6. CASE i = pos - 1
    <3>5. i # pos + 1
      BY <2>6, <1>3, <1>5
    <3>1. q.heap[b] = [p.heap[b] EXCEPT !.next = x.next]
      BY <2>1, <2>3, <2>4, <2>6, <3>5, <1>7, Zenon, ZenonT(60)
    <3>2. [p.heap[b] EXCEPT !.next = x.next] \in Cell
      BY <2>1, <2>2 DEF Cell
    <3>3. /\ q.heap[b].key = p.heap[b].key /\ q.heap[b].node = p.heap[b].node
          /\ q.heap[b].prev = p.heap[b].prev /\ q.heap[b].next = x.next
      BY <2>1, <3>1 DEF Cell
    <3> QED
      BY <2>0, <2>6, <3>1, <3>2, <3>3, <3>5, <1>6, Zenon, ZenonT(60)
  <2>7. CASE i # pos + 1 /\ i # pos - 1
    <3>1. q.heap[b] = p.heap[b]
      BY <2>1, <2>3, <2>4, <2>7, <1>7, Zenon, ZenonT(60)
    <3> QED
      BY <2>0, <2>1, <2>7, <3>1, Zenon, ZenonT(60)
  <2> QED
    BY <2>5, <2>6, <2>7
<1>10. \A b \in Addr : q.heap[b] # Nil => \E i \in 1..n : i # pos /\ b = At(p, m, i)
  <2> SUFFICES ASSUME NEW b \in Addr, q.heap[b] # Nil
               PROVE  \E i \in 1..n : i # pos /\ b = At(p, m, i)
    OBVIOUS
  <2>1. CASE b = x.next
    <3>1. pos + 1 \in 1..n
      BY <2>1, <1>3, <1>5, <1>6, PointerAssumption
    <3> QED
      BY <2>1, <3>1, <1>3, <1>6
  <2>2. CASE b = x.prev
    <3>1. pos - 1 \in 1..n
      BY <2>2, <1>3, <1>5, <1>6, PointerAssumption
    <3> QED
      BY <2>2, <3>1, <1>3, <1>6
  <2>3. CASE b # x.next /\ b # x.prev
    <3>1. b # a /\ p.heap[b] # Nil
      BY <2>3, <1>7, Zenon, ZenonT(60)
    <3>2. PICK i \in 1..n : b = At(p, m, i)
      BY <3>1, CellListed
    <3> QED
      BY <3>1, <3>2, <1>6
  <2> QED
    BY <2>1, <2>2, <2>3
<1>11. q.heap \in [Addr -> Cell \cup {Nil}]
  <2>1. \A b \in Addr : q.heap[b] \in Cell \cup {Nil}
    BY <1>9, <1>10
  <2>2. q.heap = [b \in Addr |-> q.heap[b]]
    BY <1>7, Zenon, ZenonT(60)
  <2> QED
    BY <2>1, <2>2
<1>12. q \in PointerMap
  <2> DEFINE h == [b \in Addr |->
                      IF b = x.next THEN [p.heap[b] EXCEPT !.prev = x.prev]
                      ELSE IF b = x.prev THEN [p.heap[b] EXCEPT !.next = x.next]
                      ELSE IF b = a THEN Nil ELSE p.heap[b]]
             d == [p.dic EXCEPT ![x.key] = Nil]
             hd == IF p.head = a THEN x.next ELSE p.head
             tl == IF p.tail = a THEN x.prev ELSE p.tail
             t == p.totalCost - x.node.cost
  <2>1. q = [p EXCEPT !.dic = d, !.totalCost = t % Modulus,
                      !.totalCount = p.totalCount - 1, !.heap = h,
                      !.head = hd, !.tail = tl]
    BY <1>names DEF q, removeNode
  <2>2. d \in [Key -> Pointer] /\ hd \in Pointer /\ tl \in Pointer
    BY <1>1, <1>6 DEF Pointer, Cell
  <2>3. t \in Int /\ p.totalCount - 1 \in Int
    BY <1>1, <1>2, <1>6
  <2>4. h \in [Addr -> Cell \cup {Nil}]
    BY <1>7, <1>11, Zenon, ZenonT(60)
  <2> HIDE DEF d, h, hd, tl, t
  <2> QED
    BY <2>1, <2>2, <2>3, <2>4, AllFields, Zenon, ZenonT(60) DEF Rep
<1>13. ASSUME NEW j \in 1..Len(r.list)
       PROVE  /\ q.heap[At(q, r, j)] # Nil
              /\ q.heap[At(q, r, j)].key = r.list[j]
              /\ q.heap[At(q, r, j)].node = r.dic[r.list[j]]
              /\ q.heap[At(q, r, j)].prev = At(q, r, j - 1)
              /\ q.heap[At(q, r, j)].next = At(q, r, j + 1)
  <2> DEFINE i == Old(pos, j)
  <2>1. i \in 1..n /\ i # pos /\ r.list[j] = m.list[i] /\ r.list[j] \in Key
        /\ r.list[j] # k
    BY <1>3
  <2>2. /\ At(q, r, j) = At(p, m, i)
        /\ At(q, r, j - 1) = At(p, m, Old(pos, j - 1))
        /\ At(q, r, j + 1) = At(p, m, Old(pos, j + 1))
    BY <1>3, <1>5, <1>8
  <2>3. /\ Old(pos, j - 1) = IF i = pos + 1 THEN pos - 1 ELSE i - 1
        /\ Old(pos, j + 1) = IF i = pos - 1 THEN pos + 1 ELSE i + 1
    <3>1. pos \in Int /\ j \in Int
      BY <1>3, <1>5
    <3> QED
      BY <3>1 DEF Old
  <2>4. r.dic[r.list[j]] = m.dic[m.list[i]]
    BY <2>1, <1>1, <1>3
  <2> HIDE DEF i
  <2> QED
    BY <2>1, <2>2, <2>3, <2>4, <1>9, CellAssumption
<1>14. \A y \in Key : q.dic[y] = Nil <=> r.dic[y] = Nil
  <2>1. \A y \in Key : p.dic[y] = Nil <=> m.dic[y] = Nil
    BY DEF Rep, Represents
  <2>2. /\ \A y \in Key \ {k} : q.dic[y] = p.dic[y] /\ r.dic[y] = m.dic[y]
        /\ q.dic[k] = Nil /\ r.dic[k] = Nil
    BY <1>1, <1>3, <1>7, Zenon, ZenonT(60)
  <2> QED
    BY <2>1, <2>2, Zenon, ZenonT(60)
<1>15. \A b \in Addr : q.heap[b] # Nil => q.dic[q.heap[b].key] = b
  <2> SUFFICES ASSUME NEW b \in Addr, q.heap[b] # Nil
               PROVE  q.dic[q.heap[b].key] = b
    OBVIOUS
  <2>1. PICK i \in 1..n : i # pos /\ b = At(p, m, i)
    BY <1>10
  <2>2. q.heap[b].key = m.list[i] /\ p.dic[m.list[i]] = b /\ m.list[i] \in Key
    <3>1. q.heap[b].key = m.list[i]
      BY <2>1, <1>9, Zenon, ZenonT(60)
    <3> QED
      BY <2>1, <3>1, <1>5, Zenon, ZenonT(60)
  <2>3. m.list[i] # k
    <3>1. At(p, m, i) # At(p, m, pos)
      BY <2>1, <1>3, <1>5, Zenon, ZenonT(60)
    <3> QED
      BY <3>1, <1>3, <1>5, Zenon, ZenonT(60)
  <2> QED
    BY <2>2, <2>3, <1>1, <1>7, ZenonT(30), ZenonT(60)
<1>16. q.head = At(q, r, 1) /\ q.tail = At(q, r, Len(r.list))
  <2>1. 1 \in 1..n /\ n \in 1..n /\ Old(pos, 1) = (IF pos = 1 THEN 2 ELSE 1)
        /\ Old(pos, n - 1) = (IF pos = n THEN n - 1 ELSE n)
    BY <1>3, <1>5 DEF Old
  <2>2. (p.head = a <=> pos = 1) /\ (p.tail = a <=> pos = n)
    BY <2>1, <1>1, <1>3, <1>5, <1>6
  <2>3. At(q, r, 1) = At(p, m, Old(pos, 1)) /\ At(q, r, n - 1) = At(p, m, Old(pos, n - 1))
    BY <1>5, <1>8
  <2> QED
    BY <2>1, <2>2, <2>3, <1>1, <1>3, <1>6, <1>7
<1>17. q.totalCost = r.totalCost % Modulus /\ q.totalCount = r.totalCount
  <2>1. m.totalCost \in Int /\ 0 - m.dic[k].cost \in Int
    BY <1>1, <1>2
  <2>2. ((m.totalCost % Modulus) + (0 - m.dic[k].cost)) % Modulus
          = (m.totalCost + (0 - m.dic[k].cost)) % Modulus
    BY <2>1, ModularSum, Zenon, ZenonT(60)
  <2>3. /\ (m.totalCost % Modulus) + (0 - m.dic[k].cost) = p.totalCost - m.dic[k].cost
        /\ m.totalCost + (0 - m.dic[k].cost) = m.totalCost - m.dic[k].cost
    BY <1>1, <1>2
  <2> QED
    BY <2>2, <2>3, <1>1, <1>4, <1>7, Zenon, ZenonT(60)
<1>18. Represents(q, r)
  BY <1>13, <1>14, <1>15, <1>16, <1>17 DEF Represents
<1>19. Rep(q, r)
  BY <1>3, <1>12, <1>18, Zenon, ZenonT(60) DEF Rep
<1> QED
  BY <1>19, <1>names, Zenon, ZenonT(60) DEF q, r

\* Linked maps are equal when their fields are; so are nodes.
LEMMA SameFields ==
    ASSUME NEW p \in PointerMap, NEW q \in PointerMap,
           p.dic = q.dic, p.heap = q.heap, p.head = q.head, p.tail = q.tail,
           p.totalCost = q.totalCost, p.totalCount = q.totalCount
    PROVE  p = q
BY DEF PointerMap

LEMMA SameCell ==
    ASSUME NEW x \in Cell, NEW y \in Cell,
           x.key = y.key, x.node = y.node, x.prev = y.prev, x.next = y.next
    PROVE  x = y
BY DEF Cell

\* removeTailNode is removeNode: of the tail, where there is one.
LEMMA RemoveTailRep ==
    ASSUME NEW p, NEW m, Rep(p, m)
    PROVE  Rep(removeTailNode(p), RemoveTailNode(m))
<1> DEFINE n == Len(m.list)
           k == m.list[n]
           t == p.tail
           x == p.heap[t]
<1>1. CASE n = 0
  <2>1. m.list = <<>>
    BY <1>1 DEF Rep, Whole, LinkedMap
  <2>2. p.tail = Nil
    BY <1>1, Ends
  <2> QED
    BY <2>1, <2>2 DEF removeTailNode, RemoveTailNode
<1>2. CASE n # 0
  <2>1. n \in Nat /\ 1 \in 1..n /\ n \in 1..n /\ m.list # <<>>
    <3>1. m.list \in Seq(Key)
      BY DEF Rep, Whole, LinkedMap
    <3> QED
      BY <3>1, <1>2
  <2>2. /\ k \in Key /\ p.dic[k] = t /\ t \in Addr /\ t # Nil
        /\ x \in Cell /\ x.key = k /\ x.prev = At(p, m, n - 1) /\ x.next = Nil
        /\ p.head = At(p, m, 1) /\ t = At(p, m, n)
    <3>1. /\ p.head = At(p, m, 1) /\ t = At(p, m, n)
      BY Ends
    <3>2. /\ k \in Key /\ At(p, m, n) = p.dic[k] /\ At(p, m, n) \in Addr
      BY <2>1, Nodes
    <3>4. /\ p.heap[At(p, m, n)] \in Cell /\ p.heap[At(p, m, n)].key = k
          /\ p.heap[At(p, m, n)].prev = At(p, m, n - 1)
          /\ p.heap[At(p, m, n)].next = At(p, m, n + 1)
      BY <2>1, NodeCells
    <3>3. At(p, m, n + 1) = Nil
      BY <2>1 DEF At
    <3> QED
      BY <3>1, <3>2, <3>3, <3>4, PointerAssumption
  <2>3. \A i \in 1..n : At(p, m, i) \in Addr /\ At(p, m, i) # Nil
    BY Nodes
  <2>4. \A i, j \in 1..n : At(p, m, i) = At(p, m, j) => i = j
    BY Nodes
  <2>5. p \in PointerMap
    BY DEF Rep
  <2>6. removeTailNode(p) = removeNode(p, t)
    <3> DEFINE d == [p.dic EXCEPT ![x.key] = Nil]
               c == (p.totalCost - x.node.cost) % Modulus
               h == [b \in Addr |->
                       IF b = x.next THEN [p.heap[b] EXCEPT !.prev = x.prev]
                       ELSE IF b = x.prev THEN [p.heap[b] EXCEPT !.next = x.next]
                       ELSE IF b = t THEN Nil ELSE p.heap[b]]
    <3>1. removeNode(p, t)
            = [p EXCEPT !.dic = d, !.totalCost = c, !.totalCount = p.totalCount - 1,
                        !.heap = h, !.head = IF p.head = t THEN x.next ELSE p.head,
                        !.tail = IF t = t THEN x.prev ELSE t]
      BY DEF removeNode
    <3>2. p.heap \in [Addr -> Cell \cup {Nil}] /\ p.dic \in [Key -> Pointer]
      BY <2>5 DEF PointerMap
    <3>3. CASE p.head = t
      <4>1. n = 1
        BY <2>1, <2>2, <2>4, <3>3, Zenon, ZenonT(60)
      <4>2. x.prev = Nil
        BY <2>2, <4>1 DEF At
      <4>3. h = [p.heap EXCEPT ![t] = Nil]
        BY <2>2, <3>2, <4>2, PointerAssumption
      <4>4. removeTailNode(p)
            = [p EXCEPT !.dic = d, !.totalCost = c, !.totalCount = p.totalCount - 1,
                        !.heap = [p.heap EXCEPT ![t] = Nil], !.head = Nil, !.tail = Nil]
        BY <2>2, <2>5, <3>3 DEF removeTailNode, PointerMap
      <4> HIDE DEF d, c, h
      <4> QED
        BY <2>2, <3>1, <3>3, <4>2, <4>3, <4>4, Zenon, ZenonT(60)
    <3>4. CASE p.head # t
      <4>1. n - 1 \in 1..n
        BY <2>1, <2>2, <3>4
      <4>2. x.prev \in Addr /\ x.prev # t
        BY <2>1, <2>2, <2>3, <2>4, <4>1
      <4>3. h = [p.heap EXCEPT ![t] = Nil,
                               ![x.prev] = [p.heap[x.prev] EXCEPT !.next = Nil]]
        BY <2>2, <3>2, <4>2, PointerAssumption
      <4>4. removeTailNode(p)
            = [p EXCEPT !.dic = d, !.totalCost = c, !.totalCount = p.totalCount - 1,
                        !.heap = [p.heap EXCEPT ![t] = Nil,
                                  ![x.prev] = [p.heap[x.prev] EXCEPT !.next = Nil]],
                        !.head = p.head, !.tail = x.prev]
        BY <2>2, <2>5, <3>4, <4>2, Zenon, ZenonT(60) DEF removeTailNode, PointerMap
      <4> HIDE DEF d, c, h
      <4> QED
        BY <2>2, <3>1, <3>4, <4>3, <4>4
    <3> QED
      BY <3>3, <3>4
  <2>7. RemoveTailNode(m) = RemoveNode(m, k)
    BY <2>1 DEF RemoveTailNode
  <2> QED
    BY <2>2, <2>6, <2>7, RemoveRep
<1> QED
  BY <1>1, <1>2

\* setObject: on a node of the map: only its contents change.
LEMMA RewriteRep ==
    ASSUME NEW p, NEW m, Rep(p, m), NEW k \in Key, p.dic[k] # Nil,
           NEW c \in Contents
    PROVE  Rep(rewriteNode(p, p.dic[k], c), RewriteNode(m, k, c))
<1> DEFINE a == p.dic[k]
           x == p.heap[a]
           q == rewriteNode(p, a, c)
           r == RewriteNode(m, k, c)
           n == Len(m.list)
<1>1. /\ p.dic \in [Key -> Pointer] /\ p.heap \in [Addr -> Cell \cup {Nil}]
      /\ p.totalCost \in Int /\ p.totalCost = m.totalCost % Modulus
      /\ p.totalCount = m.totalCount
      /\ p.head = At(p, m, 1) /\ p.tail = At(p, m, n)
      /\ m.totalCost \in Int /\ Whole(m) /\ m.dic[k] # Nil
      /\ m.dic \in [Key -> Node \cup {Nil}]
      /\ \A y \in Key : p.dic[y] = Nil <=> m.dic[y] = Nil
  BY PointerAssumption DEF Rep, PointerMap, Represents, Whole, LinkedMap
<1>2. c \in Node /\ c.cost \in Int /\ c # Nil /\ m.dic[k].cost \in Int
  BY <1>1, PointerAssumption, NilAssumption DEF Node
<1>3. Whole(r)
  BY <1>1, <1>2, RewriteWhole
<1>4. /\ n \in Nat
      /\ \A i \in 1..n : /\ m.list[i] \in Key /\ At(p, m, i) = p.dic[m.list[i]]
                         /\ At(p, m, i) \in Addr
  BY Nodes
<1>cells. \A i \in 1..n : /\ p.heap[At(p, m, i)] \in Cell
                          /\ p.heap[At(p, m, i)].key = m.list[i]
                          /\ p.heap[At(p, m, i)].node = m.dic[m.list[i]]
                          /\ p.heap[At(p, m, i)].prev = At(p, m, i - 1)
                          /\ p.heap[At(p, m, i)].next = At(p, m, i + 1)
  BY NodeCells
<1>5. a \in Addr /\ x \in Cell /\ x.key = k /\ x.node = m.dic[k]
  <2>1. PICK i \in 1..n : m.list[i] = k
    BY KeyListed
  <2>2. At(p, m, i) = a /\ a \in Addr
    BY <2>1, <1>4, Zenon, ZenonT(60)
  <2> QED
    BY <2>1, <2>2, <1>cells, Zenon, ZenonT(60)
<1>6. /\ q.dic = p.dic /\ q.head = p.head /\ q.tail = p.tail
      /\ q.totalCount = p.totalCount
      /\ q.totalCost = (p.totalCost - m.dic[k].cost + c.cost) % Modulus
      /\ q.heap = [p.heap EXCEPT ![a] = [x EXCEPT !.node = c]]
  BY <1>1, <1>5 DEF rewriteNode, Rep, PointerMap
<1>7. /\ [x EXCEPT !.node = c] \in Cell /\ [x EXCEPT !.node = c].key = k
      /\ [x EXCEPT !.node = c].node = c
      /\ [x EXCEPT !.node = c].prev = x.prev /\ [x EXCEPT !.node = c].next = x.next
  BY <1>5 DEF Cell
<1>8. q \in PointerMap
  <2>1. (p.totalCost - m.dic[k].cost + c.cost) % Modulus \in 0..(Modulus - 1)
    <3>1. p.totalCost - m.dic[k].cost + c.cost \in Int
      BY <1>1, <1>2
    <3> QED
      BY <3>1, Division, Zenon, ZenonT(60)
  <2>2. q = [p EXCEPT !.totalCost = (p.totalCost - m.dic[k].cost + c.cost) % Modulus,
                      !.heap = [p.heap EXCEPT ![a] = [x EXCEPT !.node = c]]]
    BY <1>1, <1>5 DEF rewriteNode, Rep, PointerMap
  <2>3. [p.heap EXCEPT ![a] = [x EXCEPT !.node = c]] \in [Addr -> Cell \cup {Nil}]
    BY <1>1, <1>7, Zenon, ZenonT(60)
  <2> QED
    BY <2>1, <2>2, <2>3, Zenon, ZenonT(60) DEF Rep, PointerMap
<1>9. r.list = m.list /\ r.dic = [m.dic EXCEPT ![k] = c]
      /\ r.totalCost = m.totalCost - m.dic[k].cost + c.cost
      /\ r.totalCount = m.totalCount
  BY DEF RewriteNode
<1>names. a = p.dic[k] /\ x = p.heap[a]
  OBVIOUS
<1> HIDE DEF q, r, a, x
<1>10. \A i \in Int : At(q, r, i) = At(p, m, i)
  BY <1>6, <1>9 DEF At
<1>11. ASSUME NEW i \in 1..n
       PROVE  /\ q.heap[At(p, m, i)] # Nil
              /\ q.heap[At(p, m, i)].key = m.list[i]
              /\ q.heap[At(p, m, i)].node = r.dic[m.list[i]]
              /\ q.heap[At(p, m, i)].prev = At(p, m, i - 1)
              /\ q.heap[At(p, m, i)].next = At(p, m, i + 1)
  <2>1. CASE At(p, m, i) = a
    <3>0. m.list[i] = k /\ x.prev = At(p, m, i - 1) /\ x.next = At(p, m, i + 1)
      BY <2>1, <1>5, <1>cells, <1>names, Zenon, ZenonT(60)
    <3>1. q.heap[a] = [x EXCEPT !.node = c]
      BY <1>1, <1>5, <1>6
    <3>2. r.dic[k] = c
      BY <1>1, <1>9
    <3>3. /\ q.heap[a] \in Cell /\ q.heap[a].key = k /\ q.heap[a].node = c
          /\ q.heap[a].prev = x.prev /\ q.heap[a].next = x.next
      BY <3>1, <1>7
    <3> QED
      BY <2>1, <3>0, <3>1, <3>2, <3>3, CellAssumption
  <2>2. CASE At(p, m, i) # a
    <3>3. m.list[i] \in Key /\ m.list[i] # k /\ At(p, m, i) \in Addr
      BY <2>2, <1>4, <1>names, Zenon, ZenonT(60)
    <3>0. /\ p.heap[At(p, m, i)] \in Cell
          /\ p.heap[At(p, m, i)].key = m.list[i]
          /\ p.heap[At(p, m, i)].node = m.dic[m.list[i]]
          /\ p.heap[At(p, m, i)].prev = At(p, m, i - 1)
          /\ p.heap[At(p, m, i)].next = At(p, m, i + 1)
      BY <1>cells, Zenon, ZenonT(60)
    <3>1. q.heap[At(p, m, i)] = p.heap[At(p, m, i)]
      BY <2>2, <3>3, <1>1, <1>6, Zenon, ZenonT(60)
    <3>2. r.dic[m.list[i]] = m.dic[m.list[i]]
      BY <3>3, <1>1, <1>9, Zenon, ZenonT(60)
    <3> QED
      BY <3>0, <3>1, <3>2, CellAssumption, Zenon, ZenonT(60)
  <2> QED
    BY <2>1, <2>2
<1>12. \A y \in Key : q.dic[y] = Nil <=> r.dic[y] = Nil
  BY <1>1, <1>2, <1>6, <1>9, Zenon, ZenonT(60)
<1>13. \A b \in Addr : q.heap[b] # Nil => q.dic[q.heap[b].key] = b
  <2> SUFFICES ASSUME NEW b \in Addr, q.heap[b] # Nil
               PROVE  q.dic[q.heap[b].key] = b
    OBVIOUS
  <2>1. CASE b = a
    <3>1. q.heap[b].key = k
      BY <2>1, <1>1, <1>5, <1>6, <1>7, Zenon, ZenonT(60)
    <3> QED
      BY <2>1, <3>1, <1>6, <1>names, Zenon, ZenonT(60)
  <2>2. CASE b # a
    <3>1. q.heap[b] = p.heap[b]
      BY <2>2, <1>1, <1>6, Zenon, ZenonT(60)
    <3>2. p.heap[b] # Nil => p.dic[p.heap[b].key] = b
      BY Zenon, ZenonT(60) DEF Rep, Represents
    <3> QED
      BY <3>1, <3>2, <1>6, Zenon, ZenonT(60)
  <2> QED
    BY <2>1, <2>2
<1>14. q.totalCost = r.totalCost % Modulus /\ q.totalCount = r.totalCount
  <2>1. m.totalCost \in Int /\ c.cost - m.dic[k].cost \in Int
    BY <1>1, <1>2
  <2>2. ((m.totalCost % Modulus) + (c.cost - m.dic[k].cost)) % Modulus
          = (m.totalCost + (c.cost - m.dic[k].cost)) % Modulus
    BY <2>1, ModularSum, Zenon, ZenonT(60)
  <2>3. /\ (m.totalCost % Modulus) + (c.cost - m.dic[k].cost)
             = p.totalCost - m.dic[k].cost + c.cost
        /\ m.totalCost + (c.cost - m.dic[k].cost) = r.totalCost
    BY <1>1, <1>2, <1>9
  <2> QED
    BY <2>2, <2>3, <1>1, <1>6, <1>9
<1>15. Represents(q, r)
  <2>1. \A i \in 1..n : At(q, r, i) = At(p, m, i) /\ At(q, r, i - 1) = At(p, m, i - 1)
                        /\ At(q, r, i + 1) = At(p, m, i + 1)
    BY <1>4, <1>10
  <2>2. q.head = At(q, r, 1) /\ q.tail = At(q, r, n)
    BY <1>1, <1>4, <1>6, <1>10
  <2> QED
    BY <2>1, <2>2, <1>9, <1>11, <1>12, <1>13, <1>14 DEF Represents
<1>16. Rep(q, r)
  BY <1>3, <1>8, <1>15, Zenon, ZenonT(60) DEF Rep
<1> QED
  BY <1>16, <1>names, Zenon, ZenonT(60) DEF q, r

\* The second half of bringNodeToHead:, once the node at a is unlinked (u is
\* the heap then, t the tail).
Linked(p, u, t, a, q) ==
    /\ q \in PointerMap /\ q.dic = p.dic /\ q.head = a /\ q.tail = t
    /\ q.totalCost = p.totalCost /\ q.totalCount = p.totalCount
    /\ q.heap \in [Addr -> Cell \cup {Nil}]
    /\ q.heap[a] \in Cell /\ q.heap[a].key = u[a].key /\ q.heap[a].node = u[a].node
    /\ q.heap[a].prev = Nil /\ q.heap[a].next = p.head
    /\ q.heap[p.head] \in Cell /\ q.heap[p.head].key = u[p.head].key
    /\ q.heap[p.head].node = u[p.head].node
    /\ q.heap[p.head].next = u[p.head].next /\ q.heap[p.head].prev = a
    /\ \A b \in Addr \ {a, p.head} : q.heap[b] = u[b]

LEMMA LinkFields ==
    ASSUME NEW p \in PointerMap, NEW u \in [Addr -> Cell \cup {Nil}],
           NEW t \in Pointer, NEW a \in Addr, u[a] \in Cell,
           p.head \in Addr, p.head # a, u[p.head] \in Cell
    PROVE  Linked(p, u, t, a,
                  [[p EXCEPT !.tail = t, !.heap = u]
                     EXCEPT !.heap[a].next = p.head, !.heap[a].prev = Nil,
                            !.heap[p.head].prev = a, !.head = a])
<1> DEFINE y == [u[a] EXCEPT !.next = p.head, !.prev = Nil]
           z == [u[p.head] EXCEPT !.prev = a]
           h == [u EXCEPT ![a] = y, ![p.head] = z]
           v == [p EXCEPT !.tail = t, !.heap = u]
           q == [v EXCEPT !.heap[a].next = p.head, !.heap[a].prev = Nil,
                          !.heap[p.head].prev = a, !.head = a]
<1>1. /\ y \in Cell /\ y.key = u[a].key /\ y.node = u[a].node
      /\ y.prev = Nil /\ y.next = p.head
  BY Zenon, ZenonT(60) DEF Cell, Pointer
<1>2. /\ z \in Cell /\ z.key = u[p.head].key /\ z.node = u[p.head].node
      /\ z.prev = a /\ z.next = u[p.head].next
  BY DEF Cell, Pointer
<1>3. /\ v \in PointerMap /\ v.heap = u /\ v.tail = t /\ v.dic = p.dic
      /\ v.head = p.head
      /\ v.totalCost = p.totalCost /\ v.totalCount = p.totalCount
  BY Zenon, ZenonT(60) DEF PointerMap
<1>4. q = [v EXCEPT !.heap = h, !.head = a]
  <2> HIDE DEF v
  <2> QED
    BY <1>3, ZenonT(30), ZenonT(60) DEF PointerMap
<1>5. /\ h \in [Addr -> Cell \cup {Nil}] /\ h[a] = y /\ h[p.head] = z
      /\ \A b \in Addr \ {a, p.head} : h[b] = u[b]
  <2> HIDE DEF y, z
  <2> QED
    BY <1>1, <1>2
<1> HIDE DEF v, h, q, y, z
<1>6. /\ q \in PointerMap /\ q.heap = h /\ q.head = a /\ q.tail = t
      /\ q.dic = p.dic /\ q.totalCost = p.totalCost /\ q.totalCount = p.totalCount
  BY <1>3, <1>4, <1>5, Zenon, ZenonT(60) DEF PointerMap, Pointer
<1>7. Linked(p, u, t, a, q)
  BY <1>1, <1>2, <1>5, <1>6 DEF Linked
<1> QED
  BY <1>7 DEF q, v

\* bringNodeToHead: leaves the pointers that removing the node and inserting
\* it again would leave.
LEMMA BringRep ==
    ASSUME NEW p, NEW m, Rep(p, m), NEW k \in Key, p.dic[k] # Nil
    PROVE  Rep(bringNodeToHead(p, p.dic[k]), BringNodeToHead(m, k))
<1> DEFINE a == p.dic[k]
           x == p.heap[a]
           n == Len(m.list)
           pos == IndexOf(m.list, k)
           c == m.dic[k]
           g == removeNode(p, a)
           f == RemoveNode(m, k)
           i == insertNodeAtHead(NewNode(g, a, k, c), a)
           q == bringNodeToHead(p, a)
<1>1. /\ p \in PointerMap
      /\ p.dic \in [Key -> Pointer] /\ p.heap \in [Addr -> Cell \cup {Nil}]
      /\ p.totalCost \in 0..(Modulus - 1) /\ p.totalCount \in Int
      /\ Whole(m) /\ m.dic[k] # Nil
  BY PointerAssumption DEF Rep, PointerMap, Represents
<1>2. pos \in 1..n /\ m.list[pos] = k
  BY <1>1, RemoveWhole, Zenon, ZenonT(60)
<1> HIDE DEF pos
<1>3. /\ n \in Nat
      /\ \A j \in 1..n : /\ At(p, m, j) = p.dic[m.list[j]]
                         /\ At(p, m, j) \in Addr /\ At(p, m, j) # Nil
      /\ \A j, l \in 1..n : At(p, m, j) = At(p, m, l) => j = l
      /\ \A j \in Int : At(p, m, j) = Nil <=> j \notin 1..n
  BY Nodes
<1>cells. \A j \in 1..n : /\ m.dic[m.list[j]] \in Contents
                          /\ p.heap[At(p, m, j)] \in Cell
                          /\ p.heap[At(p, m, j)].key = m.list[j]
                          /\ p.heap[At(p, m, j)].node = m.dic[m.list[j]]
                          /\ p.heap[At(p, m, j)].prev = At(p, m, j - 1)
                          /\ p.heap[At(p, m, j)].next = At(p, m, j + 1)
  BY NodeCells
<1>4. /\ a = At(p, m, pos) /\ a \in Addr /\ x \in Cell /\ c \in Contents
      /\ x.key = k /\ x.node = c
      /\ x.prev = At(p, m, pos - 1) /\ x.next = At(p, m, pos + 1)
      /\ p.head = At(p, m, 1) /\ p.tail = At(p, m, n)
  <2>1. p.head = At(p, m, 1) /\ p.tail = At(p, m, n)
    BY Ends
  <2>2. At(p, m, pos) = p.dic[m.list[pos]] /\ At(p, m, pos) \in Addr
    BY <1>2, <1>3, Zenon, ZenonT(60)
  <2>3. /\ m.dic[m.list[pos]] \in Contents /\ p.heap[At(p, m, pos)] \in Cell
        /\ p.heap[At(p, m, pos)].key = m.list[pos]
        /\ p.heap[At(p, m, pos)].node = m.dic[m.list[pos]]
        /\ p.heap[At(p, m, pos)].prev = At(p, m, pos - 1)
        /\ p.heap[At(p, m, pos)].next = At(p, m, pos + 1)
    BY <1>2, <1>cells, Zenon, ZenonT(60)
  <2> QED
    BY <2>1, <2>2, <2>3, <1>2, Zenon, ZenonT(60)
<1>5. c \in Node /\ c.cost \in Nat
  BY <1>4, PointerAssumption DEF Node
<1>6. /\ g.dic = [p.dic EXCEPT ![k] = Nil]
      /\ g.totalCost = (p.totalCost - c.cost) % Modulus
      /\ g.totalCount = p.totalCount - 1
      /\ g.head = IF p.head = a THEN x.next ELSE p.head
      /\ g.tail = IF p.tail = a THEN x.prev ELSE p.tail
      /\ g.heap = [b \in Addr |->
                      IF b = x.next THEN [p.heap[b] EXCEPT !.prev = x.prev]
                      ELSE IF b = x.prev THEN [p.heap[b] EXCEPT !.next = x.next]
                      ELSE IF b = a THEN Nil ELSE p.heap[b]]
  BY <1>1, <1>4 DEF removeNode, PointerMap
<1>names. a = p.dic[k] /\ x = p.heap[a] /\ c = m.dic[k]
  OBVIOUS
<1> HIDE DEF a, x, c
\* The neighbours of the node.
<1>7. /\ x.next # a /\ x.prev # a
      /\ x.next # Nil => /\ x.next \in Addr /\ p.heap[x.next] \in Cell
                         /\ p.heap[x.next].prev = a /\ x.next # x.prev
                         /\ x.next # p.head
      /\ x.next = Nil <=> p.tail = a
      /\ x.prev = Nil <=> p.head = a
      /\ x.prev # Nil => /\ x.prev \in Addr /\ p.heap[x.prev] \in Cell
                         /\ p.head \in Addr /\ p.heap[p.head] \in Cell
  <2>1. /\ x.next # Nil <=> pos + 1 \in 1..n
        /\ x.prev # Nil <=> pos - 1 \in 1..n
    BY <1>2, <1>3, <1>4
  <2>2. x.next # a
    <3>1. CASE pos + 1 \in 1..n
      BY <3>1, <1>2, <1>3, <1>4
    <3>2. CASE pos + 1 \notin 1..n
      BY <2>1, <3>2, <1>4, PointerAssumption
    <3> QED
      BY <3>1, <3>2
  <2>3. x.prev # a
    <3>1. CASE pos - 1 \in 1..n
      BY <3>1, <1>2, <1>3, <1>4
    <3>2. CASE pos - 1 \notin 1..n
      BY <2>1, <3>2, <1>4, PointerAssumption
    <3> QED
      BY <3>1, <3>2
  <2>4. ASSUME x.next # Nil
        PROVE  /\ x.next \in Addr /\ p.heap[x.next] \in Cell
               /\ p.heap[x.next].prev = a /\ x.next # x.prev
               /\ x.next # p.head
    <3>1. pos + 1 \in 1..n
      BY <2>1, <2>4
    <3>2. At(p, m, pos + 1) # At(p, m, 1)
      BY <3>1, <1>2, <1>3
    <3>3. At(p, m, pos + 1) # At(p, m, pos - 1)
      BY <3>1, <1>2, <1>3
    <3>4. pos + 1 - 1 = pos
      BY <1>2
    <3>5. /\ At(p, m, pos + 1) \in Addr /\ p.heap[At(p, m, pos + 1)] \in Cell
          /\ p.heap[At(p, m, pos + 1)].prev = At(p, m, pos)
      <4>1. At(p, m, pos + 1) \in Addr
        BY <3>1, <1>3, Zenon, ZenonT(60)
      <4>2. /\ p.heap[At(p, m, pos + 1)] \in Cell
            /\ p.heap[At(p, m, pos + 1)].prev = At(p, m, pos + 1 - 1)
        BY <3>1, <1>2, <1>cells
      <4> QED
        BY <3>4, <4>1, <4>2
    <3> QED
      BY <3>2, <3>3, <3>5, <1>4, Zenon, ZenonT(60)
  <2>5. x.next = Nil <=> p.tail = a
    <3>1. n \in 1..n /\ (pos + 1 \notin 1..n <=> pos = n)
      BY <1>2, <1>3
    <3>2. At(p, m, n) = At(p, m, pos) <=> pos = n
      BY <3>1, <1>2, <1>3
    <3> QED
      BY <2>1, <3>1, <3>2, <1>4
  <2>6. x.prev = Nil <=> p.head = a
    <3>1. 1 \in 1..n /\ (pos - 1 \notin 1..n <=> pos = 1)
      BY <1>2, <1>3
    <3>2. At(p, m, 1) = At(p, m, pos) <=> pos = 1
      BY <3>1, <1>2, <1>3
    <3> QED
      BY <2>1, <3>1, <3>2, <1>4
  <2>7. ASSUME x.prev # Nil
        PROVE  /\ x.prev \in Addr /\ p.heap[x.prev] \in Cell
               /\ p.head \in Addr /\ p.heap[p.head] \in Cell
    <3>1. 1 \in 1..n /\ pos - 1 \in 1..n
      BY <2>1, <2>7, <1>2, <1>3
    <3>2. At(p, m, 1) \in Addr /\ At(p, m, pos - 1) \in Addr
      BY <3>1, <1>3, Zenon, ZenonT(60)
    <3>3. p.heap[At(p, m, 1)] \in Cell /\ p.heap[At(p, m, pos - 1)] \in Cell
      BY <3>1, <1>cells, Zenon, ZenonT(60)
    <3> QED
      BY <3>2, <3>3, <1>4
  <2> QED
    BY <2>2, <2>3, <2>4, <2>5, <2>6, <2>7, Zenon, ZenonT(60)
\* The node removed and inserted again.
<1>8. /\ Inserted(g, i, k, a, c) /\ Rep(i, BringNodeToHead(m, k))
      /\ g.heap[a] = Nil /\ g \in PointerMap
  <2>1. Rep(g, f)
    BY <1>names, RemoveRep
  <2>2. g.dic[k] = Nil /\ g.heap[a] = Nil
    <3> HIDE DEF g
    <3> QED
      BY <1>1, <1>4, <1>6, <1>7
  <2>3. f.dic[k] = Nil /\ BringNodeToHead(m, k) = InsertNodeAtHead(f, k, c)
    BY <1>1, <1>names, BringIsReinsert
  <2> HIDE DEF g, f
  <2>4. Inserted(g, i, k, a, c)
    BY <2>1, <2>2, <1>4, InsertFields
  <2>5. Rep(i, InsertNodeAtHead(f, k, c))
    BY <2>1, <2>2, <1>4, InsertRep
  <2> HIDE DEF i
  <2> QED
    BY <2>1, <2>2, <2>3, <2>4, <2>5 DEF Rep
<1> HIDE DEF g, i
<1>9. /\ i \in PointerMap /\ i.dic = p.dic /\ i.head = a
      /\ i.totalCost = p.totalCost /\ i.totalCount = p.totalCount
      /\ i.tail = IF g.head = Nil THEN a ELSE g.tail
  <2>1. /\ i \in PointerMap /\ i.dic = [[p.dic EXCEPT ![k] = Nil] EXCEPT ![k] = a]
        /\ i.head = a /\ i.tail = IF g.head = Nil THEN a ELSE g.tail
        /\ i.totalCost = (((p.totalCost - c.cost) % Modulus) + c.cost) % Modulus
        /\ i.totalCount = p.totalCount - 1 + 1
    <3>1. /\ i \in PointerMap /\ i.dic = [g.dic EXCEPT ![k] = a]
          /\ i.head = a /\ i.tail = IF g.head = Nil THEN a ELSE g.tail
          /\ i.totalCost = (g.totalCost + c.cost) % Modulus
          /\ i.totalCount = g.totalCount + 1
      BY <1>8 DEF Inserted
    <3>2. /\ g.dic = [p.dic EXCEPT ![k] = Nil]
          /\ g.totalCost = (p.totalCost - c.cost) % Modulus
          /\ g.totalCount = p.totalCount - 1
      BY <1>6, Zenon, ZenonT(60)
    <3> QED
      BY <3>1, <3>2
  <2>2. i.dic = p.dic
    BY <2>1, <1>1, <1>names
  <2>3. i.totalCost = p.totalCost
    <3>1. p.totalCost - c.cost \in Int /\ c.cost \in Int
      BY <1>1, <1>5, PointerAssumption
    <3>2. (((p.totalCost - c.cost) % Modulus) + c.cost) % Modulus
            = (p.totalCost - c.cost + c.cost) % Modulus
      BY <3>1, ModularSum, Zenon, ZenonT(60)
    <3>3. p.totalCost - c.cost + c.cost = 0 * Modulus + p.totalCost
      BY <1>1, <1>5, PointerAssumption
    <3>4. (0 * Modulus + p.totalCost) % Modulus = p.totalCost
      BY <1>1, PointerAssumption
    <3> QED
      BY <3>2, <3>3, <3>4, <2>1
  <2>4. i.totalCount = p.totalCount
    BY <2>1, <1>1
  <2> QED
    BY <2>1, <2>2, <2>3, <2>4
<1>10. /\ i.heap \in [Addr -> Cell \cup {Nil}] /\ i.heap[a] \in Cell
       /\ i.heap[a].key = k /\ i.heap[a].node = c
       /\ i.heap[a].prev = Nil /\ i.heap[a].next = g.head
       /\ \A b \in Addr \ {a, g.head} : i.heap[b] = g.heap[b]
       /\ g.head # Nil =>
            /\ i.heap[g.head] \in Cell
            /\ i.heap[g.head].key = g.heap[g.head].key
            /\ i.heap[g.head].node = g.heap[g.head].node
            /\ i.heap[g.head].next = g.heap[g.head].next
            /\ i.heap[g.head].prev = a
  BY <1>8 DEF Inserted
<1>11. CASE p.head = a
  <2>1. x.prev = Nil /\ g.head = x.next
    BY <1>6, <1>7, <1>11, Zenon, ZenonT(60)
  <2>2. i.tail = p.tail
    BY <2>1, <1>6, <1>7, <1>9, Zenon, ZenonT(60)
  <2>3. i.heap[a] = x
    BY <2>1, <1>4, <1>10, SameCell
  <2>4. ASSUME NEW b \in Addr, b # a
        PROVE  i.heap[b] = p.heap[b]
    <3>1. CASE b = x.next
      <4>1. /\ x.next # Nil /\ p.heap[b] \in Cell /\ p.heap[b].prev = a
        BY <3>1, <1>7, PointerAssumption, Zenon, ZenonT(60)
      <4>2. g.heap[b] = [p.heap[b] EXCEPT !.prev = x.prev]
        BY <3>1, <1>6, Zenon, ZenonT(60)
      <4>3. /\ g.heap[b].key = p.heap[b].key /\ g.heap[b].node = p.heap[b].node
            /\ g.heap[b].next = p.heap[b].next
        BY <4>1, <4>2 DEF Cell
      <4>4. /\ i.heap[b] \in Cell /\ i.heap[b].key = g.heap[b].key
            /\ i.heap[b].node = g.heap[b].node /\ i.heap[b].next = g.heap[b].next
            /\ i.heap[b].prev = a
        BY <2>1, <3>1, <4>1, <1>10, Zenon, ZenonT(60)
      <4> QED
        BY <4>1, <4>3, <4>4, SameCell
    <3>2. CASE b # x.next
      <4>1. g.heap[b] = p.heap[b]
        BY <2>1, <2>4, <3>2, <1>6, PointerAssumption, Zenon, ZenonT(60)
      <4> QED
        BY <2>1, <2>4, <3>2, <4>1, <1>10, Zenon, ZenonT(60)
    <3> QED
      BY <3>1, <3>2
  <2>5. i.heap = p.heap
    <3>1. \A b \in Addr : i.heap[b] = p.heap[b]
      BY <2>3, <2>4, <1>names
    <3> QED
      BY <3>1, <1>1, <1>10
  <2>6. i = p
    BY <2>2, <2>5, <1>1, <1>9, <1>11, SameFields, Zenon, ZenonT(60)
  <2>7. q = p
    BY <1>11 DEF bringNodeToHead
  <2> QED
    BY <2>6, <2>7, <1>8, <1>names DEF q
<1>12. CASE p.head # a
  <2> DEFINE T == IF p.tail = a THEN x.prev ELSE p.tail
             u == [b \in Addr |->
                     IF b = x.next THEN [p.heap[b] EXCEPT !.prev = x.prev]
                     ELSE IF b = x.prev THEN [p.heap[b] EXCEPT !.next = x.next]
                     ELSE p.heap[b]]
             v == [p EXCEPT !.tail = T, !.heap = u]
  <2>1. /\ x.prev \in Addr /\ p.heap[x.prev] \in Cell /\ x.prev # a
        /\ p.head \in Addr /\ p.heap[p.head] \in Cell /\ g.head = p.head
        /\ x.prev # x.next /\ p.head # x.next
    BY <1>6, <1>7, <1>12, PointerAssumption, Zenon, ZenonT(60)
  <2>2. x.prev \in Pointer /\ x.next \in Pointer
    BY <1>4 DEF Cell
  <2>3. /\ u \in [Addr -> Cell \cup {Nil}] /\ u[a] = x
        /\ u[p.head] \in Cell /\ \A b \in Addr \ {a} : u[b] = g.heap[b]
    <3>1. [p.heap[x.prev] EXCEPT !.next = x.next] \in Cell
      BY <2>1, <2>2, Zenon, ZenonT(60) DEF Cell
    <3>2. x.next # Nil => [p.heap[x.next] EXCEPT !.prev = x.prev] \in Cell
      BY <2>2, <1>7, Zenon, ZenonT(60) DEF Cell
    <3>3. \A b \in Addr : u[b] \in Cell \cup {Nil}
      BY <3>1, <3>2, <1>1, PointerAssumption, Zenon, ZenonT(60)
    <3>4. u \in [Addr -> Cell \cup {Nil}]
      BY <3>3
    <3>5. u[a] = x
      BY <2>1, <1>4, <1>7, <1>names
    <3>6. u[p.head] \in Cell
      BY <2>1, <3>1, Zenon, ZenonT(60)
    <3>7. \A b \in Addr \ {a} : u[b] = g.heap[b]
      BY <1>6, Zenon, ZenonT(60)
    <3> QED
      BY <3>4, <3>5, <3>6, <3>7, Zenon, ZenonT(60)
  <2>4. (IF p.tail = a THEN [p EXCEPT !.tail = x.prev, !.heap[x.prev].next = Nil]
         ELSE [p EXCEPT !.heap[x.next].prev = x.prev, !.heap[x.prev].next = x.next])
        = v
    <3>1. CASE p.tail = a
      <4>1. u = [p.heap EXCEPT ![x.prev] = [p.heap[x.prev] EXCEPT !.next = Nil]]
        BY <2>1, <3>1, <1>1, <1>7, PointerAssumption, Zenon, ZenonT(60)
      <4>2. [p EXCEPT !.tail = x.prev, !.heap[x.prev].next = Nil]
            = [p EXCEPT !.tail = x.prev,
                        !.heap = [p.heap EXCEPT ![x.prev] = [p.heap[x.prev] EXCEPT !.next = Nil]]]
        BY <2>1, <1>1 DEF PointerMap
      <4> HIDE DEF u
      <4> QED
        BY <3>1, <4>1, <4>2, Zenon, ZenonT(60)
    <3>2. CASE p.tail # a
      <4>1. x.next \in Addr /\ p.heap[x.next] \in Cell
        BY <3>2, <1>7
      <4>2. u = [p.heap EXCEPT ![x.next] = [p.heap[x.next] EXCEPT !.prev = x.prev],
                               ![x.prev] = [p.heap[x.prev] EXCEPT !.next = x.next]]
        BY <2>1, <4>1, <1>1, Zenon, ZenonT(60)
      <4>3. [p EXCEPT !.heap[x.next].prev = x.prev, !.heap[x.prev].next = x.next]
            = [p EXCEPT !.tail = p.tail,
                        !.heap = [p.heap EXCEPT
                                   ![x.next] = [p.heap[x.next] EXCEPT !.prev = x.prev],
                                   ![x.prev] = [p.heap[x.prev] EXCEPT !.next = x.next]]]
        BY <2>1, <4>1, <1>1, Zenon, ZenonT(60) DEF PointerMap
      <4> HIDE DEF u
      <4> QED
        BY <3>2, <4>2, <4>3, ZenonT(30), ZenonT(60)
    <3> QED
      BY <3>1, <3>2, Zenon, ZenonT(60)
  <2>5. q = [v EXCEPT !.heap[a].next = p.head, !.heap[a].prev = Nil,
                      !.heap[p.head].prev = a, !.head = a]
    BY <2>4, <1>12, <1>names, Zenon, ZenonT(60) DEF bringNodeToHead
  <2>6. T \in Pointer
    BY <2>2, <1>1 DEF PointerMap
  <2>7. Linked(p, u, T, a, q)
    <3>1. /\ p \in PointerMap /\ u \in [Addr -> Cell \cup {Nil}] /\ T \in Pointer
          /\ a \in Addr /\ u[a] \in Cell /\ p.head \in Addr /\ p.head # a
          /\ u[p.head] \in Cell
      BY <2>1, <2>3, <2>6, <1>1, <1>4, <1>12
    <3> HIDE DEF u, T, a, q
    <3>2. Linked(p, u, T, a,
                 [v EXCEPT !.heap[a].next = p.head, !.heap[a].prev = Nil,
                           !.heap[p.head].prev = a, !.head = a])
      BY <3>1, LinkFields, Zenon, ZenonT(60)
    <3> QED
      BY <3>2, <2>5
  <2> HIDE DEF u, T, q
  <2>8. /\ q \in PointerMap /\ q.dic = p.dic /\ q.head = a /\ q.tail = T
        /\ q.totalCost = p.totalCost /\ q.totalCount = p.totalCount
        /\ q.heap \in [Addr -> Cell \cup {Nil}]
        /\ q.heap[a] \in Cell /\ q.heap[a].key = k /\ q.heap[a].node = c
        /\ q.heap[a].prev = Nil /\ q.heap[a].next = p.head
    <3>1. /\ q \in PointerMap /\ q.dic = p.dic /\ q.head = a /\ q.tail = T
          /\ q.totalCost = p.totalCost /\ q.totalCount = p.totalCount
          /\ q.heap \in [Addr -> Cell \cup {Nil}]
          /\ q.heap[a] \in Cell /\ q.heap[a].key = u[a].key /\ q.heap[a].node = u[a].node
          /\ q.heap[a].prev = Nil /\ q.heap[a].next = p.head
      BY <2>7, ZenonT(30), ZenonT(60) DEF Linked
    <3>2. u[a].key = k /\ u[a].node = c
      BY <2>3, <1>4
    <3> QED
      BY <3>1, <3>2, ZenonT(30), ZenonT(60)
  <2>9. /\ q.heap[p.head] \in Cell /\ q.heap[p.head].key = g.heap[p.head].key
        /\ q.heap[p.head].node = g.heap[p.head].node
        /\ q.heap[p.head].next = g.heap[p.head].next /\ q.heap[p.head].prev = a
    <3>1. /\ q.heap[p.head] \in Cell /\ q.heap[p.head].key = u[p.head].key
          /\ q.heap[p.head].node = u[p.head].node
          /\ q.heap[p.head].next = u[p.head].next /\ q.heap[p.head].prev = a
      BY <2>7, ZenonT(30), ZenonT(60) DEF Linked
    <3>2. u[p.head] = g.heap[p.head]
      BY <2>1, <2>3, <1>12
    <3> QED
      BY <3>1, <3>2, ZenonT(30), ZenonT(60)
  <2>10. \A b \in Addr \ {a, p.head} : q.heap[b] = g.heap[b]
    <3>1. \A b \in Addr \ {a, p.head} : q.heap[b] = u[b]
      BY <2>7, ZenonT(30), ZenonT(60) DEF Linked
    <3> QED
      BY <2>3, <3>1
  <2>11. q.heap[a] = i.heap[a]
    <3>1. /\ i.heap[a] \in Cell /\ i.heap[a].key = k /\ i.heap[a].node = c
          /\ i.heap[a].prev = Nil /\ i.heap[a].next = p.head
      BY <2>1, <1>10
    <3> QED
      BY <2>8, <3>1, SameCell
  <2>12. q.heap[p.head] = i.heap[p.head]
    <3>1. p.head # Nil
      BY <2>1, PointerAssumption
    <3>2. /\ i.heap[p.head] \in Cell /\ i.heap[p.head].key = g.heap[p.head].key
          /\ i.heap[p.head].node = g.heap[p.head].node
          /\ i.heap[p.head].next = g.heap[p.head].next /\ i.heap[p.head].prev = a
      BY <2>1, <3>1, <1>10
    <3> QED
      BY <2>9, <3>2, SameCell
  <2>13. q.heap = i.heap
    <3>1. \A b \in Addr : q.heap[b] = i.heap[b]
      BY <2>1, <2>10, <2>11, <2>12, <1>10
    <3> QED
      BY <3>1, <2>8, <1>10
  <2>14. i.tail = T
    BY <2>1, <1>6, <1>9, PointerAssumption, Zenon, ZenonT(60) DEF T
  <2>15. q = i
    BY <2>8, <2>13, <2>14, <1>9, SameFields
  <2> QED
    BY <2>15, <1>8, <1>names DEF q
<1> QED
  BY <1>11, <1>12

-------------------------------------------------------------------------------
(* The map that the pointers stand for. *)

\* A new linked map holds nothing.
LEMMA EmptyRep == Rep(Empty, EmptyMap)
<1>1. Whole(EmptyMap)
  BY EmptyMapSound DEF Sound
<1>2. Empty \in PointerMap
  BY PointerAssumption DEF Empty, PointerMap, Pointer
<1>3. 0 % Modulus = 0
  BY PointerAssumption
<1>4. Represents(Empty, EmptyMap)
  BY <1>3 DEF Represents, Empty, EmptyMap, At
<1> QED
  BY <1>1, <1>2, <1>4 DEF Rep

\* Following _next from _head meets the nodes of the list, in order.
LEMMA WalkMeetsNodes ==
    ASSUME NEW p, NEW m, Rep(p, m)
    PROVE  /\ p.totalCount = Len(m.list)
           /\ \A i \in 1..Len(m.list) : Walk(p)[i] = At(p, m, i)
<1> DEFINE n == Len(m.list)
           f == Walk(p)
           w == [i \in 1..n |-> At(p, m, i)]
           follow(a) == IF a = Nil THEN Nil ELSE p.heap[a].next
           S == {j \in Nat : j + 1 <= n => f[j + 1] = w[j + 1]}
<1>1. p.totalCount = n
  BY DEF Rep, Represents, Whole, Consistent
<1>2. /\ n \in Nat /\ p.head = At(p, m, 1)
      /\ \A i \in 1..n : At(p, m, i) # Nil /\ p.heap[At(p, m, i)].next = At(p, m, i + 1)
  <2>1. n \in Nat /\ p.head = At(p, m, 1)
    <3>1. n \in Nat
      BY Nodes
    <3>2. p.head = At(p, m, 1)
      BY DEF Rep, Represents
    <3> QED
      BY <3>1, <3>2
  <2>2. ASSUME NEW i \in 1..n
        PROVE  At(p, m, i) # Nil /\ p.heap[At(p, m, i)].next = At(p, m, i + 1)
    <3>1. At(p, m, i) # Nil
      BY Nodes
    <3>2. p.heap[At(p, m, i)].next = At(p, m, i + 1)
      BY NodeCells
    <3> QED
      BY <3>1, <3>2
  <2> QED
    BY <2>1, <2>2
<1> HIDE DEF n
<1>3. \A i \in 1..n : w[i] = IF i = 1 THEN p.head ELSE follow(w[i - 1])
  <2> SUFFICES ASSUME NEW i \in 1..n
               PROVE  w[i] = IF i = 1 THEN p.head ELSE follow(w[i - 1])
    OBVIOUS
  <2>1. CASE i = 1
    BY <2>1, <1>2
  <2>2. CASE i # 1
    <3>1. i - 1 \in 1..n /\ (i - 1) + 1 = i
      BY <2>2, <1>2
    <3>2. /\ At(p, m, i - 1) # Nil /\ p.heap[At(p, m, i - 1)].next = At(p, m, i)
          /\ w[i - 1] = At(p, m, i - 1) /\ w[i] = At(p, m, i)
      BY <3>1, <1>2
    <3> QED
      BY <3>2, <2>2
  <2> QED
    BY <2>1, <2>2
<1>4. w = [i \in 1..n |-> IF i = 1 THEN p.head ELSE follow(w[i - 1])]
  <2> DEFINE e(i) == IF i = 1 THEN p.head ELSE follow(w[i - 1])
  <2>1. w = [i \in 1..n |-> w[i]]
    OBVIOUS
  <2>2. \A i \in 1..n : w[i] = e(i)
    BY <1>3
  <2> HIDE DEF w, e
  <2>3. [i \in 1..n |-> w[i]] = [i \in 1..n |-> e(i)]
    BY <2>2
  <2> QED
    BY <2>1, <2>3 DEF e
<1>5. f = [i \in 1..n |-> IF i = 1 THEN p.head ELSE follow(f[i - 1])]
  <2> HIDE DEF w
  <2> QED
    BY <1>1, <1>4, Zenon, ZenonT(60) DEF Walk
<1> HIDE DEF f, w, follow
<1>6. 0 \in S
  BY <1>2, <1>4, <1>5
<1>7. ASSUME NEW j \in Nat, j \in S
      PROVE  j + 1 \in S
  <2> SUFFICES ASSUME (j + 1) + 1 <= n
               PROVE  f[(j + 1) + 1] = w[(j + 1) + 1]
    BY <1>2
  <2>1. /\ (j + 1) + 1 \in 1..n /\ (j + 1) + 1 # 1 /\ ((j + 1) + 1) - 1 = j + 1
        /\ j + 1 <= n
    BY <1>2
  <2>2. f[j + 1] = w[j + 1]
    BY <2>1, <1>7
  <2>3. f[(j + 1) + 1] = follow(f[j + 1]) /\ w[(j + 1) + 1] = follow(w[j + 1])
    BY <2>1, <1>4, <1>5
  <2> QED
    BY <2>2, <2>3
<1>8. Nat \subseteq S
  <2> HIDE DEF S
  <2> QED
    BY <1>6, <1>7, SetInduction
<1>9. ASSUME NEW i \in 1..n
      PROVE  f[i] = At(p, m, i)
  <2>1. i - 1 \in S /\ (i - 1) + 1 = i
    BY <1>8, <1>2
  <2>2. f[i] = w[i]
    BY <2>1, <1>2
  <2> QED
    BY <2>2 DEF w
<1> QED
  BY <1>1, <1>9 DEF f, n

\* A record is determined by its fields.
LEMMA FieldsOfMap ==
    ASSUME NEW D, NEW L, NEW C, NEW N,
           NEW m \in [dic : D, list : L, totalCost : C, totalCount : N]
    PROVE  m = [dic |-> m.dic, list |-> m.list, totalCost |-> m.totalCost,
                totalCount |-> m.totalCount]
OBVIOUS

\* So a linked map represents one map only, the one Abstract computes.
LEMMA AbstractIsRepresented ==
    ASSUME NEW p, NEW m, Rep(p, m)
    PROVE  Abstract(p) = m
<1> DEFINE n == Len(m.list)
           dic == [k \in Key |-> IF p.dic[k] = Nil THEN Nil ELSE p.heap[p.dic[k]].node]
           list == [i \in 1..p.totalCount |->
                      IF Walk(p)[i] = Nil THEN Nil ELSE p.heap[Walk(p)[i]].key]
<1>1. /\ m \in LinkedMap /\ m.totalCost = CostOf(m.dic, m.list)
      /\ p.totalCount = m.totalCount /\ p.totalCount = n
  BY DEF Rep, Represents, Whole, Consistent, CostsAddUp
<1>2. dic = m.dic
  <2>1. ASSUME NEW k \in Key
        PROVE  m.dic[k] = IF p.dic[k] = Nil THEN Nil ELSE p.heap[p.dic[k]].node
    <3>1. CASE p.dic[k] = Nil
      BY <3>1 DEF Rep, Represents
    <3>2. CASE p.dic[k] # Nil
      <4>1. PICK i \in 1..n : m.list[i] = k
        BY <3>2, KeyListed
      <4>2. At(p, m, i) = p.dic[k] /\ p.heap[At(p, m, i)].node = m.dic[k]
        <5>1. At(p, m, i) = p.dic[m.list[i]]
          BY Nodes
        <5>2. p.heap[At(p, m, i)].node = m.dic[m.list[i]]
          BY NodeCells
        <5> QED
          BY <5>1, <5>2, <4>1
      <4> QED
        BY <4>2, <3>2
    <3> QED
      BY <3>1, <3>2
  <2>2. m.dic = [k \in Key |-> m.dic[k]]
    BY <1>1 DEF LinkedMap
  <2> QED
    BY <2>1, <2>2
<1>3. list = m.list
  <2>1. ASSUME NEW i \in 1..n
        PROVE  m.list[i] = IF Walk(p)[i] = Nil THEN Nil ELSE p.heap[Walk(p)[i]].key
    <3>1. Walk(p)[i] = At(p, m, i)
      BY WalkMeetsNodes
    <3>2. At(p, m, i) # Nil
      BY Nodes
    <3>3. p.heap[At(p, m, i)].key = m.list[i]
      BY NodeCells
    <3> QED
      BY <3>1, <3>2, <3>3
  <2>2. m.list = [i \in 1..n |-> m.list[i]]
    <3>1. m.list \in Seq(Key)
      BY <1>1 DEF LinkedMap
    <3> QED
      BY <3>1
  <2> QED
    BY <2>1, <2>2, <1>1
<1>4. Abstract(p) = [dic |-> dic, list |-> list, totalCost |-> CostOf(dic, list),
                     totalCount |-> p.totalCount]
  BY DEF Abstract
<1> HIDE DEF dic, list
<1>5. m = [dic |-> m.dic, list |-> m.list, totalCost |-> m.totalCost,
           totalCount |-> m.totalCount]
  <2>1. m \in [dic : [Key -> Node \cup {Nil}], list : Seq(Key),
               totalCost : Int, totalCount : Int]
    BY <1>1 DEF LinkedMap
  <2> QED
    BY <2>1, FieldsOfMap, Zenon, ZenonT(60)
<1> QED
  BY <1>1, <1>2, <1>3, <1>4, <1>5

-------------------------------------------------------------------------------
(* The specification. *)

\* The inductive invariant: the pointers represent the map read off them.
IInv == Rep(map, Abstract(map))

\* A method that takes a representation of m to one of n takes m to n.
LEMMA Reread ==
    ASSUME NEW m, Rep(map', m)
    PROVE  IInv' /\ Abstract(map)' = m
<1>1. Abstract(map') = m
  BY AbstractIsRepresented
<1>2. Abstract(map)' = Abstract(map')
  BY DEF Abstract, Walk, CostOf, CostUpTo
<1>3. IInv' <=> Rep(map', Abstract(map'))
  BY <1>2 DEF IInv
<1> QED
  BY <1>1, <1>2, <1>3

\* Each method keeps the invariant and does to the list what LRUMap says.
LEMMA InsertStep ==
    ASSUME IInv, NEW k \in Key, NEW a \in Addr, NEW c \in Contents, Insert(k, a, c)
    PROVE  /\ IInv' /\ k \notin Keys(Abstract(map))
           /\ Abstract(map)' = InsertNodeAtHead(Abstract(map), k, c)
<1>1. Rep(map', InsertNodeAtHead(Abstract(map), k, c))
  BY InsertRep DEF IInv, Insert
<1>2. k \notin Keys(Abstract(map))
  BY DEF IInv, Rep, Represents, Insert, Keys
<1> QED
  BY <1>1, <1>2, Reread

LEMMA RewriteStep ==
    ASSUME IInv, NEW k \in Key, NEW c \in Contents, Rewrite(k, c)
    PROVE  /\ IInv' /\ k \in Keys(Abstract(map))
           /\ Abstract(map)' = RewriteNode(Abstract(map), k, c)
<1>1. Rep(map', RewriteNode(Abstract(map), k, c))
  BY RewriteRep DEF IInv, Rewrite
<1>2. k \in Keys(Abstract(map))
  BY DEF IInv, Rep, Represents, Rewrite, Keys
<1> QED
  BY <1>1, <1>2, Reread

LEMMA BringStep ==
    ASSUME IInv, NEW k \in Key, BringToHead(k)
    PROVE  /\ IInv' /\ k \in Keys(Abstract(map))
           /\ Abstract(map)' = BringNodeToHead(Abstract(map), k)
<1>1. Rep(map', BringNodeToHead(Abstract(map), k))
  BY BringRep DEF IInv, BringToHead
<1>2. k \in Keys(Abstract(map))
  BY DEF IInv, Rep, Represents, BringToHead, Keys
<1> QED
  BY <1>1, <1>2, Reread

LEMMA RemoveStep ==
    ASSUME IInv, NEW k \in Key, RemoveOne(k)
    PROVE  /\ IInv' /\ k \in Keys(Abstract(map))
           /\ Abstract(map)' = RemoveNode(Abstract(map), k)
<1>1. Rep(map', RemoveNode(Abstract(map), k))
  BY RemoveRep DEF IInv, RemoveOne
<1>2. k \in Keys(Abstract(map))
  BY DEF IInv, Rep, Represents, RemoveOne, Keys
<1> QED
  BY <1>1, <1>2, Reread

LEMMA RemoveTailStep ==
    ASSUME IInv, RemoveTail
    PROVE  IInv' /\ Abstract(map)' = RemoveTailNode(Abstract(map))
<1>1. Rep(map', RemoveTailNode(Abstract(map)))
  BY RemoveTailRep DEF IInv, RemoveTail
<1> QED
  BY <1>1, Reread

LEMMA RemoveAllStep ==
    ASSUME RemoveAll
    PROVE  IInv' /\ Abstract(map)' = EmptyMap
<1>1. Rep(map', EmptyMap)
  BY EmptyRep DEF RemoveAll
<1> QED
  BY <1>1, Reread

\* Every step of the pointers is a method of the list, or leaves it alone.
LEMMA Simulation ==
    ASSUME IInv, [Next]_map
    PROVE  /\ IInv'
           /\ \/ MethodStep(Abstract(map), Abstract(map)', Contents)
              \/ Abstract(map)' = Abstract(map)
<1>1. ASSUME NEW k \in Key, NEW c \in Contents, NEW a \in Addr, Insert(k, a, c)
      PROVE  IInv' /\ MethodStep(Abstract(map), Abstract(map)', Contents)
  BY <1>1, InsertStep DEF MethodStep
<1>2. ASSUME NEW k \in Key, NEW c \in Contents, Rewrite(k, c)
      PROVE  IInv' /\ MethodStep(Abstract(map), Abstract(map)', Contents)
  BY <1>2, RewriteStep DEF MethodStep
<1>3. ASSUME NEW k \in Key, BringToHead(k)
      PROVE  IInv' /\ MethodStep(Abstract(map), Abstract(map)', Contents)
  BY <1>3, BringStep DEF MethodStep
<1>4. ASSUME NEW k \in Key, RemoveOne(k)
      PROVE  IInv' /\ MethodStep(Abstract(map), Abstract(map)', Contents)
  BY <1>4, RemoveStep DEF MethodStep
<1>5. CASE RemoveTail
  BY <1>5, RemoveTailStep DEF MethodStep
<1>6. CASE RemoveAll
  BY <1>6, RemoveAllStep DEF MethodStep
<1>7. CASE map' = map
  <2>1. Rep(map', Abstract(map))
    BY <1>7 DEF IInv
  <2> QED
    BY <2>1, Reread
<1> QED
  BY <1>1, <1>2, <1>3, <1>4, <1>5, <1>6, <1>7 DEF Next

LEMMA InitiallyEmpty ==
    ASSUME Init
    PROVE  IInv /\ Abstract(map) = EmptyMap
<1>1. Rep(map, EmptyMap)
  BY EmptyRep DEF Init
<1>2. Abstract(map) = EmptyMap
  BY <1>1, AbstractIsRepresented
<1> QED
  BY <1>1, <1>2 DEF IInv

LEMMA AlwaysRepresents == Spec => []IInv
<1>1. Init => IInv
  BY InitiallyEmpty
<1>2. IInv /\ [Next]_map => IInv'
  BY Simulation
<1> QED
  BY <1>1, <1>2, PTL DEF Spec

\* Every field of _YYLinkedMap keeps its type; the total cost stays below 2^64.
THEOREM TypeCorrect == Spec => []TypeOK
<1>1. IInv => TypeOK
  BY DEF IInv, Rep, TypeOK
<1> QED
  BY <1>1, AlwaysRepresents, PTL

\* After any sequence of the methods of _YYLinkedMap the nodes form one doubly
\* linked list without dangling pointers, whatever the number of keys, the
\* addresses that are used again, and the width of the integers.
THEOREM AlwaysWellLinked == Spec => []WellLinked
<1>1. IInv => WellLinked
  BY DEF IInv, Rep, WellLinked
<1> QED
  BY <1>1, AlwaysRepresents, PTL

\* The methods of LRUList are those of LRUMap.
LEMMA SameMethods ==
    ASSUME NEW m, NEW n, NEW C, MethodStep(m, n, C)
    PROVE  List!MethodStep(m, n, C)
<1>1. \A s, k : List!IndexOf(s, k) = IndexOf(s, k)
  BY DEF List!IndexOf, IndexOf
<1>2. \A s, i : List!Without(s, i) = Without(s, i)
  BY DEF List!Without, Without
<1>3. \A k, c : /\ List!InsertNodeAtHead(m, k, c) = InsertNodeAtHead(m, k, c)
                /\ List!RewriteNode(m, k, c) = RewriteNode(m, k, c)
  BY DEF List!InsertNodeAtHead, InsertNodeAtHead, List!RewriteNode, RewriteNode
<1>4. \A k : /\ List!BringNodeToHead(m, k) = BringNodeToHead(m, k)
             /\ List!RemoveNode(m, k) = RemoveNode(m, k)
  <2> TAKE k
  <2>1. List!Without(m.list, List!IndexOf(m.list, k)) = Without(m.list, IndexOf(m.list, k))
    BY <1>1, <1>2, Zenon, ZenonT(60)
  <2> QED
    BY <2>1, Zenon, ZenonT(60) DEF List!BringNodeToHead, BringNodeToHead, List!RemoveNode, RemoveNode
<1>5. List!RemoveTailNode(m) = RemoveTailNode(m)
  BY <1>4 DEF List!RemoveTailNode, RemoveTailNode
<1>6. List!EmptyMap = EmptyMap /\ List!Keys(m) = Keys(m)
  BY DEF List!EmptyMap, EmptyMap, List!Keys, Keys
<1> QED
  <2>1. CASE \E k \in Key \ Keys(m), c \in C : n = InsertNodeAtHead(m, k, c)
    BY <2>1, <1>3, <1>6 DEF List!MethodStep
  <2>2. CASE \E k \in Keys(m), c \in C : n = RewriteNode(m, k, c)
    BY <2>2, <1>3, <1>6 DEF List!MethodStep
  <2>3. CASE \E k \in Keys(m) : n = BringNodeToHead(m, k) \/ n = RemoveNode(m, k)
    BY <2>3, <1>4, <1>6 DEF List!MethodStep
  <2>4. CASE n = RemoveTailNode(m) \/ n = EmptyMap
    BY <2>4, <1>5, <1>6 DEF List!MethodStep
  <2> QED
    BY <2>1, <2>2, <2>3, <2>4 DEF MethodStep

\* _YYLinkedMap implements the recency list that YYMemoryCache relies on.
THEOREM Refinement == Spec => ImplementsList
<1>1. Init => List!Init
  BY InitiallyEmpty DEF List!Init, List!EmptyMap, EmptyMap
<1>2. ASSUME IInv, [Next]_map
      PROVE  [List!Next]_(Abstract(map))
  <2>1. CASE MethodStep(Abstract(map), Abstract(map)', Contents)
    BY <2>1, SameMethods DEF List!Next
  <2>2. CASE Abstract(map)' = Abstract(map)
    BY <2>2
  <2> QED
    BY <2>1, <2>2, <1>2, Simulation
<1> QED
  BY <1>1, <1>2, AlwaysRepresents, PTL DEF Spec, ImplementsList, List!Spec

\* Each method of _YYLinkedMap does to the list what its namesake in LRUMap does,
\* so that YYMemoryCache may be understood with the list alone.
THEOREM MethodsAlwaysAgree == Spec => MethodsAgree
<1> DEFINE m == Abstract(map)
           A == /\ \A k \in Key, c \in Contents :
                      /\ \A a \in Addr :
                            Insert(k, a, c) => m' = InsertNodeAtHead(m, k, c)
                      /\ Rewrite(k, c) => m' = RewriteNode(m, k, c)
                /\ \A k \in Key : /\ BringToHead(k) => m' = BringNodeToHead(m, k)
                                  /\ RemoveOne(k) => m' = RemoveNode(m, k)
                /\ RemoveTail => m' = RemoveTailNode(m)
                /\ RemoveAll => m' = EmptyMap
<1>1. IInv => A
  <2> SUFFICES ASSUME IInv
               PROVE  A
    OBVIOUS
  <2>1. ASSUME NEW k \in Key, NEW c \in Contents, NEW a \in Addr, Insert(k, a, c)
        PROVE  m' = InsertNodeAtHead(m, k, c)
    BY <2>1, InsertStep
  <2>2. ASSUME NEW k \in Key, NEW c \in Contents, Rewrite(k, c)
        PROVE  m' = RewriteNode(m, k, c)
    BY <2>2, RewriteStep
  <2>3. ASSUME NEW k \in Key, BringToHead(k)
        PROVE  m' = BringNodeToHead(m, k)
    BY <2>3, BringStep
  <2>4. ASSUME NEW k \in Key, RemoveOne(k)
        PROVE  m' = RemoveNode(m, k)
    BY <2>4, RemoveStep
  <2>5. (RemoveTail => m' = RemoveTailNode(m)) /\ (RemoveAll => m' = EmptyMap)
    BY RemoveTailStep, RemoveAllStep
  <2> HIDE DEF m
  <2> QED
    BY <2>1, <2>2, <2>3, <2>4, <2>5
<1> QED
  BY <1>1, AlwaysRepresents, PTL DEF Spec, MethodsAgree
===============================================================================
