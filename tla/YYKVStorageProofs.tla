--------------------------- MODULE YYKVStorageProofs ---------------------------
(***************************************************************************)
(* Proofs about YYKVStorage, for any keys, sizes, limits and bounds, and   *)
(* whatever calls fail and wherever the process dies.                      *)
(*                                                                         *)
(* A method works in several steps and the properties speak of the states  *)
(* in between, so the invariants say, for each place a method can be at,   *)
(* what it holds in its hands: Control, which is about the method itself;  *)
(* Durable, that what it is about to touch is no longer promised to        *)
(* anyone; Fresh, that row and file only ever move to later saves.  The    *)
(* total of the sizes is a sum over a set: that a row takes its size with  *)
(* it is proved by induction over the number of rows.  The last section    *)
(* shows, step by step, that the storage implements ItemStore.             *)
(***************************************************************************)
EXTENDS YYKVStorage, NumberInduction, FiniteSetTheorems, TLAPS

\* A step that names no prover is tried with SMT, then with Zenon, then with
\* SMT again for longer.
USE SMTT(15), ZenonT(20), SMTT(60)

Resetting == {"unlink", "move", "mkdir", "open"}
Several == {"keys", "where"}

\* What a method knows at each of its steps.
Control ==
    /\ op.pc \in {"write", "drop", "row", "undo", "query", "touch", "read"} => op.key \in Key
    /\ op.pc = "lookup" /\ op.name \notin Several => op.key \in Key
    /\ op.pc \in {"write", "undo"} => op.name = "save"
    /\ op.pc \in {"query", "touch", "read", "total", "pick"} => op.name # "save"
    /\ op.pc \in {"touch", "read"} => rows[op.key] # Nil
    /\ op.pc \in Resetting <=> op.name \in {"all", "rebuild"}
    /\ op.pc \in {"pick", "total"} => op.name \notin Several
    /\ op.name \in Several => op.key = Nil
    /\ op.named \subseteq op.keys
    /\ op.name = "save" => op.ver = next - 1 /\ op.ver \in Ver /\ op.size \in Size
    /\ op.name = "save" /\ op.pc \in {"lookup", "drop"} => ~op.file
    /\ op.pc = "write" => op.file
    /\ op.name = "save" /\ op.pc = "row" /\ op.file => files[op.key] = op.ver

Base == TypeOK /\ Control /\ job.listed <= trash

\* A save that is promised is in its row, and in its file if it has one; a step
\* that changes a row or a file is about a key that nothing is promised for.
InPlace ==
    \A k \in Key :
       acked[k] # Nil => /\ rows[k] # Nil /\ rows[k].ver = acked[k]
                         /\ rows[k].file => files[k] = acked[k]
Released ==
    /\ op.pc \in {"write", "drop", "row", "undo", "lookup"} /\ op.key \in Key =>
          acked[op.key] = Nil
    /\ \A k \in op.keys : acked[k] = Nil
    /\ op.pc \in Resetting => \A k \in Key : acked[k] = Nil
Durable == InPlace /\ Released

\* Rows and files are never older than what has replaced or removed them.
FreshAt(k) ==
    /\ floor[k] <= next
    /\ rows[k] # Nil => /\ floor[k] <= rows[k].ver /\ rows[k].ver < next
                        /\ rows[k].file /\ files[k] \in Nat => rows[k].ver <= files[k]
Emptied == op.name = "all" /\ op.pc # "unlink" => rows = NoRows
Fresh == (\A k \in Key : FreshAt(k)) /\ Emptied

\* The trims.
Fit == {"fitSize", "fitCount"}

-------------------------------------------------------------------------------
(* Sums of sizes. *)

\* g gives each subset of S the sum of its sizes, whichever element is taken first.
Additive(r, S, g) ==
    /\ g \in [SUBSET S -> Nat] /\ g[{}] = 0
    /\ \A s \in SUBSET S : \A x \in s : g[s] = r[x].size + g[s \ {x}]

\* There is such a function, for every finite set.
LEMMA AdditiveExists ==
    ASSUME NEW S, IsFiniteSet(S), NEW r, \A x \in S : r[x].size \in Nat
    PROVE  \E g : Additive(r, S, g)
<1> DEFINE N == {n \in Nat : \A T \in SUBSET S :
                                Cardinality(T) = n => \E g : Additive(r, T, g)}
<1>1. \A T \in SUBSET S : IsFiniteSet(T) /\ Cardinality(T) \in Nat
    BY FS_Subset, FS_CardinalityType
<1>2. 0 \in N
    <2> SUFFICES ASSUME NEW T \in SUBSET S, Cardinality(T) = 0
                 PROVE  \E g : Additive(r, T, g)
        OBVIOUS
    <2>1. T = {}
        BY <1>1, FS_EmptySet
    <2>2. Additive(r, T, [s \in SUBSET T |-> 0])
        BY <2>1 DEF Additive
    <2> QED
        BY <2>2
<1>3. ASSUME NEW n \in Nat, n \in N
      PROVE  n + 1 \in N
    <2> SUFFICES ASSUME NEW T \in SUBSET S, Cardinality(T) = n + 1
                 PROVE  \E g : Additive(r, T, g)
        OBVIOUS
    <2>1. T # {}
        BY FS_EmptySet
    <2>2. PICK a \in T : TRUE
        BY <2>1
    <2>3. T \ {a} \in SUBSET S /\ Cardinality(T \ {a}) = n
        BY <1>1, <2>2, FS_RemoveElement
    <2>4. PICK g : Additive(r, T \ {a}, g)
        BY <1>3, <2>3
    <2> DEFINE h == [s \in SUBSET T |-> IF a \in s THEN r[a].size + g[s \ {a}] ELSE g[s]]
    <2>5. /\ g \in [SUBSET (T \ {a}) -> Nat] /\ g[{}] = 0
          /\ \A s \in SUBSET (T \ {a}) : \A x \in s : g[s] = r[x].size + g[s \ {x}]
        BY <2>4 DEF Additive
    <2>6. \A s \in SUBSET T : /\ s \ {a} \in SUBSET (T \ {a})
                              /\ a \notin s => s \in SUBSET (T \ {a})
        OBVIOUS
    <2>7. r[a].size \in Nat
        BY <2>2
    <2>8. \A s \in SUBSET T : h[s] \in Nat
        BY <2>5, <2>6, <2>7
    <2>9. h \in [SUBSET T -> Nat]
        BY <2>8, Zenon, ZenonT(60)
    <2>10. h[{}] = 0
        BY <2>5
    <2>11. ASSUME NEW s \in SUBSET T, NEW x \in s
           PROVE  h[s] = r[x].size + h[s \ {x}]
        <3>1. s \ {x} \in SUBSET T
            OBVIOUS
        <3>2. CASE x = a
            <4>1. h[s] = r[a].size + g[s \ {a}]
                BY <3>2
            <4>2. h[s \ {x}] = g[s \ {a}]
                BY <3>1, <3>2
            <4> QED
                BY <3>2, <4>1, <4>2
        <3>3. CASE x # a /\ a \notin s
            <4>1. h[s] = g[s] /\ h[s \ {x}] = g[s \ {x}]
                BY <3>1, <3>3
            <4> QED
                BY <3>3, <4>1, <2>5, <2>6
        <3>4. CASE x # a /\ a \in s
            <4>1. h[s] = r[a].size + g[s \ {a}]
                BY <3>4
            <4>2. h[s \ {x}] = r[a].size + g[(s \ {x}) \ {a}]
                BY <3>1, <3>4
            <4>3. (s \ {x}) \ {a} = (s \ {a}) \ {x}
                OBVIOUS
            <4>4. s \ {a} \in SUBSET (T \ {a}) /\ x \in s \ {a}
                BY <3>4
            <4>5. g[s \ {a}] = r[x].size + g[(s \ {a}) \ {x}]
                BY <2>5, <4>4
            <4>6. g[(s \ {a}) \ {x}] \in Nat /\ r[x].size \in Nat
                BY <2>5, <4>4
            <4>7. h[s \ {x}] = r[a].size + g[(s \ {a}) \ {x}]
                BY <4>2, <4>3, Zenon, ZenonT(60)
            <4> HIDE DEF h
            <4> QED
                BY <4>1, <4>5, <4>6, <4>7, <2>7
        <3> QED
            BY <3>2, <3>3, <3>4
    <2> HIDE DEF h
    <2>12. Additive(r, T, h)
        BY <2>9, <2>10, <2>11 DEF Additive
    <2> QED
        BY <2>12
<1>4. Nat \subseteq N
    <2> HIDE DEF N
    <2> QED
        BY <1>2, <1>3, SetInduction
<1>5. Cardinality(S) \in N
    BY <1>1, <1>4
<1> QED
    BY <1>5

\* The equation that MapThenSumSet solves.
Solves(r, S, g) ==
    g = [s \in SUBSET S |-> IF s = {} THEN 0
                            ELSE r[CHOOSE x \in s : TRUE].size
                                 + g[s \ {CHOOSE x \in s : TRUE}]]

KeysOf(r) == {k \in Key : r[k] # Nil}

\* The total size of the rows is that sum.
LEMMA SizeIsAdditive ==
    ASSUME NEW r, NEW g, Additive(r, KeysOf(r), g)
    PROVE  SizeOf(r) = g[KeysOf(r)]
<1> DEFINE S == KeysOf(r)
<1>0. IsFiniteSet(S)
    BY StorageAssumption, FS_Subset DEF KeysOf
<1> HIDE DEF S
<1>1. Solves(r, S, g)
    <2>1. ASSUME NEW s \in SUBSET S
          PROVE  g[s] = IF s = {} THEN 0
                        ELSE r[CHOOSE x \in s : TRUE].size + g[s \ {CHOOSE x \in s : TRUE}]
        BY Zenon, ZenonT(60) DEF Additive, S
    <2>2. g = [s \in SUBSET S |-> g[s]]
        BY DEF Additive, S
    <2> QED
        BY <2>1, <2>2, Zenon, ZenonT(60) DEF Solves
<1> DEFINE h == CHOOSE h : Solves(r, S, h)
<1>2. Solves(r, S, h)
    BY <1>1
<1>3. SizeOf(r) = h[S]
    BY DEF S, KeysOf, SizeOf, MapThenSumSet, MapThenFoldSet, Solves
<1> HIDE DEF h
<1> DEFINE N == {n \in Nat : \A s \in SUBSET S : Cardinality(s) = n => h[s] = g[s]}
<1>4. \A s \in SUBSET S : IsFiniteSet(s) /\ Cardinality(s) \in Nat
    BY <1>0, FS_Subset, FS_CardinalityType
<1>5. \A s \in SUBSET S :
         /\ h[s] = IF s = {} THEN 0
                   ELSE r[CHOOSE x \in s : TRUE].size + h[s \ {CHOOSE x \in s : TRUE}]
         /\ g[s] = IF s = {} THEN 0
                   ELSE r[CHOOSE x \in s : TRUE].size + g[s \ {CHOOSE x \in s : TRUE}]
    BY <1>1, <1>2 DEF Solves
<1>6. 0 \in N
    <2>1. \A s \in SUBSET S : Cardinality(s) = 0 => s = {}
        BY <1>4, FS_EmptySet
    <2> QED
        BY <2>1, <1>5
<1>7. ASSUME NEW n \in Nat, n \in N
      PROVE  n + 1 \in N
    <2> SUFFICES ASSUME NEW s \in SUBSET S, Cardinality(s) = n + 1
                 PROVE  h[s] = g[s]
        OBVIOUS
    <2> DEFINE x == CHOOSE x \in s : TRUE
    <2>1. s # {}
        BY FS_EmptySet
    <2>2. x \in s
        BY <2>1
    <2> HIDE DEF x
    <2>3. s \ {x} \in SUBSET S /\ Cardinality(s \ {x}) = n
        <3>1. IsFiniteSet(s) /\ s \ {x} \in SUBSET S
            BY <1>4
        <3>2. Cardinality(s \ {x}) = Cardinality(s) - 1
            BY <3>1, <2>2, FS_RemoveElement
        <3> QED
            BY <3>1, <3>2
    <2>4. h[s \ {x}] = g[s \ {x}]
        BY <1>7, <2>3
    <2>5. h[s] = r[x].size + h[s \ {x}] /\ g[s] = r[x].size + g[s \ {x}]
        BY <1>5, <2>1 DEF x
    <2> QED
        BY <2>4, <2>5
<1>8. Nat \subseteq N
    <2> HIDE DEF N
    <2> QED
        BY <1>6, <1>7, SetInduction
<1>9. h[S] = g[S]
    BY <1>4, <1>8
<1> QED
    BY <1>3, <1>9 DEF S

LEMMA SizeOfTyped ==
    ASSUME NEW r \in [Key -> Row \cup {Nil}]
    PROVE  SizeOf(r) \in Nat
<1>1. IsFiniteSet(KeysOf(r)) /\ \A k \in KeysOf(r) : r[k].size \in Nat
    BY StorageAssumption, FS_Subset, Zenon, ZenonT(60) DEF KeysOf, Row
<1>2. PICK g : Additive(r, KeysOf(r), g)
    BY <1>1, AdditiveExists
<1>3. SizeOf(r) = g[KeysOf(r)]
    BY <1>2, SizeIsAdditive
<1> QED
    BY <1>2, <1>3 DEF Additive

\* A row that goes takes its size from the total.
LEMMA SizeOfWithout ==
    ASSUME NEW r \in [Key -> Row \cup {Nil}], NEW k \in Key, r[k] # Nil
    PROVE  SizeOf([r EXCEPT ![k] = Nil]) = SizeOf(r) - r[k].size
<1> DEFINE q == [r EXCEPT ![k] = Nil]
<1>1. IsFiniteSet(KeysOf(r)) /\ \A j \in KeysOf(r) : r[j].size \in Nat
    BY StorageAssumption, FS_Subset, Zenon, ZenonT(60) DEF KeysOf, Row
<1>2. PICK g : Additive(r, KeysOf(r), g)
    BY <1>1, AdditiveExists
<1>3. KeysOf(q) = KeysOf(r) \ {k} /\ k \in KeysOf(r)
    BY DEF KeysOf
<1>4. \A j \in KeysOf(q) : q[j] = r[j]
    BY <1>3 DEF KeysOf
<1> HIDE DEF q
<1> DEFINE h == [s \in SUBSET KeysOf(q) |-> g[s]]
<1>5. Additive(q, KeysOf(q), h)
    <2>1. SUBSET KeysOf(q) \subseteq SUBSET KeysOf(r)
        BY <1>3
    <2>2. h \in [SUBSET KeysOf(q) -> Nat] /\ h[{}] = 0
        BY <1>2, <2>1 DEF Additive
    <2>3. ASSUME NEW s \in SUBSET KeysOf(q), NEW x \in s
          PROVE  h[s] = q[x].size + h[s \ {x}]
        <3>1. g[s] = r[x].size + g[s \ {x}]
            BY <1>2, <2>1 DEF Additive
        <3>2. q[x] = r[x] /\ s \ {x} \in SUBSET KeysOf(q)
            BY <1>4
        <3> QED
            BY <3>1, <3>2
    <2> HIDE DEF h
    <2> QED
        BY <2>2, <2>3 DEF Additive
<1>6. SizeOf(q) = g[KeysOf(q)]
    <2>1. SizeOf(q) = h[KeysOf(q)]
        <3> HIDE DEF h
        <3> QED
            BY <1>5, SizeIsAdditive
    <2> QED
        BY <2>1
<1>7. SizeOf(r) = g[KeysOf(r)]
    BY <1>2, SizeIsAdditive
<1>8. g[KeysOf(r)] = r[k].size + g[KeysOf(q)] /\ g[KeysOf(q)] \in Nat
    BY <1>2, <1>3 DEF Additive
<1>9. r[k].size \in Nat
    BY <1>1, <1>3
<1>10. SizeOf(q) = SizeOf(r) - r[k].size
    BY <1>6, <1>7, <1>8, <1>9
<1> QED
    BY <1>10 DEF q

-------------------------------------------------------------------------------
(* How a method moves from step to step. *)

Places == {"idle", "write", "lookup", "drop", "row", "undo", "query", "touch", "read",
           "total", "pick", "files", "rows", "unlink", "move", "mkdir", "open"}

\* All that a method knows stays as it is.
SameOp ==
    /\ op'.name = op.name /\ op'.key = op.key /\ op'.ver = op.ver
    /\ op'.size = op.size /\ op'.file = op.file /\ op'.limit = op.limit
    /\ op'.keys = op.keys

\* Goto only changes the place.
LEMMA GotoMoves ==
    ASSUME op \in Op, NEW p \in Places, Goto(p)
    PROVE  op' \in Op /\ op'.pc = p /\ SameOp /\ op'.named = op.named /\ op'.total = op.total
<1>1. op' \in Op
    BY DEF Goto, Op, Places
<1>2. op'.pc = p
    BY DEF Goto, Op
<1> QED
    BY <1>1, <1>2 DEF Goto, Op, SameOp

\* Nothing is under way once a method has returned.
LEMMA NothingUnderWay ==
    /\ NoOp \in Op /\ NoOp.name = "none" /\ NoOp.pc = "idle" /\ NoOp.key = Nil
    /\ NoOp.keys = {} /\ NoOp.named = {}
BY DEF NoOp, Op

\* What a statement can do to the connection and to the table.
LEMMA StatementEffect ==
    ASSUME TypeOK, NEW d \in Statement
    PROVE  /\ d.conn \in Conn /\ d.table \in BOOLEAN /\ d.ok \in BOOLEAN
           /\ conn.state = "down" => d.conn.state = "down"
<1> DEFINE Outcome == [conn : Conn, table : BOOLEAN, ok : BOOLEAN]
<1>1. conn \in Conn /\ table \in BOOLEAN
    BY DEF TypeOK
<1>2. OpenConn \in Conn /\ Refused \in Conn
    BY <1>1, StorageAssumption DEF OpenConn, Refused, Conn
<1>3. ASSUME NEW c \in DbOpen PROVE c \in Outcome
    <2>1. \/ c = [conn |-> OpenConn, table |-> TRUE, ok |-> TRUE]
          \/ c = [conn |-> OpenConn, table |-> table, ok |-> FALSE]
          \/ c = [conn |-> Refused, table |-> table, ok |-> FALSE]
        BY <1>3 DEF DbOpen
    <2>2. [conn |-> OpenConn, table |-> TRUE, ok |-> TRUE] \in Outcome
        BY <1>2
    <2>3. [conn |-> OpenConn, table |-> table, ok |-> FALSE] \in Outcome
        BY <1>1, <1>2
    <2>4. [conn |-> Refused, table |-> table, ok |-> FALSE] \in Outcome
        BY <1>1, <1>2
    <2> QED
        BY <2>1, <2>2, <2>3, <2>4, Zenon, ZenonT(60)
<1>4. [conn |-> conn, table |-> table, ok |-> conn.state = "open"] \in Outcome
    <2> HIDE DEF Conn
    <2> QED
        BY <1>1
<1>5. ASSUME NEW c \in DbCheck PROVE c \in Outcome
    BY <1>3, <1>4, Zenon, ZenonT(60) DEF DbCheck
<1>6. PICK c \in DbCheck, done \in Answers : d = [c EXCEPT !.ok = c.ok /\ c.table /\ done]
    BY DEF Statement
<1>7. c \in Outcome
    BY <1>5, <1>6
<1>8. d.conn = c.conn /\ d.table = c.table /\ d.ok = (c.ok /\ c.table /\ done)
    BY <1>6, <1>7
<1>9. c.conn \in Conn /\ c.table \in BOOLEAN
    BY <1>7
<1>10. conn.state = "down" => c.conn = conn
    BY <1>6 DEF DbCheck
<1> QED
    BY <1>8, <1>9, <1>10

-------------------------------------------------------------------------------
(* Control: the calls. *)

Names == {"none", "save", "remove", "get", "value", "fitSize", "fitCount",
          "keys", "where", "all", "rebuild"}

\* A call other than saveItemWithKey: as it begins.
Begun(n, p, k, l, ks) ==
    [name |-> n, pc |-> p, key |-> k, ver |-> 0, size |-> 0, file |-> FALSE,
     limit |-> l, total |-> 0, keys |-> ks, named |-> {}]

LEMMA BegunTyped ==
    ASSUME NEW n \in Names, NEW p \in Places, NEW k \in Key \cup {Nil},
           NEW l \in Nat, NEW ks \in SUBSET Key
    PROVE  Begun(n, p, k, l, ks) \in Op
BY DEF Begun, Op, Names, Places

\* saveItemWithKey: knows the save it makes.
LEMMA SaveItemControl ==
    ASSUME Base, NEW k \in Key, NEW size \in Size, NEW inFile \in BOOLEAN,
           SaveItem(k, size, inFile)
    PROVE  Base'
<1>1. next \in Ver /\ next \in Nat /\ next' = next + 1
    BY StorageAssumption DEF Base, TypeOK, SaveItem, Ver
<1>2. op' \in Op
    <2> DEFINE p == IF inFile THEN "write"
                    ELSE IF Type # "SQLite" THEN "lookup" ELSE "row"
    <2>1. op' = [name |-> "save", pc |-> p, key |-> k, ver |-> next, size |-> size,
                 file |-> inFile, limit |-> 0, total |-> 0, keys |-> {}, named |-> {}]
        BY Zenon, ZenonT(60) DEF SaveItem, NoOp
    <2>2. p \in Places
        BY DEF Places
    <2> HIDE DEF p
    <2> QED
        BY <2>1, <2>2, <1>1 DEF Op, Places
<1>3. /\ op'.name = "save" /\ op'.key = k /\ op'.ver = next /\ op'.size = size
      /\ op'.file = inFile /\ op'.keys = {} /\ op'.named = {}
      /\ op'.pc \in {"write", "lookup", "row"}
      /\ op'.pc = "write" <=> inFile
    BY DEF SaveItem, NoOp
<1>4. acked' \in [Key -> Ver \cup {Nil}]
    BY DEF Base, TypeOK, SaveItem, Untouched
<1>5. TypeOK'
    <2>1. next' \in 1..(MaxSaves + 1)
        BY <1>1, StorageAssumption DEF Ver
    <2> QED
        BY <2>1, <1>2, <1>4 DEF Base, TypeOK, SaveItem, disk
<1>6. Control'
    BY <1>1, <1>3 DEF Control, Resetting, Several
<1> QED
    BY <1>5, <1>6 DEF Base, SaveItem, disk

\* removeItemForKey:, getItemForKey: and getItemValueForKey: know their key.
LEMMA OneKeyControl ==
    ASSUME Base, NEW k \in Key,
           RemoveItem(k) \/ \E name \in {"get", "value"} : GetItem(k, name)
    PROVE  Base'
<1>1. op' \in Op
    <2>1. ASSUME RemoveItem(k)
          PROVE  op' = Begun("remove", IF Type = "SQLite" THEN "row" ELSE "lookup", k, 0, {})
        BY <2>1, Zenon, ZenonT(60) DEF RemoveItem, NoOp, Begun
    <2>2. ASSUME NEW name \in {"get", "value"}, GetItem(k, name)
          PROVE  op' = Begun(name, "query", k, 0, {})
        BY <2>2, Zenon, ZenonT(60) DEF GetItem, NoOp, Begun
    <2> QED
        BY <2>1, <2>2, BegunTyped DEF Names, Places
<1>2. /\ op'.name \in {"remove", "get", "value"} /\ op'.key = k
      /\ op'.keys = {} /\ op'.named = {}
      /\ op'.pc \in {"lookup", "row", "query"}
    <2>1. CASE RemoveItem(k)
        BY <2>1 DEF RemoveItem, NoOp
    <2>2. CASE \E name \in {"get", "value"} : GetItem(k, name)
        BY <2>2 DEF GetItem, NoOp
    <2> QED
        BY <2>1, <2>2
<1>3. acked' \in [Key -> Ver \cup {Nil}]
    BY DEF Base, TypeOK, RemoveItem, GetItem, Untouched, history
<1>4. TypeOK'
    BY <1>1, <1>3 DEF Base, TypeOK, RemoveItem, GetItem, disk, history
<1>5. Control'
    BY <1>2 DEF Control, Resetting, Several
<1> QED
    BY <1>4, <1>5 DEF Base, RemoveItem, GetItem, disk

\* The calls about many items know no key yet.
LEMMA ManyControl ==
    ASSUME Base,
           \/ \E name \in {"fitSize", "fitCount"}, limit \in Limit : RemoveItemsToFit(name, limit)
           \/ \E name \in {"keys", "where"}, keys \in SUBSET Key : RemoveItems(name, keys)
           \/ RemoveAllItems
    PROVE  Base'
<1>1. op' \in Op
    <2>1. ASSUME NEW name \in {"fitSize", "fitCount"}, NEW limit \in Limit,
                 RemoveItemsToFit(name, limit)
          PROVE  op' = Begun(name, "total", Nil, limit, {})
        BY <2>1, Zenon, ZenonT(60) DEF RemoveItemsToFit, NoOp, Begun
    <2>2. ASSUME NEW name \in {"keys", "where"}, NEW keys \in SUBSET Key,
                 RemoveItems(name, keys)
          PROVE  op' = Begun(name, IF Type = "SQLite" THEN "rows" ELSE "lookup", Nil, 0, keys)
        BY <2>2, Zenon, ZenonT(60) DEF RemoveItems, NoOp, Begun
    <2>3. ASSUME RemoveAllItems
          PROVE  op' = Begun("all", "unlink", Nil, 0, {})
        BY <2>3, Zenon, ZenonT(60) DEF RemoveAllItems, NoOp, Begun
    <2> QED
        BY <2>1, <2>2, <2>3, BegunTyped, StorageAssumption DEF Names, Places
<1>2. /\ op'.name # "save" /\ op'.key = Nil /\ op'.named = {}
      /\ op'.pc \in {"total", "lookup", "rows", "unlink"}
      /\ op'.pc = "lookup" => op'.name \in Several
      /\ op'.pc = "total" => op'.name \notin Several
      /\ op'.pc = "unlink" <=> op'.name \in {"all", "rebuild"}
    <2>1. CASE \E name \in {"fitSize", "fitCount"}, limit \in Limit :
                  RemoveItemsToFit(name, limit)
        BY <2>1, Zenon, ZenonT(60) DEF RemoveItemsToFit, NoOp, Several
    <2>2. CASE \E name \in {"keys", "where"}, keys \in SUBSET Key : RemoveItems(name, keys)
        BY <2>2, Zenon, ZenonT(60) DEF RemoveItems, NoOp, Several
    <2>3. CASE RemoveAllItems
        BY <2>3 DEF RemoveAllItems, NoOp, Several
    <2> QED
        BY <2>1, <2>2, <2>3
<1>3. acked' \in [Key -> Ver \cup {Nil}]
    BY Zenon, ZenonT(60) DEF Base, TypeOK, RemoveItemsToFit, RemoveItems, RemoveAllItems, Untouched, history
<1>4. conn' \in Conn
    BY Zenon, ZenonT(60) DEF Base, TypeOK, Conn, RemoveItemsToFit, RemoveItems, RemoveAllItems
<1>5. TypeOK'
    BY <1>1, <1>3, <1>4, Zenon, ZenonT(60)
    DEF Base, TypeOK, RemoveItemsToFit, RemoveItems, RemoveAllItems, disk, history
<1>6. Control'
    BY <1>2 DEF Control, Resetting, Several
<1> QED
    BY <1>5, <1>6, Zenon, ZenonT(60) DEF Base, RemoveItemsToFit, RemoveItems, RemoveAllItems, disk

LEMMA CallControl == Base /\ Call => Base'
BY SaveItemControl, OneKeyControl, ManyControl, Zenon, ZenonT(60) DEF Call, Stored

-------------------------------------------------------------------------------
(* Control: the steps. *)

LEMMA ReturnControl == Return => op' \in Op /\ Control'
BY NothingUnderWay DEF Return, Control, Resetting, Several

LEMMA DbTyped ==
    ASSUME TypeOK, NEW d, Db(d)
    PROVE  d \in Statement /\ conn' \in Conn /\ table' \in BOOLEAN /\ d.ok \in BOOLEAN
BY StatementEffect DEF Db

\* A file is written, or left half-written, or not touched.
LEMMA WriteFileControl == Base /\ WriteFile => Base'
<1> SUFFICES ASSUME Base, WriteFile PROVE Base'
    OBVIOUS
<1>1. op \in Op /\ op.key \in Key /\ op.name = "save" /\ op.ver \in Ver /\ op.pc = "write"
    BY DEF Base, TypeOK, Control, WriteFile, At
<1>2. files' \in [Key -> Ver \cup {Nil, Torn}]
    BY <1>1 DEF Base, TypeOK, WriteFile
<1>3. op' \in Op /\ Control'
    <2>1. CASE Return
        BY <2>1, ReturnControl
    <2>2. CASE Goto("row") /\ files' = [files EXCEPT ![op.key] = op.ver]
        <3>1. op' \in Op /\ op'.pc = "row" /\ SameOp /\ op'.named = op.named
            BY <2>2, <1>1, GotoMoves DEF Places
        <3>2. files'[op'.key] = op'.ver /\ next' = next
            BY <3>1, <2>2, <1>1 DEF SameOp, Base, TypeOK, WriteFile, history
        <3> QED
            BY <3>1, <3>2, <1>1 DEF SameOp, Base, Control, Resetting, Several
    <2> QED
        BY <2>1, <2>2 DEF WriteFile
<1>4. TypeOK'
    BY <1>2, <1>3 DEF Base, TypeOK, WriteFile, history
<1> QED
    BY <1>3, <1>4 DEF Base, WriteFile

\* The names that are looked up are those of the items to remove.
LEMMA LookupControl == Base /\ LookupFilename => Base'
<1> SUFFICES ASSUME Base, LookupFilename PROVE Base'
    OBVIOUS
<1>1. op \in Op /\ op.pc = "lookup"
    BY DEF Base, TypeOK, LookupFilename, At
<1> DEFINE Found(d) == IF d.ok THEN Named \cap (op.keys \cup {op.key}) ELSE {}
           Seen(d) == IF op.name \in {"keys", "where"}
                      THEN [op EXCEPT !.named = Found(d), !.pc = AfterFiles(Found(d))]
                      ELSE [op EXCEPT !.pc = IF Found(d) # {} THEN "drop" ELSE "row"]
<1>2. PICK d \in Statement : Db(d) /\ op' = Seen(d)
    BY Zenon, ZenonT(60) DEF LookupFilename
<1>3. conn' \in Conn /\ table' \in BOOLEAN
    BY <1>2, DbTyped DEF Base
<1>4. op' \in Op /\ Control'
    <2>1. CASE op.name \in Several
        <3>1. op.key = Nil
            BY <2>1 DEF Base, Control
        <3>2. Found(d) \subseteq op.keys /\ Found(d) \in SUBSET Key
            BY <3>1, <1>1, StorageAssumption DEF Named, Stored, Op
        <3>3. AfterFiles(Found(d)) \in {"rows", "files"}
            BY DEF AfterFiles
        <3>4. op' = [op EXCEPT !.named = Found(d), !.pc = AfterFiles(Found(d))]
            BY <2>1, <1>2 DEF Several
        <3> HIDE DEF Found
        <3>5. op' \in Op
            BY <3>2, <3>3, <3>4, <1>1, Zenon, ZenonT(60) DEF Op
        <3>6. op'.pc \in {"rows", "files"} /\ SameOp /\ op'.named = Found(d)
            BY <3>3, <3>4, <1>1 DEF Op, SameOp
        <3> QED
            BY <3>1, <3>2, <3>5, <3>6, <2>1, <1>1
            DEF SameOp, Base, Control, Resetting, Several
    <2>2. CASE op.name \notin Several
        <3> DEFINE p == IF Found(d) # {} THEN "drop" ELSE "row"
        <3>1. Goto(p)
            BY <2>2, <1>2 DEF Several, Goto
        <3>2. p \in Places /\ p \in {"drop", "row"}
            BY DEF Places
        <3> HIDE DEF p
        <3>3. op' \in Op /\ op'.pc = p /\ SameOp /\ op'.named = op.named
            BY <3>1, <3>2, <1>1, GotoMoves
        <3>4. next' = next
            BY DEF LookupFilename, history
        <3> QED
            BY <3>2, <3>3, <3>4, <2>2, <1>1 DEF SameOp, Base, Control, Resetting, Several
    <2> QED
        BY <2>1, <2>2
<1>5. TypeOK'
    BY <1>3, <1>4 DEF Base, TypeOK, LookupFilename, history
<1> QED
    BY <1>4, <1>5 DEF Base, LookupFilename

\* _fileDeleteWithName: leaves a directory of files.
LEMMA DeleteFileTyped ==
    ASSUME TypeOK, NEW k \in Key, DeleteFile(k)
    PROVE  files' \in [Key -> Ver \cup {Nil, Torn}]
BY DEF TypeOK, DeleteFile

LEMMA DropFileControl == Base /\ DropFile => Base'
<1> SUFFICES ASSUME Base, DropFile PROVE Base'
    OBVIOUS
<1>1. op \in Op /\ op.pc = "drop" /\ op.key \in Key
    BY DEF Base, TypeOK, Control, DropFile, At
<1>2. files' \in [Key -> Ver \cup {Nil, Torn}]
    BY <1>1, DeleteFileTyped DEF Base, DropFile
<1>3. op' \in Op /\ op'.pc = "row" /\ SameOp /\ op'.named = op.named
    BY <1>1, GotoMoves DEF DropFile, Places
<1>4. Control'
    BY <1>1, <1>3 DEF SameOp, Base, Control, Resetting, Several, DropFile, history
<1>5. TypeOK'
    BY <1>2, <1>3 DEF Base, TypeOK, DropFile, history
<1> QED
    BY <1>4, <1>5 DEF Base, DropFile

LEMMA UndoWriteControl == Base /\ UndoWrite => Base'
<1> SUFFICES ASSUME Base, UndoWrite PROVE Base'
    OBVIOUS
<1>1. op.key \in Key
    BY DEF Base, Control, UndoWrite, At
<1>2. files' \in [Key -> Ver \cup {Nil, Torn}]
    BY <1>1, DeleteFileTyped DEF Base, UndoWrite
<1>3. op' \in Op /\ Control'
    BY ReturnControl DEF UndoWrite
<1>4. TypeOK'
    BY <1>2, <1>3 DEF Base, TypeOK, UndoWrite, history
<1> QED
    BY <1>3, <1>4 DEF Base, UndoWrite

\* The row that a save writes.
NewRow == [file |-> op.file, ver |-> op.ver, size |-> op.size, access |-> clock]

LEMMA SaveRowControl == Base /\ SaveRow => Base'
<1> SUFFICES ASSUME Base, SaveRow PROVE Base'
    OBVIOUS
<1>1. /\ op \in Op /\ op.pc = "row" /\ op.name = "save" /\ op.key \in Key
      /\ op.ver \in Ver /\ op.size \in Size
    BY DEF Base, TypeOK, Control, SaveRow, At
<1>2. NewRow \in Row
    BY <1>1 DEF NewRow, Row, Op, Base, TypeOK
<1>3. PICK d \in Statement :
        /\ Db(d)
        /\ IF d.ok
           THEN /\ rows' = [rows EXCEPT ![op.key] = NewRow]
                /\ acked' = [acked EXCEPT ![op.key] = op.ver]
                /\ floor' = [floor EXCEPT ![op.key] = op.ver]
                /\ Return
           ELSE /\ IF op.file THEN Goto("undo") ELSE Return
                /\ UNCHANGED <<rows, acked, floor>>
    BY DEF SaveRow, NewRow
<1>4. conn' \in Conn /\ table' \in BOOLEAN
    BY <1>3, DbTyped DEF Base
<1>5. op' \in Op /\ Control'
    <2>1. CASE Return
        BY <2>1, ReturnControl
    <2>2. CASE Goto("undo")
        <3>1. op' \in Op /\ op'.pc = "undo" /\ SameOp /\ op'.named = op.named
            BY <2>2, <1>1, GotoMoves DEF Places
        <3>2. next' = next
            BY DEF SaveRow
        <3> QED
            BY <3>1, <3>2, <1>1 DEF SameOp, Base, Control, Resetting, Several
    <2> QED
        BY <2>1, <2>2, <1>3
<1>6. op.ver \in 0..(MaxSaves + 1)
    BY <1>1, StorageAssumption DEF Ver
<1>7. /\ rows' \in [Key -> Row \cup {Nil}] /\ acked' \in [Key -> Ver \cup {Nil}]
      /\ floor' \in [Key -> 0..(MaxSaves + 1)]
    BY <1>1, <1>2, <1>3, <1>6 DEF Base, TypeOK
<1>8. TypeOK'
    BY <1>4, <1>5, <1>7 DEF Base, TypeOK, SaveRow
<1> QED
    BY <1>5, <1>8 DEF Base, SaveRow

\* What is left of a trim's total after an item is gone.
Left == op.total - (CASE op.name = "fitSize" -> op.size
                      [] op.name = "fitCount" -> 1
                      [] OTHER -> 0)

LEMMA DeleteRowControl == Base /\ DeleteRow => Base'
<1> SUFFICES ASSUME Base, DeleteRow PROVE Base'
    OBVIOUS
<1>1. op \in Op /\ op.pc = "row" /\ op.name # "save" /\ op.key \in Key
    BY DEF Base, TypeOK, Control, DeleteRow, At
<1>2. op.name \notin Several /\ op.name \notin {"all", "rebuild"}
    BY <1>1, StorageAssumption DEF Base, Control, Resetting
<1>3. Left \in Int
    BY <1>1, StorageAssumption DEF Left, Op
<1>4. PICK d \in Statement :
        /\ Db(d)
        /\ rows' = IF d.ok THEN [rows EXCEPT ![op.key] = Nil] ELSE rows
        /\ floor' = IF d.ok /\ op.name = "remove" THEN [floor EXCEPT ![op.key] = next] ELSE floor
        /\ IF d.ok /\ Left > op.limit
           THEN op' = [NoOp EXCEPT !.name = op.name, !.limit = op.limit,
                                   !.total = Left, !.pc = "pick"]
           ELSE Return
    BY DEF DeleteRow, Left
<1>5. conn' \in Conn /\ table' \in BOOLEAN
    BY <1>4, DbTyped DEF Base
<1>6. op' \in Op /\ Control'
    <2>1. CASE Return
        BY <2>1, ReturnControl
    <2>2. CASE op' = [NoOp EXCEPT !.name = op.name, !.limit = op.limit,
                                  !.total = Left, !.pc = "pick"]
        <3>1. op' = [name |-> op.name, pc |-> "pick", key |-> Nil, ver |-> 0, size |-> 0,
                     file |-> FALSE, limit |-> op.limit, total |-> Left, keys |-> {},
                     named |-> {}]
            BY <2>2, Zenon, ZenonT(60) DEF NoOp
        <3> HIDE DEF Left
        <3>2. op' \in Op
            BY <3>1, <1>1, <1>3 DEF Op
        <3> QED
            BY <3>1, <3>2, <1>1, <1>2 DEF Control, Resetting, Several
    <2> QED
        BY <2>1, <2>2, <1>4
<1>7. next \in 0..(MaxSaves + 1)
    BY StorageAssumption DEF Base, TypeOK
<1>8. rows' \in [Key -> Row \cup {Nil}] /\ floor' \in [Key -> 0..(MaxSaves + 1)]
    BY <1>1, <1>4, <1>7 DEF Base, TypeOK
<1>9. TypeOK'
    BY <1>5, <1>6, <1>8 DEF Base, TypeOK, DeleteRow
<1> QED
    BY <1>6, <1>9 DEF Base, DeleteRow

LEMMA CountTyped == TypeOK => Cardinality(Stored) \in Nat
BY FS_Subset, FS_CardinalityType, StorageAssumption DEF Stored

LEMMA TotalSizeTyped == TypeOK => TotalSize \in Nat
BY SizeOfTyped DEF TypeOK, TotalSize

LEMMA QueryRowControl == Base /\ QueryRow => Base'
<1> SUFFICES ASSUME Base, QueryRow PROVE Base'
    OBVIOUS
<1>1. op \in Op /\ op.pc = "query" /\ op.key \in Key
    BY DEF Base, TypeOK, Control, QueryRow, At
<1>2. PICK d \in Statement :
        /\ Db(d)
        /\ \/ Return
           \/ op.key \in Stored /\ (Goto("touch") \/ Goto("read"))
    BY DEF QueryRow
<1>3. conn' \in Conn /\ table' \in BOOLEAN
    BY <1>2, DbTyped DEF Base
<1>4. op' \in Op /\ Control'
    <2>1. CASE Return
        BY <2>1, ReturnControl
    <2>2. CASE op.key \in Stored /\ (Goto("touch") \/ Goto("read"))
        <3>1. op' \in Op /\ op'.pc \in {"touch", "read"} /\ SameOp /\ op'.named = op.named
            BY <2>2, <1>1, GotoMoves DEF Places
        <3>2. next' = next /\ rows' = rows /\ rows[op.key] # Nil
            BY <2>2 DEF QueryRow, history, Stored
        <3> QED
            BY <3>1, <3>2, <1>1 DEF SameOp, Base, Control, Resetting, Several
    <2> QED
        BY <2>1, <2>2, <1>2
<1>5. TypeOK'
    BY <1>3, <1>4 DEF Base, TypeOK, QueryRow, history
<1> QED
    BY <1>4, <1>5 DEF Base, QueryRow

\* The row with a new access time is a row, with everything else as it was.
LEMMA TouchedRow ==
    ASSUME NEW r \in Row, NEW t \in 0..MaxTime
    PROVE  LET q == [r EXCEPT !.access = t] IN
           q \in Row /\ q.file = r.file /\ q.ver = r.ver /\ q.size = r.size /\ q.access = t
BY DEF Row

\* What _dbUpdateAccessTimeWithKey: does to the rows.
LEMMA TouchEffect ==
    ASSUME TypeOK, op.key \in Key, rows[op.key] # Nil, TouchRow
    PROVE  /\ rows' \in [Key -> Row \cup {Nil}]
           /\ \A k \in Key : /\ rows'[k] = Nil <=> rows[k] = Nil
                             /\ rows[k] # Nil => /\ rows'[k].file = rows[k].file
                                                 /\ rows'[k].ver = rows[k].ver
                                                 /\ rows'[k].size = rows[k].size
<1>1. rows[op.key] \in Row /\ clock \in 0..MaxTime /\ rows \in [Key -> Row \cup {Nil}]
    BY DEF TypeOK
<1>2. CASE rows' = rows
    BY <1>1, <1>2
<1>3. CASE rows' = [rows EXCEPT ![op.key].access = clock]
    <2> DEFINE q == [rows[op.key] EXCEPT !.access = clock]
    <2>1. /\ q \in Row /\ q.file = rows[op.key].file /\ q.ver = rows[op.key].ver
          /\ q.size = rows[op.key].size
        BY <1>1, TouchedRow
    <2>2. rows' = [rows EXCEPT ![op.key] = q]
        BY <1>3
    <2> HIDE DEF q
    <2>3. q # Nil
        BY <2>1, RowAssumption
    <2> QED
        BY <2>1, <2>2, <2>3, <1>1
<1> QED
    BY <1>2, <1>3 DEF TouchRow

LEMMA TouchRowControl == Base /\ TouchRow => Base'
<1> SUFFICES ASSUME Base, TouchRow PROVE Base'
    OBVIOUS
<1>1. op \in Op /\ op.pc = "touch" /\ op.key \in Key /\ rows[op.key] # Nil
    BY DEF Base, TypeOK, Control, TouchRow, At
<1>2. rows' \in [Key -> Row \cup {Nil}] /\ rows'[op.key] # Nil
    BY <1>1, TouchEffect DEF Base
<1>3. conn' \in Conn /\ table' \in BOOLEAN
    BY DbTyped DEF Base, TouchRow
<1>4. op' \in Op /\ Control'
    <2>1. CASE Return
        BY <2>1, ReturnControl
    <2>2. CASE Goto("read")
        <3>1. op' \in Op /\ op'.pc = "read" /\ SameOp /\ op'.named = op.named
            BY <2>2, <1>1, GotoMoves DEF Places
        <3>2. next' = next
            BY DEF TouchRow, history
        <3> QED
            BY <3>1, <3>2, <1>1, <1>2 DEF SameOp, Base, Control, Resetting, Several
    <2> QED
        BY <2>1, <2>2 DEF TouchRow
<1>5. TypeOK'
    BY <1>2, <1>3, <1>4 DEF Base, TypeOK, TouchRow, history
<1> QED
    BY <1>4, <1>5 DEF Base, TouchRow

LEMMA ReadFileControl == Base /\ ReadFile => Base'
<1> SUFFICES ASSUME Base, ReadFile PROVE Base'
    OBVIOUS
<1>1. op \in Op /\ op.pc = "read" /\ op.key \in Key /\ rows[op.key] # Nil
    BY DEF Base, TypeOK, Control, ReadFile, At
<1>2. acked' \in [Key -> Ver \cup {Nil}]
    BY DEF Base, TypeOK, ReadFile, Untouched
<1>3. op' \in Op /\ Control'
    <2>1. CASE Return
        BY <2>1, ReturnControl
    <2>2. CASE (op.name = "value" /\ Goto("touch")) \/ Goto("row")
        <3>1. /\ op' \in Op /\ op'.pc \in {"touch", "row"} /\ SameOp /\ op'.named = op.named
            BY <2>2, <1>1, GotoMoves DEF Places
        <3>2. next' = next /\ rows' = rows
            BY DEF ReadFile, disk
        <3> QED
            BY <3>1, <3>2, <1>1 DEF SameOp, Base, Control, Resetting, Several
    <2> QED
        BY <2>1, <2>2 DEF ReadFile
<1>4. TypeOK'
    BY <1>2, <1>3 DEF Base, TypeOK, ReadFile, disk
<1> QED
    BY <1>3, <1>4 DEF Base, ReadFile, disk

\* The total of a trim is an int.
LEMMA ToIntTyped == \A n \in Int : ToInt(n) \in Int
BY StorageAssumption DEF ToInt

LEMMA TotalItemsControl == Base /\ TotalItems => Base'
<1> SUFFICES ASSUME Base, TotalItems PROVE Base'
    OBVIOUS
<1>1. op \in Op /\ op.pc = "total"
    BY DEF Base, TypeOK, TotalItems, At
<1> DEFINE Total(d) == IF ~d.ok THEN -1
                       ELSE ToInt(IF op.name = "fitSize" THEN TotalSize
                                  ELSE Cardinality(Stored))
<1>2. PICK d \in Statement :
        /\ Db(d)
        /\ IF Total(d) > op.limit THEN op' = [op EXCEPT !.total = Total(d), !.pc = "pick"]
           ELSE Return
    BY Zenon, ZenonT(60) DEF TotalItems
<1>3. conn' \in Conn /\ table' \in BOOLEAN
    BY <1>2, DbTyped DEF Base
<1>4. Total(d) \in Int
    BY ToIntTyped, TotalSizeTyped, CountTyped DEF Base
<1> HIDE DEF Total
<1>5. op' \in Op /\ Control'
    <2>1. CASE Return
        BY <2>1, ReturnControl
    <2>2. CASE op' = [op EXCEPT !.total = Total(d), !.pc = "pick"]
        <3>1. op' \in Op
            BY <2>2, <1>1, <1>4, Zenon, ZenonT(60) DEF Op
        <3>2. op'.pc = "pick" /\ SameOp /\ op'.named = op.named
            BY <2>2, <1>1 DEF Op, SameOp
        <3>3. next' = next
            BY DEF TotalItems, history
        <3> QED
            BY <3>1, <3>2, <3>3, <1>1 DEF SameOp, Base, Control, Resetting, Several
    <2> QED
        BY <2>1, <2>2, <1>2
<1>6. TypeOK'
    BY <1>3, <1>5 DEF Base, TypeOK, TotalItems, history
<1> QED
    BY <1>5, <1>6 DEF Base, TotalItems

LEMMA PickOldestControl == Base /\ PickOldest => Base'
<1> SUFFICES ASSUME Base, PickOldest PROVE Base'
    OBVIOUS
<1>1. op \in Op /\ op.pc = "pick" /\ op.name # "save" /\ op.name \notin Several
    BY Zenon, ZenonT(60) DEF Base, TypeOK, Control, PickOldest, At
<1>2. conn' \in Conn /\ table' \in BOOLEAN
    BY DbTyped, Zenon, ZenonT(60) DEF Base, PickOldest
<1>3. acked' \in [Key -> Ver \cup {Nil}]
    BY Zenon, ZenonT(60) DEF Base, TypeOK, PickOldest, Untouched
<1>4. op' \in Op /\ Control'
    <2>1. CASE Return
        BY <2>1, ReturnControl
    <2>2. ASSUME NEW k \in Key, Oldest(k),
                 op' = [op EXCEPT !.key = k, !.size = rows[k].size,
                           !.pc = IF rows[k].file THEN "drop" ELSE "row"]
          PROVE  op' \in Op /\ Control'
        <3> DEFINE p == IF rows[k].file THEN "drop" ELSE "row"
        <3>1. rows[k] \in Row
            BY <2>2 DEF Oldest, Stored, Base, TypeOK
        <3>2. rows[k].size \in Size /\ p \in {"drop", "row"}
            BY <3>1 DEF Row
        <3>3. op' = [op EXCEPT !.key = k, !.size = rows[k].size, !.pc = p]
            BY <2>2
        <3> HIDE DEF p
        <3>4. op' \in Op
            BY <3>2, <3>3, <1>1, Zenon, ZenonT(60) DEF Op
        <3>5. /\ op'.pc \in {"drop", "row"} /\ op'.name = op.name /\ op'.key = k
              /\ op'.keys = op.keys /\ op'.named = op.named
            BY <3>2, <3>3, <1>1 DEF Op
        <3> QED
            BY <3>4, <3>5, <1>1 DEF Base, Control, Resetting
    <2> QED
        BY <2>1, <2>2, Zenon, ZenonT(60) DEF PickOldest
<1>5. TypeOK'
    BY <1>2, <1>3, <1>4, Zenon, ZenonT(60) DEF Base, TypeOK, PickOldest
<1> QED
    BY <1>4, <1>5, Zenon, ZenonT(60) DEF Base, PickOldest

LEMMA DropFilesControl == Base /\ DropFiles => Base'
<1> SUFFICES ASSUME Base, DropFiles PROVE Base'
    OBVIOUS
<1>1. op \in Op /\ op.pc = "files"
    BY DEF Base, TypeOK, DropFiles, At
<1>2. PICK k \in op.named :
        /\ DeleteFile(k)
        /\ op' = [op EXCEPT !.named = op.named \ {k}, !.pc = AfterFiles(op.named \ {k})]
    BY <1>1, Zenon, ZenonT(60) DEF DropFiles, Op
<1>3. files' \in [Key -> Ver \cup {Nil, Torn}]
    BY <1>1, <1>2, DeleteFileTyped DEF Base, Op
<1>4. AfterFiles(op.named \ {k}) \in {"rows", "files"}
    BY DEF AfterFiles
<1>5. op' \in Op
    BY <1>1, <1>2, <1>4, Zenon, ZenonT(60) DEF Op
<1>6. op'.pc \in {"rows", "files"} /\ SameOp /\ op'.named = op.named \ {k}
    BY <1>1, <1>2, <1>4 DEF Op, SameOp
<1>7. Control'
    BY <1>1, <1>6 DEF SameOp, Base, Control, Resetting, Several, DropFiles, history
<1>8. TypeOK'
    BY <1>3, <1>5 DEF Base, TypeOK, DropFiles, history
<1> QED
    BY <1>7, <1>8 DEF Base, DropFiles

LEMMA DeleteRowsControl == Base /\ DeleteRows => Base'
<1> SUFFICES ASSUME Base, DeleteRows PROVE Base'
    OBVIOUS
<1>1. conn' \in Conn /\ table' \in BOOLEAN
    BY DbTyped DEF Base, DeleteRows
<1>2. op' \in Op /\ Control'
    BY ReturnControl DEF DeleteRows
<1>3. next \in 0..(MaxSaves + 1)
    BY StorageAssumption DEF Base, TypeOK
<1>4. rows' \in [Key -> Row \cup {Nil}] /\ floor' \in [Key -> 0..(MaxSaves + 1)]
    BY <1>3 DEF Base, TypeOK, DeleteRows
<1>5. TypeOK'
    BY <1>1, <1>2, <1>4 DEF Base, TypeOK, DeleteRows
<1> QED
    BY <1>2, <1>5 DEF Base, DeleteRows

-------------------------------------------------------------------------------
(* Control: starting over, the trash, the process. *)

LEMMA ResetControl == Base /\ (UnlinkDb \/ MoveToTrash \/ MakeDataDir) => Base'
<1> SUFFICES ASSUME Base, UnlinkDb \/ MoveToTrash \/ MakeDataDir PROVE Base'
    OBVIOUS
<1>1. op \in Op /\ op.pc \in Resetting
    BY Zenon, ZenonT(60) DEF Base, TypeOK, UnlinkDb, MoveToTrash, MakeDataDir, At, Resetting
<1>2. op' \in Op /\ op'.pc \in Resetting /\ SameOp /\ op'.named = op.named
    BY <1>1, GotoMoves, Zenon, ZenonT(60) DEF UnlinkDb, MoveToTrash, MakeDataDir, Places, Resetting
<1>3. /\ rows' \in [Key -> Row \cup {Nil}] /\ table' \in BOOLEAN
      /\ files' \in [Key -> Ver \cup {Nil, Torn}] /\ dataDir' \in BOOLEAN
      /\ trash' \in Nat /\ trash <= trash'
    <2>1. CASE UnlinkDb
        BY <2>1 DEF Base, TypeOK, UnlinkDb, NoRows
    <2>2. CASE MoveToTrash
        <3>1. rows' = rows /\ table' = table /\ trash' \in Nat /\ trash <= trash'
            BY <2>2 DEF Base, TypeOK, MoveToTrash
        <3>2. files' \in [Key -> Ver \cup {Nil, Torn}] /\ dataDir' \in BOOLEAN
            BY <2>2, Zenon, ZenonT(60) DEF Base, TypeOK, MoveToTrash
        <3> QED
            BY <3>1, <3>2 DEF Base, TypeOK
    <2>3. CASE MakeDataDir
        <3>1. dataDir' \in BOOLEAN
            BY <2>3, Zenon, ZenonT(60) DEF MakeDataDir, Answers
        <3> QED
            BY <3>1, <2>3 DEF Base, TypeOK, MakeDataDir
    <2> QED
        BY <2>1, <2>2, <2>3
<1>4. UNCHANGED <<conn, job, clock, next, acked, floor>>
    BY Zenon, ZenonT(60) DEF UnlinkDb, MoveToTrash, MakeDataDir, history
<1>5. TypeOK'
    BY <1>2, <1>3, <1>4 DEF Base, TypeOK
<1>6. Control'
    BY <1>1, <1>2, <1>4 DEF SameOp, Base, Control, Resetting, Several
<1>7. job.listed \in Nat /\ trash \in Nat
    BY DEF Base, TypeOK
<1> QED
    BY <1>3, <1>4, <1>5, <1>6, <1>7 DEF Base

\* _dbOpen leaves a connection.
LEMMA DbOpenTyped ==
    ASSUME TypeOK, NEW d \in DbOpen
    PROVE  d.conn \in Conn /\ d.table \in BOOLEAN /\ d.ok \in BOOLEAN /\ d.conn.state # "down"
<1>1. OpenConn \in Conn /\ Refused \in Conn /\ OpenConn.state = "open" /\ Refused.state = "closed"
    BY StorageAssumption DEF TypeOK, OpenConn, Refused, Conn
<1>2. \/ d = [conn |-> OpenConn, table |-> TRUE, ok |-> TRUE]
      \/ d = [conn |-> OpenConn, table |-> table, ok |-> FALSE]
      \/ d = [conn |-> Refused, table |-> table, ok |-> FALSE]
    BY DEF DbOpen
<1>3. table \in BOOLEAN
    BY DEF TypeOK
<1>4. d.conn = OpenConn \/ d.conn = Refused
    BY <1>2
<1>5. d.table = TRUE \/ d.table = table
    BY <1>2
<1>6. d.ok = TRUE \/ d.ok = FALSE
    BY <1>2
<1> QED
    BY <1>1, <1>3, <1>4, <1>5, <1>6, Zenon, ZenonT(60)

LEMMA ReopenControl == Base /\ Reopen => Base'
<1> SUFFICES ASSUME Base, Reopen PROVE Base'
    OBVIOUS
<1>1. PICK d \in DbOpen :
        /\ conn' = IF op.name = "rebuild" /\ ~d.ok
                   THEN [conn EXCEPT !.state = "down"] ELSE d.conn
        /\ table' = d.table
        /\ floor' = IF op.name = "all" /\ d.ok THEN [k \in Key |-> next] ELSE floor
    BY DEF Reopen
<1>2. [conn EXCEPT !.state = "down"] \in Conn
    BY DEF Base, TypeOK, Conn
<1>3. conn' \in Conn /\ table' \in BOOLEAN
    BY <1>1, <1>2, DbOpenTyped DEF Base
<1>4. op' \in Op /\ Control'
    BY ReturnControl DEF Reopen
<1>5. next \in 0..(MaxSaves + 1)
    BY StorageAssumption DEF Base, TypeOK
<1>6. floor' \in [Key -> 0..(MaxSaves + 1)]
    BY <1>1, <1>5 DEF Base, TypeOK
<1>7. job' \in [waiting : BOOLEAN, listed : Nat] /\ job'.listed = job.listed
    BY Zenon, ZenonT(60) DEF Base, TypeOK, Reopen
<1>8. TypeOK'
    BY <1>3, <1>4, <1>6, <1>7 DEF Base, TypeOK, Reopen
<1> QED
    BY <1>4, <1>7, <1>8 DEF Base, Reopen

LEMMA TrashControl == Base /\ (ListTrash \/ EmptyTrash) => Base'
<1> SUFFICES ASSUME Base, ListTrash \/ EmptyTrash PROVE Base'
    OBVIOUS
<1>1. /\ job' \in [waiting : BOOLEAN, listed : Nat]
      /\ trash' \in Nat /\ job'.listed <= trash'
    <2>1. job \in [waiting : BOOLEAN, listed : Nat] /\ trash \in Nat /\ job.listed <= trash
        BY DEF Base, TypeOK
    <2>2. CASE ListTrash
        BY <2>1, <2>2 DEF ListTrash, disk
    <2>3. CASE EmptyTrash
        BY <2>1, <2>3 DEF EmptyTrash
    <2> QED
        BY <2>2, <2>3
<1>2. UNCHANGED <<rows, table, files, dataDir, conn, op, clock, next, acked, floor>>
    BY DEF ListTrash, EmptyTrash, disk, history
<1>3. TypeOK'
    BY <1>1, <1>2 DEF Base, TypeOK
<1>4. Control'
    BY <1>2 DEF Base, Control
<1> QED
    BY <1>1, <1>3, <1>4 DEF Base

LEMMA CrashControl == Base /\ Crash => Base'
<1> SUFFICES ASSUME Base, Crash PROVE Base'
    OBVIOUS
<1>1. files' \in [Key -> Ver \cup {Nil, Torn}]
    BY DEF Base, TypeOK, Crash, At
<1>2. conn' \in Conn
    BY DEF Crash, Conn
<1>3. op' \in Op /\ Control'
    BY ReturnControl DEF Crash
<1>4. job' \in [waiting : BOOLEAN, listed : Nat] /\ job'.listed = 0
    BY DEF Crash
<1>5. TypeOK'
    BY <1>1, <1>2, <1>3, <1>4 DEF Base, TypeOK, Crash, history
<1> QED
    BY <1>3, <1>4, <1>5 DEF Base, TypeOK, Crash

LEMMA RestartControl == Base /\ Restart => Base'
<1> SUFFICES ASSUME Base, Restart PROVE Base'
    OBVIOUS
<1>1. conn' \in Conn /\ table' \in BOOLEAN
    <2>1. OpenConn \in Conn /\ [state |-> "closed", errors |-> 1, cooled |-> FALSE] \in Conn
        BY DEF OpenConn, Conn
    <2> QED
        BY <2>1, Zenon, ZenonT(60) DEF Base, TypeOK, Restart
<1>2. job' \in [waiting : BOOLEAN, listed : Nat] /\ job'.listed = job.listed
    BY Zenon, ZenonT(60) DEF Base, TypeOK, Restart
<1>3. acked' \in [Key -> Ver \cup {Nil}]
    BY DEF Base, TypeOK, Restart, Untouched
<1>4. UNCHANGED <<rows, files, trash, clock, next, floor>> /\ dataDir' = TRUE
    BY DEF Restart
<1>5. op' \in Op /\ Control'
    <2>1. CASE op' = op
        BY <2>1, <1>4 DEF Base, TypeOK, Control
    <2>2. CASE op' = [NoOp EXCEPT !.name = "rebuild", !.pc = "unlink"]
        <3>1. op' = Begun("rebuild", "unlink", Nil, 0, {})
            BY <2>2, Zenon, ZenonT(60) DEF NoOp, Begun
        <3>2. op' \in Op
            BY <3>1, BegunTyped DEF Names, Places
        <3> QED
            BY <3>1, <3>2 DEF Begun, Control, Resetting, Several
    <2> QED
        BY <2>1, <2>2 DEF Restart
<1>6. TypeOK'
    BY <1>1, <1>2, <1>3, <1>4, <1>5 DEF Base, TypeOK
<1> QED
    BY <1>2, <1>4, <1>5, <1>6 DEF Base

LEMMA RestControl == Base /\ (CoolDown \/ Tick \/ UNCHANGED vars) => Base'
<1> SUFFICES ASSUME Base, CoolDown \/ Tick \/ UNCHANGED vars PROVE Base'
    OBVIOUS
<1>1. conn' \in Conn /\ clock' \in 0..MaxTime
    <2>1. conn \in Conn /\ clock \in 0..MaxTime
        BY DEF Base, TypeOK
    <2>2. [conn EXCEPT !.cooled = TRUE] \in Conn
        BY <2>1, Zenon, ZenonT(60) DEF Conn
    <2>3. clock < MaxTime => clock + 1 \in 0..MaxTime
        BY <2>1, StorageAssumption
    <2> QED
        BY <2>1, <2>2, <2>3, Zenon, ZenonT(60) DEF CoolDown, Tick, vars
<1>2. UNCHANGED <<rows, table, files, dataDir, trash, op, job, next, acked, floor>>
    BY DEF CoolDown, Tick, vars, disk, history
<1>3. TypeOK'
    BY <1>1, <1>2 DEF Base, TypeOK
<1>4. Control'
    BY <1>2 DEF Base, Control
<1> QED
    BY <1>2, <1>3, <1>4 DEF Base

LEMMA BaseInit == Init => Base
<1> SUFFICES ASSUME Init PROVE Base
    OBVIOUS
<1>1. op \in Op /\ Control
    BY NothingUnderWay DEF Init, Control, Resetting, Several
<1>2. conn \in Conn
    BY DEF Init, OpenConn, Conn
<1>3. TypeOK
    BY <1>1, <1>2, StorageAssumption DEF Init, TypeOK, NoRows
<1> QED
    BY <1>1, <1>3 DEF Base, Init

LEMMA BaseStep == Base /\ [Next]_vars => Base'
BY CallControl, WriteFileControl, LookupControl, DropFileControl, SaveRowControl,
   UndoWriteControl, DeleteRowControl, QueryRowControl, TouchRowControl, ReadFileControl,
   TotalItemsControl, PickOldestControl, DropFilesControl, DeleteRowsControl, ResetControl,
   ReopenControl, TrashControl, CrashControl, RestartControl, RestControl
DEF Next, Step

LEMMA BaseAlways == Spec => []Base
BY BaseInit, BaseStep, PTL DEF Spec

\* Whatever fails, the storage's rows, files, counters and the state of the
\* method under way stay what they are declared to be.
THEOREM TypeCorrect == Spec => []TypeOK
<1>1. Base => TypeOK
    BY DEF Base
<1> QED
    BY <1>1, BaseAlways, PTL

-------------------------------------------------------------------------------
(* The trash. *)

\* The steps of the methods that do not start over.
Plain ==
    \/ WriteFile \/ LookupFilename \/ DropFile \/ SaveRow \/ UndoWrite
    \/ DeleteRow \/ QueryRow \/ TouchRow \/ ReadFile
    \/ TotalItems \/ PickOldest \/ DropFiles \/ DeleteRows

LEMMA NextCases ==
    [Next]_vars => \/ Call \/ Plain \/ UnlinkDb \/ MoveToTrash \/ MakeDataDir \/ Reopen
                   \/ ListTrash \/ EmptyTrash \/ Crash \/ Restart
                   \/ CoolDown \/ Tick \/ UNCHANGED vars
BY DEF Next, Step, Plain

\* Such a step is no part of a reset and leaves the trash alone.
LEMMA PlainFrame ==
    ASSUME Base, Plain
    PROVE  /\ op.pc \notin Resetting /\ op.name \notin {"all", "rebuild"}
           /\ UNCHANGED <<dataDir, trash, job, clock, next>>
           /\ conn.state = "down" => conn'.state = "down"
<1>1. op.pc \notin Resetting
    BY Zenon, ZenonT(60) DEF Plain, WriteFile, LookupFilename, DropFile, SaveRow, UndoWrite,
       DeleteRow, QueryRow,
           TouchRow, ReadFile, TotalItems, PickOldest, DropFiles, DeleteRows, At, Resetting
<1>2. op.name \notin {"all", "rebuild"}
    BY <1>1 DEF Base, Control
<1>3. UNCHANGED <<dataDir, trash, job, clock, next>>
    BY Zenon, ZenonT(60) DEF Plain, WriteFile, LookupFilename, DropFile, SaveRow, UndoWrite,
       DeleteRow, QueryRow,
           TouchRow, ReadFile, TotalItems, PickOldest, DropFiles, DeleteRows, disk, history
<1>4. conn' = conn \/ \E d \in Statement : conn' = d.conn
    BY Zenon, ZenonT(60) DEF Plain, WriteFile, LookupFilename, DropFile, SaveRow, UndoWrite,
       DeleteRow, QueryRow,
           TouchRow, ReadFile, TotalItems, PickOldest, DropFiles, DeleteRows, Db
<1>5. conn.state = "down" => conn'.state = "down"
    BY <1>4, StatementEffect DEF Base
<1> QED
    BY <1>1, <1>2, <1>3, <1>5

\* A call begins when nothing is under way and the storage is there.
LEMMA CallFrame ==
    ASSUME Call
    PROVE  /\ op = NoOp /\ conn.state # "down"
           /\ UNCHANGED <<rows, table, files, dataDir, trash, job, clock, floor>>
BY Zenon, ZenonT(60) DEF Call, SaveItem, RemoveItem, GetItem, RemoveItemsToFit, RemoveItems, RemoveAllItems,
       Ready, disk, history

LEMMA TrashStep ==
    ASSUME Base, TrashIsScheduled, [Next]_vars
    PROVE  TrashIsScheduled'
<1>1. CASE Call
    BY <1>1, CallFrame, NothingUnderWay DEF TrashIsScheduled
<1>2. CASE Plain
    BY <1>2, PlainFrame DEF TrashIsScheduled
<1>3. CASE UnlinkDb \/ MoveToTrash \/ MakeDataDir
    <2>1. op \in Op /\ op.pc \in Resetting
        BY <1>3, Zenon, ZenonT(60) DEF Base, TypeOK, UnlinkDb, MoveToTrash, MakeDataDir, At, Resetting
    <2>2. op'.name = op.name
        BY <1>3, <2>1, GotoMoves, Zenon, ZenonT(60)
        DEF UnlinkDb, MoveToTrash, MakeDataDir, Places, SameOp
    <2> QED
        BY <2>1, <2>2 DEF Base, Control, TrashIsScheduled
<1>4. CASE Reopen
    <2>1. job'.waiting = TRUE
        BY <1>4 DEF Base, TypeOK, Reopen
    <2> QED
        BY <2>1 DEF TrashIsScheduled
<1>5. CASE ListTrash
    <2>1. trash' = trash /\ job'.listed = trash /\ trash \in Nat
        BY <1>5 DEF Base, TypeOK, ListTrash, disk
    <2> QED
        BY <2>1 DEF TrashIsScheduled
<1>6. CASE EmptyTrash
    <2>1. /\ job'.listed = 0 /\ job'.waiting = job.waiting /\ trash' = trash - job.listed
          /\ trash \in Nat /\ job.listed \in Nat
        BY <1>6 DEF Base, TypeOK, EmptyTrash
    <2>2. UNCHANGED <<op, conn>>
        BY <1>6 DEF EmptyTrash
    <2> QED
        BY <2>1, <2>2 DEF TrashIsScheduled
<1>7. CASE Crash
    BY <1>7 DEF Crash, TrashIsScheduled
<1>8. CASE Restart
    <2>1. CASE job' = [job EXCEPT !.waiting = TRUE]
        BY <2>1 DEF Base, TypeOK, TrashIsScheduled
    <2>2. CASE op' = [NoOp EXCEPT !.name = "rebuild", !.pc = "unlink"]
        BY <2>2 DEF NoOp, TrashIsScheduled
    <2> QED
        BY <1>8, <2>1, <2>2 DEF Restart
<1>9. CASE CoolDown
    <2>1. conn'.state = conn.state
        BY <1>9 DEF Base, TypeOK, Conn, CoolDown
    <2> QED
        BY <1>9, <2>1 DEF CoolDown, TrashIsScheduled, disk
<1>10. CASE Tick \/ UNCHANGED vars
    BY <1>10 DEF Tick, vars, disk, TrashIsScheduled
<1> QED
    BY NextCases, <1>1, <1>2, <1>3, <1>4, <1>5, <1>6, <1>7, <1>8, <1>9, <1>10

\* No directory is forgotten in the trash: whatever calls fail and whenever the
\* process dies, a block of _trashQueue is there or will be to delete it.
THEOREM TrashAlwaysScheduled == Spec => []TrashIsScheduled
<1>1. Init => TrashIsScheduled
    BY DEF Init, TrashIsScheduled
<1>2. Base /\ TrashIsScheduled /\ [Next]_vars => TrashIsScheduled'
    BY TrashStep
<1> QED
    BY <1>1, <1>2, BaseAlways, PTL DEF Spec

-------------------------------------------------------------------------------
(* What has been saved stays. *)

LEMMA ReturnReleased == Return => Released'
BY NothingUnderWay, StorageAssumption DEF Return, Released, Resetting

\* Promises may be withdrawn.
LEMMA WithdrawInPlace ==
    ASSUME InPlace, UNCHANGED <<rows, files>>,
           \A k \in Key : acked'[k] = acked[k] \/ acked'[k] = Nil
    PROVE  InPlace'
BY DEF InPlace

\* The file of a key that nothing is promised for may change.
LEMMA FileInPlace ==
    ASSUME TypeOK, InPlace, UNCHANGED <<rows, acked>>,
           NEW k \in Key, acked[k] = Nil,
           NEW v, files' = files \/ files' = [files EXCEPT ![k] = v]
    PROVE  InPlace'
<1>1. \A j \in Key : j # k => files'[j] = files[j]
    BY DEF TypeOK
<1> QED
    BY <1>1 DEF InPlace

LEMMA CallDurable ==
    ASSUME Base, Durable, Call
    PROVE  Durable'
<1>1. UNCHANGED <<rows, files>>
    BY CallFrame
<1> DEFINE Withdrawn == \A k \in Key : acked'[k] = acked[k] \/ acked'[k] = Nil
<1>2. ASSUME NEW k \in Key, NEW size \in Size, NEW inFile \in BOOLEAN,
             SaveItem(k, size, inFile)
      PROVE  Withdrawn /\ Released'
    <2>1. op'.key = k /\ op'.keys = {} /\ op'.pc \in {"write", "lookup", "row"}
        BY <1>2 DEF SaveItem, NoOp
    <2>2. acked' = Untouched({k})
        BY <1>2 DEF SaveItem
    <2> QED
        BY <2>1, <2>2 DEF Untouched, Released, Resetting
<1>3. ASSUME NEW k \in Key, RemoveItem(k)
      PROVE  Withdrawn /\ Released'
    <2>1. op'.key = k /\ op'.keys = {} /\ op'.pc \in {"lookup", "row"}
        BY <1>3 DEF RemoveItem, NoOp
    <2>2. acked' = Untouched({k})
        BY <1>3 DEF RemoveItem
    <2> QED
        BY <2>1, <2>2 DEF Untouched, Released, Resetting
<1>4. ASSUME NEW k \in Key, NEW name \in {"get", "value"}, GetItem(k, name)
      PROVE  Withdrawn /\ Released'
    <2>1. op'.keys = {} /\ op'.pc = "query"
        BY <1>4 DEF GetItem, NoOp
    <2>2. acked' = acked
        BY <1>4 DEF GetItem, history
    <2> QED
        BY <2>1, <2>2 DEF Released, Resetting
<1>5. ASSUME NEW name \in {"fitSize", "fitCount"}, NEW limit \in Limit,
             RemoveItemsToFit(name, limit)
      PROVE  Withdrawn /\ Released'
    <2>1. op'.keys = {} /\ op'.pc = "total"
        BY <1>5 DEF RemoveItemsToFit, NoOp
    <2>2. acked' = acked
        BY <1>5 DEF RemoveItemsToFit, history
    <2> QED
        BY <2>1, <2>2 DEF Released, Resetting
<1>6. ASSUME NEW name, NEW keys \in SUBSET Key, RemoveItems(name, keys)
      PROVE  Withdrawn /\ Released'
    <2>1. op'.key = Nil /\ op'.keys = keys /\ op'.pc \in {"lookup", "rows"}
        BY <1>6 DEF RemoveItems, NoOp
    <2>2. acked' = Untouched(keys)
        BY <1>6 DEF RemoveItems
    <2> QED
        BY <2>1, <2>2, StorageAssumption DEF Untouched, Released, Resetting
<1>7. ASSUME RemoveAllItems
      PROVE  Withdrawn /\ Released'
    <2>1. op'.keys = {} /\ op'.pc = "unlink"
        BY <1>7 DEF RemoveAllItems, NoOp
    <2>2. acked' = Untouched(Key)
        BY <1>7 DEF RemoveAllItems
    <2> QED
        BY <2>1, <2>2 DEF Untouched, Released, Resetting
<1>8. Withdrawn /\ Released'
    <2> HIDE DEF Withdrawn
    <2> QED
        BY <1>2, <1>3, <1>4, <1>5, <1>6, <1>7, Zenon, ZenonT(60) DEF Call, Stored
<1> QED
    BY <1>1, <1>8, WithdrawInPlace DEF Durable

\* The steps that touch one file: it belongs to a key nothing is promised for.
LEMMA FileStepDurable ==
    ASSUME Base, Durable, WriteFile \/ DropFile \/ UndoWrite \/ DropFiles
    PROVE  Durable'
<1>1. op \in Op /\ UNCHANGED <<rows, acked>>
    BY Zenon, ZenonT(60) DEF Base, TypeOK, WriteFile, DropFile, UndoWrite, DropFiles, history
<1>2. CASE WriteFile \/ DropFile \/ UndoWrite
    <2>1. /\ op.pc \in {"write", "drop", "undo"} /\ op.key \in Key
          /\ acked[op.key] = Nil
        BY <1>2 DEF Base, Control, Durable, Released, WriteFile, DropFile, UndoWrite, At
    <2>2. \E v : files' = files \/ files' = [files EXCEPT ![op.key] = v]
        BY <1>2 DEF WriteFile, DropFile, UndoWrite, DeleteFile
    <2>3. InPlace'
        BY <2>1, <2>2, <1>1, FileInPlace DEF Base, Durable
    <2>4. CASE Return
        BY <2>3, <2>4, ReturnReleased DEF Durable
    <2>5. CASE Goto("row")
        <3>1. op'.pc = "row" /\ op'.key = op.key /\ op'.keys = op.keys
            BY <2>5, <1>1, GotoMoves DEF Places, SameOp
        <3>2. Released'
            BY <3>1, <2>1, <1>1 DEF Durable, Released, Resetting
        <3> QED
            BY <3>2, <2>3 DEF Durable
    <2> QED
        BY <1>2, <2>4, <2>5 DEF WriteFile, DropFile, UndoWrite
<1>3. CASE DropFiles
    <2>1. PICK k \in op.named :
            /\ DeleteFile(k)
            /\ op' = [op EXCEPT !.named = op.named \ {k}, !.pc = AfterFiles(op.named \ {k})]
        BY <1>1, <1>3, Zenon, ZenonT(60) DEF DropFiles, Op
    <2>2. k \in Key /\ acked[k] = Nil
        BY <2>1, <1>1 DEF Base, Control, Durable, Released, Op
    <2>3. \E v : files' = files \/ files' = [files EXCEPT ![k] = v]
        BY <2>1 DEF DeleteFile
    <2>4. InPlace'
        BY <2>2, <2>3, <1>1, FileInPlace DEF Base, Durable
    <2>5. op'.pc \in {"rows", "files"} /\ op'.keys = op.keys
        BY <2>1, <1>1 DEF Op, AfterFiles
    <2>6. Released'
        BY <2>5, <1>1 DEF Durable, Released, Resetting
    <2> QED
        BY <2>4, <2>6 DEF Durable
<1> QED
    BY <1>2, <1>3

LEMMA SaveRowDurable ==
    ASSUME Base, Durable, SaveRow
    PROVE  Durable'
<1>1. /\ op \in Op /\ op.pc = "row" /\ op.name = "save" /\ op.key \in Key
      /\ op.ver \in Ver /\ op.size \in Size /\ acked[op.key] = Nil
      /\ op.file => files[op.key] = op.ver
    BY DEF Base, TypeOK, Control, Durable, Released, SaveRow, At
<1>2. NewRow \in Row /\ NewRow.file = op.file /\ NewRow.ver = op.ver
    BY <1>1, Zenon, ZenonT(60) DEF NewRow, Row, Op, Base, TypeOK
<1>3. files' = files
    BY DEF SaveRow
<1>4. CASE /\ rows' = [rows EXCEPT ![op.key] = NewRow]
           /\ acked' = [acked EXCEPT ![op.key] = op.ver]
           /\ Return
    <2>1. /\ rows'[op.key] = NewRow /\ acked'[op.key] = op.ver
          /\ \A k \in Key : k # op.key => rows'[k] = rows[k] /\ acked'[k] = acked[k]
        BY <1>4, <1>1 DEF Base, TypeOK
    <2>2. NewRow # Nil
        BY <1>2, RowAssumption
    <2>3. InPlace'
        BY <2>1, <2>2, <1>1, <1>2, <1>3 DEF Durable, InPlace
    <2> QED
        BY <2>3, <1>4, ReturnReleased DEF Durable
<1>5. CASE (IF op.file THEN Goto("undo") ELSE Return) /\ UNCHANGED <<rows, acked, floor>>
    <2>1. InPlace'
        BY <1>5, <1>3, WithdrawInPlace DEF Durable
    <2>2. CASE Return
        BY <2>1, <2>2, ReturnReleased DEF Durable
    <2>3. CASE Goto("undo")
        <3>1. op'.pc = "undo" /\ op'.key = op.key /\ op'.keys = op.keys
            BY <2>3, <1>1, GotoMoves DEF Places, SameOp
        <3>2. Released'
            BY <3>1, <1>1, <1>5 DEF Durable, Released, Resetting
        <3> QED
            BY <3>2, <2>1 DEF Durable
    <2> QED
        BY <1>5, <2>2, <2>3
<1> QED
    BY <1>4, <1>5 DEF SaveRow, NewRow

\* The steps that delete rows: nothing is promised for them.
LEMMA DeleteDurable ==
    ASSUME Base, Durable, DeleteRow \/ DeleteRows
    PROVE  Durable'
<1>1. UNCHANGED <<files, acked>> /\ op \in Op
    BY DEF DeleteRow, DeleteRows, Base, TypeOK
<1>2. CASE DeleteRow
    <2>1. op.key \in Key /\ acked[op.key] = Nil
        BY <1>2 DEF Base, Control, Durable, Released, DeleteRow, At
    <2>2. \A k \in Key : k # op.key => rows'[k] = rows[k]
        BY <1>2 DEF Base, TypeOK, DeleteRow
    <2>3. InPlace'
        BY <2>1, <2>2, <1>1 DEF Durable, InPlace
    <2>4. CASE Return
        BY <2>3, <2>4, ReturnReleased DEF Durable
    <2>5. CASE op' = [NoOp EXCEPT !.name = op.name, !.limit = op.limit,
                                  !.total = Left, !.pc = "pick"]
        <3>1. op'.pc = "pick" /\ op'.keys = {}
            BY <2>5 DEF NoOp
        <3> QED
            BY <3>1, <2>3 DEF Durable, Released, Resetting
    <2> QED
        BY <1>2, <2>4, <2>5 DEF DeleteRow, Left
<1>3. CASE DeleteRows
    <2>1. \A k \in Key : k \notin op.keys => rows'[k] = rows[k]
        BY <1>3 DEF DeleteRows
    <2>2. InPlace'
        BY <2>1, <1>1 DEF Durable, InPlace, Released
    <2> QED
        BY <2>2, <1>3, ReturnReleased DEF Durable, DeleteRows
<1> QED
    BY <1>2, <1>3

\* The steps that only look.
LEMMA LookDurable ==
    ASSUME Base, Durable, LookupFilename \/ QueryRow \/ TotalItems
    PROVE  Durable'
<1>1. UNCHANGED <<rows, files, acked>> /\ op \in Op
    BY Zenon, ZenonT(60) DEF LookupFilename, QueryRow, TotalItems, history, Base, TypeOK
<1>2. InPlace'
    BY <1>1, WithdrawInPlace DEF Durable
<1>3. CASE Return
    BY <1>2, <1>3, ReturnReleased DEF Durable
<1>4. CASE LookupFilename
    <2>1. op.pc = "lookup" /\ op'.key = op.key /\ op'.keys = op.keys
        BY <1>4, <1>1, Zenon, ZenonT(60) DEF LookupFilename, At, Op
    <2>2. op'.pc \in {"rows", "files", "drop", "row"}
        BY <1>4, <1>1, Zenon, ZenonT(60) DEF LookupFilename, AfterFiles, Op
    <2> QED
        BY <2>1, <2>2, <1>1, <1>2 DEF Durable, Released, Resetting
<1>5. CASE QueryRow /\ ~Return
    <2>1. op'.pc \in {"touch", "read"} /\ op'.key = op.key /\ op'.keys = op.keys
        BY <1>5, <1>1, GotoMoves DEF QueryRow, SameOp, Places
    <2> QED
        BY <2>1, <1>1, <1>2 DEF Durable, Released, Resetting
<1>6. CASE TotalItems /\ ~Return
    <2>1. op'.pc = "pick" /\ op'.keys = op.keys
        BY <1>6, <1>1, Zenon, ZenonT(60) DEF TotalItems, Op
    <2> QED
        BY <2>1, <1>1, <1>2 DEF Durable, Released, Resetting
<1> QED
    BY <1>3, <1>4, <1>5, <1>6

LEMMA TouchDurable ==
    ASSUME Base, Durable, TouchRow
    PROVE  Durable'
<1>1. op \in Op /\ op.pc = "touch" /\ op.key \in Key /\ rows[op.key] # Nil
    BY DEF Base, TypeOK, Control, TouchRow, At
<1>2. UNCHANGED <<files, acked>>
    BY DEF TouchRow, history
<1>3. InPlace'
    BY <1>1, <1>2, TouchEffect DEF Base, Durable, InPlace
<1>4. CASE Return
    BY <1>3, <1>4, ReturnReleased DEF Durable
<1>5. CASE Goto("read")
    <2>1. op'.pc = "read" /\ op'.keys = op.keys
        BY <1>5, <1>1, GotoMoves DEF SameOp, Places
    <2> QED
        BY <2>1, <1>2, <1>3 DEF Durable, Released, Resetting
<1> QED
    BY <1>4, <1>5 DEF TouchRow

LEMMA ReadPickDurable ==
    ASSUME Base, Durable, ReadFile \/ PickOldest
    PROVE  Durable'
<1>1. UNCHANGED <<rows, files>> /\ op \in Op
    BY Zenon, ZenonT(60) DEF ReadFile, PickOldest, disk, Base, TypeOK
<1>2. \A k \in Key : acked'[k] = acked[k] \/ acked'[k] = Nil
    BY Zenon, ZenonT(60) DEF ReadFile, PickOldest, Untouched
<1>3. InPlace'
    BY <1>1, <1>2, WithdrawInPlace DEF Durable
<1>4. CASE Return
    BY <1>3, <1>4, ReturnReleased DEF Durable
<1>5. CASE ReadFile /\ Goto("touch")
    <2>1. op'.pc = "touch" /\ op'.keys = op.keys
        BY <1>5, <1>1, GotoMoves DEF SameOp, Places
    <2>2. op.keys \subseteq Key
        BY <1>1 DEF Op
    <2> QED
        BY <2>1, <2>2, <1>2, <1>3 DEF Durable, Released, Resetting
<1>6. CASE ReadFile /\ Goto("row") /\ acked' = Untouched({op.key})
    <2>1. op'.pc = "row" /\ op'.key = op.key /\ op'.keys = op.keys
        BY <1>6, <1>1, GotoMoves DEF SameOp, Places
    <2>2. op.keys \subseteq Key
        BY <1>1 DEF Op
    <2> QED
        BY <2>1, <2>2, <1>3, <1>6 DEF Durable, Released, Resetting, Untouched
<1>7. ASSUME NEW k \in Key, acked' = Untouched({k}),
             op' = [op EXCEPT !.key = k, !.size = rows[k].size,
                       !.pc = IF rows[k].file THEN "drop" ELSE "row"]
      PROVE  Durable'
    <2>1. op'.pc \in {"drop", "row"} /\ op'.key = k /\ op'.keys = op.keys
        BY <1>7, <1>1 DEF Op
    <2>2. op.keys \subseteq Key
        BY <1>1 DEF Op
    <2> QED
        BY <2>1, <2>2, <1>3, <1>7 DEF Durable, Released, Resetting, Untouched
<1> QED
    BY <1>4, <1>5, <1>6, <1>7, Zenon, ZenonT(60) DEF ReadFile, PickOldest

\* While the storage starts over nothing is promised.
LEMMA ResetDurable ==
    ASSUME Base, Durable, UnlinkDb \/ MoveToTrash \/ MakeDataDir \/ Reopen
    PROVE  Durable'
<1>1. op \in Op /\ op.pc \in Resetting /\ acked' = acked
    BY Zenon, ZenonT(60) DEF Base, TypeOK, UnlinkDb, MoveToTrash, MakeDataDir, Reopen, At, Resetting, history
<1>2. \A k \in Key : acked'[k] = Nil
    BY <1>1 DEF Durable, Released
<1>3. InPlace'
    BY <1>2 DEF InPlace
<1>4. CASE Reopen
    BY <1>3, <1>4, ReturnReleased DEF Durable, Reopen
<1>5. CASE UnlinkDb \/ MoveToTrash \/ MakeDataDir
    <2>1. op'.key = op.key /\ op'.keys \subseteq Key
        BY <1>1, <1>5, GotoMoves, Zenon, ZenonT(60)
        DEF UnlinkDb, MoveToTrash, MakeDataDir, Places, SameOp, Op
    <2> QED
        BY <2>1, <1>2, <1>3 DEF Durable, Released
<1> QED
    BY <1>4, <1>5

LEMMA ProcessDurable ==
    ASSUME Base, Durable, Crash \/ Restart
    PROVE  Durable'
<1>1. CASE Crash
    <2>1. UNCHANGED <<rows, acked>>
        BY <1>1 DEF Crash, history
    <2>2. InPlace'
        <3>1. CASE files' = files
            BY <3>1, <2>1, WithdrawInPlace DEF Durable
        <3>2. CASE At("write") /\ files' = [files EXCEPT ![op.key] = Torn]
            <4>1. op.key \in Key /\ acked[op.key] = Nil
                BY <3>2 DEF Base, Control, Durable, Released, At
            <4> QED
                BY <3>2, <4>1, <2>1, FileInPlace, Zenon, ZenonT(60) DEF Base, Durable
        <3> QED
            BY <1>1, <3>1, <3>2 DEF Crash
    <2> QED
        BY <2>2, <1>1, ReturnReleased DEF Durable, Crash
<1>2. CASE Restart
    <2>1. UNCHANGED <<rows, files>>
        BY <1>2 DEF Restart
    <2>2. CASE UNCHANGED <<op, acked>>
        BY <2>1, <2>2 DEF Durable, InPlace, Released
    <2>3. CASE /\ op' = [NoOp EXCEPT !.name = "rebuild", !.pc = "unlink"]
               /\ acked' = Untouched(Key)
        <3>1. op'.keys = {}
            BY <2>3 DEF NoOp
        <3>2. \A k \in Key : acked'[k] = Nil
            BY <2>3 DEF Untouched
        <3> QED
            BY <3>1, <3>2 DEF Durable, InPlace, Released
    <2> QED
        BY <1>2, <2>2, <2>3 DEF Restart
<1> QED
    BY <1>1, <1>2

LEMMA DurableStep ==
    ASSUME Base, Durable, [Next]_vars
    PROVE  Durable'
<1>1. CASE Plain
    BY <1>1, FileStepDurable, SaveRowDurable, DeleteDurable, LookDurable, TouchDurable,
       ReadPickDurable DEF Plain
<1>2. CASE ListTrash \/ EmptyTrash \/ CoolDown \/ Tick \/ UNCHANGED vars
    <2>1. UNCHANGED <<rows, files, op, acked>>
        BY <1>2 DEF ListTrash, EmptyTrash, CoolDown, Tick, vars, disk, history
    <2> QED
        BY <2>1 DEF Durable, InPlace, Released
<1> QED
    BY NextCases, <1>1, <1>2, CallDurable, ResetDurable, ProcessDurable

\* Once a save has answered YES the item is there until something is done about
\* that key, whatever other calls fail and whenever the process dies.  Except
\* when the database does not open at a launch: initWithPath:type: then wipes the
\* store, and what was acknowledged before counts no more.
THEOREM AckedAlwaysDurable == Spec => []AckedDurable
<1>1. Init => Durable
    <2> SUFFICES ASSUME Init PROVE Durable
        OBVIOUS
    <2>1. op.pc = "idle" /\ op.keys = {}
        BY NothingUnderWay DEF Init
    <2>2. \A k \in Key : acked[k] = Nil
        BY DEF Init
    <2> QED
        BY <2>1, <2>2 DEF Durable, InPlace, Released, Resetting
<1>2. Base /\ Durable /\ [Next]_vars => Durable'
    BY DurableStep
<1>3. Base /\ Durable => AckedDurable
    <2> SUFFICES ASSUME Base, Durable, NEW k \in Key, acked[k] # Nil
                 PROVE  Readable(k) = acked[k]
        BY DEF AckedDurable
    <2>1. /\ rows[k] # Nil /\ rows[k].ver = acked[k]
          /\ rows[k].file => files[k] = acked[k]
        BY DEF Durable, InPlace
    <2>2. k \in Stored
        BY <2>1 DEF Stored
    <2> QED
        BY <2>1, <2>2 DEF Readable
<1> QED
    BY <1>1, <1>2, <1>3, BaseAlways, PTL DEF Spec

-------------------------------------------------------------------------------
(* Nothing comes back. *)

LEMMA RangesKnown ==
    ASSUME TypeOK, NEW k \in Key
    PROVE  /\ floor[k] \in Nat /\ next \in Nat /\ MaxSaves \in Nat
           /\ rows[k] # Nil => rows[k] \in Row /\ rows[k].ver \in Nat
           /\ files[k] \in Nat \/ files[k] = Nil \/ files[k] = Torn
           /\ Nil \notin Nat /\ Torn \notin Nat
BY StorageAssumption DEF TypeOK, Row, Ver

\* The file of a key may go, or be broken, or be written by a later save.
LEMMA FileFresh ==
    ASSUME TypeOK, NEW k \in Key, FreshAt(k),
           rows'[k] = rows[k], floor'[k] = floor[k], next' = next \/ next' = next + 1,
           \/ files'[k] = files[k]
           \/ files'[k] \notin Nat
           \/ files'[k] = next - 1
    PROVE  FreshAt(k)'
<1>1. /\ floor[k] \in Nat /\ next \in Nat
      /\ rows[k] # Nil => rows[k].ver \in Nat
    BY RangesKnown
<1>2. rows[k] # Nil => rows[k].ver <= next - 1
    BY <1>1 DEF FreshAt
<1>3. floor'[k] <= next'
    BY <1>1 DEF FreshAt
<1>4. CASE rows[k] = Nil
    BY <1>3, <1>4 DEF FreshAt
<1>5. CASE rows[k] # Nil
    <2>1. floor'[k] <= rows'[k].ver /\ rows'[k].ver < next'
        BY <1>1, <1>5 DEF FreshAt
    <2>2. rows'[k].file /\ files'[k] \in Nat => rows'[k].ver <= files'[k]
        BY <1>1, <1>2, <1>5 DEF FreshAt
    <2> QED
        BY <1>3, <2>1, <2>2 DEF FreshAt
<1> QED
    BY <1>4, <1>5

\* A row may go, and its floor be raised.
LEMMA GoneFresh ==
    ASSUME TypeOK, NEW k \in Key, FreshAt(k),
           rows'[k] = Nil, floor'[k] = floor[k] \/ floor'[k] = next, next' = next
    PROVE  FreshAt(k)'
BY RangesKnown DEF FreshAt

\* The steps that are no part of a reset do not become one.
LEMMA PlainName ==
    ASSUME Base, Plain
    PROVE  op'.name \in {op.name, "none"}
<1>1. op \in Op
    BY DEF Base, TypeOK
<1>2. CASE Return
    BY <1>2, NothingUnderWay DEF Return
<1>3. CASE \E p \in Places : Goto(p)
    BY <1>1, <1>3, GotoMoves DEF SameOp
<1>4. CASE LookupFilename
    BY <1>1, <1>4 DEF LookupFilename, Op
<1>5. CASE DeleteRow \/ TotalItems \/ PickOldest \/ DropFiles
    BY <1>1, <1>2, <1>5, Zenon, ZenonT(60) DEF DeleteRow, TotalItems, PickOldest, DropFiles, NoOp, Op
<1> QED
    BY <1>2, <1>3, <1>4, <1>5
    DEF Plain, WriteFile, DropFile, SaveRow, UndoWrite, QueryRow, TouchRow, ReadFile,
        DeleteRows, Places

LEMMA PlainEmptied == Base /\ Plain => Emptied'
BY PlainName, PlainFrame DEF Emptied

\* Where the methods begin: a trim with its total, removeAllItems with the
\* database files.
LEMMA CallBegins ==
    ASSUME Call
    PROVE  /\ op'.name \in Fit => op'.pc = "total"
           /\ op'.name = "all" => op'.pc = "unlink"
           /\ Type # "SQLite" => op'.pc \in {"write", "lookup", "query", "total", "unlink"}
<1> DEFINE Begins == /\ op'.name \in Fit => op'.pc = "total"
                     /\ op'.name = "all" => op'.pc = "unlink"
                     /\ Type # "SQLite" =>
                           op'.pc \in {"write", "lookup", "query", "total", "unlink"}
<1>1. ASSUME NEW k, NEW size, NEW inFile, SaveItem(k, size, inFile) PROVE Begins
    BY <1>1 DEF SaveItem, NoOp, Fit
<1>2. ASSUME NEW k, RemoveItem(k) PROVE Begins
    BY <1>2 DEF RemoveItem, NoOp, Fit
<1>3. ASSUME NEW k, NEW name \in {"get", "value"}, GetItem(k, name) PROVE Begins
    BY <1>3 DEF GetItem, NoOp, Fit
<1>4. ASSUME NEW name \in {"fitSize", "fitCount"}, NEW limit, RemoveItemsToFit(name, limit) PROVE Begins
    BY <1>4 DEF RemoveItemsToFit, NoOp, Fit
<1>5. ASSUME NEW name \in {"keys", "where"}, NEW keys, RemoveItems(name, keys) PROVE Begins
    BY <1>5 DEF RemoveItems, NoOp, Fit
<1>6. ASSUME RemoveAllItems PROVE Begins
    BY <1>6 DEF RemoveAllItems, NoOp, Fit
<1> HIDE DEF Begins
<1>7. Begins
    BY <1>1, <1>2, <1>3, <1>4, <1>5, <1>6, Zenon, ZenonT(60) DEF Call
<1> QED
    BY <1>7 DEF Begins

LEMMA CallFresh ==
    ASSUME Base, Fresh, Call
    PROVE  Fresh'
<1>1. UNCHANGED <<rows, files, floor>> /\ (next' = next \/ next' = next + 1)
    BY CallFrame, Zenon, ZenonT(60)
    DEF Call, SaveItem, RemoveItem, GetItem, RemoveItemsToFit, RemoveItems, RemoveAllItems, history
<1>2. \A k \in Key : FreshAt(k)'
    BY <1>1, FileFresh DEF Base, Fresh
<1>3. op'.name = "all" => op'.pc = "unlink"
    BY CallBegins
<1> QED
    BY <1>2, <1>3 DEF Fresh, Emptied

LEMMA FileStepFresh ==
    ASSUME Base, Fresh, WriteFile \/ DropFile \/ UndoWrite \/ DropFiles \/ Crash
    PROVE  \A k \in Key : FreshAt(k)'
<1> SUFFICES ASSUME NEW k \in Key PROVE FreshAt(k)'
    OBVIOUS
<1>1. UNCHANGED <<rows, floor, next>>
    BY Zenon, ZenonT(60) DEF WriteFile, DropFile, UndoWrite, DropFiles, Crash, history
<1>2. op.pc = "write" => op.ver = next - 1
    BY DEF Base, Control
<1>3. \/ files'[k] = files[k]
      \/ files'[k] \notin Nat
      \/ files'[k] = next - 1
    BY <1>2, StorageAssumption, Zenon, ZenonT(60)
    DEF Base, TypeOK, WriteFile, DropFile, UndoWrite, DropFiles, DeleteFile, Crash, At
<1> QED
    BY <1>1, <1>3, FileFresh DEF Base, Fresh

LEMMA RowStepFresh ==
    ASSUME Base, Fresh, "busy" \notin Faults,
           SaveRow \/ DeleteRow \/ DeleteRows \/ TouchRow
    PROVE  \A k \in Key : FreshAt(k)'
<1> SUFFICES ASSUME NEW k \in Key PROVE FreshAt(k)'
    OBVIOUS
<1>1. files' = files /\ next' = next /\ op \in Op
    BY DEF SaveRow, DeleteRow, DeleteRows, TouchRow, history, Base, TypeOK
<1>2. TypeOK /\ FreshAt(k)
    BY DEF Base, Fresh
<1>3. CASE rows'[k] = rows[k] /\ floor'[k] = floor[k]
    BY <1>1, <1>2, <1>3, FileFresh
<1>4. CASE rows'[k] = Nil /\ (floor'[k] = floor[k] \/ floor'[k] = next)
    BY <1>1, <1>2, <1>4, GoneFresh
<1>5. CASE SaveRow
    <2>1. /\ op.key \in Key /\ op.ver = next - 1
          /\ op.file => files[op.key] = op.ver
        BY <1>5, Zenon, ZenonT(60) DEF Base, Control, SaveRow, At
    <2>2. NewRow.file = op.file /\ NewRow.ver = op.ver
        BY DEF NewRow
    <2>3. CASE k = op.key /\ rows'[k] = NewRow /\ floor'[k] = op.ver
        <3>1. op.ver \in Nat /\ next' = op.ver + 1
            <4>1. op.ver \in Nat
                <5>1. op.ver \in Ver \cup {0}
                    BY <1>1 DEF Op
                <5> QED
                    BY <5>1, StorageAssumption DEF Ver
            <4>2. next \in Nat
                BY <1>2, RangesKnown
            <4> QED
                BY <4>1, <4>2, <2>1, <1>1
        <3>2. rows'[k].ver = op.ver /\ (rows'[k].file => files'[k] = op.ver)
            BY <2>1, <2>2, <2>3, <1>1
        <3> QED
            BY <3>1, <3>2, <2>3 DEF FreshAt
    <2> QED
        BY <1>3, <1>5, <2>1, <2>3, Zenon, ZenonT(60) DEF SaveRow, NewRow, Base, TypeOK
<1>6. CASE DeleteRow
    <2>1. op.key \in Key
        BY <1>6 DEF Base, Control, DeleteRow, At
    <2> QED
        BY <1>3, <1>4, <1>6, <2>1 DEF DeleteRow, Base, TypeOK
<1>7. CASE DeleteRows
    BY <1>3, <1>4, <1>7 DEF DeleteRows, May
<1>8. CASE TouchRow
    <2>1. op.key \in Key /\ rows[op.key] # Nil
        BY <1>8 DEF Base, Control, TouchRow, At
    <2>2. /\ rows'[k] = Nil <=> rows[k] = Nil
          /\ rows[k] # Nil => rows'[k].file = rows[k].file /\ rows'[k].ver = rows[k].ver
        BY <1>2, <1>8, <2>1, TouchEffect
    <2>3. floor' = floor
        BY <1>8 DEF TouchRow, history
    <2> QED
        BY <1>1, <1>2, <2>2, <2>3 DEF FreshAt
<1> QED
    BY <1>5, <1>6, <1>7, <1>8

LEMMA ResetFresh ==
    ASSUME Base, Fresh, "unlink" \notin Faults,
           UnlinkDb \/ MoveToTrash \/ MakeDataDir \/ Reopen
    PROVE  Fresh'
<1>1. next' = next /\ TypeOK /\ op \in Op /\ \A k \in Key : FreshAt(k)
    BY Zenon, ZenonT(60) DEF UnlinkDb, MoveToTrash, MakeDataDir, Reopen, history, Base, Fresh, TypeOK
<1>2. CASE UnlinkDb
    <2>1. rows' = NoRows /\ floor' = floor
        BY <1>2 DEF UnlinkDb, May, history
    <2>2. \A k \in Key : FreshAt(k)'
        BY <2>1, <1>1, GoneFresh DEF NoRows
    <2> QED
        BY <2>1, <2>2 DEF Fresh, Emptied
<1>3. CASE MoveToTrash \/ MakeDataDir
    <2>1. /\ UNCHANGED <<rows, floor>> /\ op.pc # "unlink"
          /\ \A k \in Key : files'[k] = files[k] \/ files'[k] = Nil
        BY <1>3 DEF MoveToTrash, MakeDataDir, history, At
    <2>2. \A k \in Key : FreshAt(k)'
        BY <2>1, <1>1, FileFresh, StorageAssumption
    <2>3. op'.name = op.name
        BY <1>1, <1>3, GotoMoves DEF MoveToTrash, MakeDataDir, Places, SameOp
    <2> QED
        BY <2>1, <2>2, <2>3 DEF Fresh, Emptied
<1>4. CASE Reopen
    <2>1. UNCHANGED <<rows, files>> /\ op' = NoOp /\ op.pc = "open"
        BY <1>4 DEF Reopen, At, Return
    <2>2. floor' = floor \/ (rows = NoRows /\ floor' = [k \in Key |-> next])
        BY <1>4, <2>1 DEF Reopen, Fresh, Emptied
    <2>3. ASSUME NEW k \in Key PROVE FreshAt(k)'
        BY <2>1, <2>2, <1>1, FileFresh, GoneFresh DEF NoRows
    <2> QED
        BY <2>1, <2>3, NothingUnderWay DEF Fresh, Emptied
<1> QED
    BY <1>2, <1>3, <1>4

LEMMA FreshStep ==
    ASSUME Base, Fresh, [Next]_vars, "busy" \notin Faults, "unlink" \notin Faults
    PROVE  Fresh'
<1>1. CASE WriteFile \/ DropFile \/ UndoWrite \/ DropFiles
    BY <1>1, FileStepFresh, PlainEmptied DEF Plain, Fresh
<1>2. CASE SaveRow \/ DeleteRow \/ DeleteRows \/ TouchRow
    BY <1>2, RowStepFresh, PlainEmptied DEF Plain, Fresh
<1>3. ASSUME UNCHANGED <<rows, files, floor, next>> PROVE \A k \in Key : FreshAt(k)'
    BY <1>3, FileFresh DEF Base, Fresh
<1>4. CASE LookupFilename \/ QueryRow \/ ReadFile \/ TotalItems \/ PickOldest
    <2>1. UNCHANGED <<rows, files, floor, next>>
        BY <1>4, Zenon, ZenonT(60) DEF LookupFilename, QueryRow, ReadFile, TotalItems,
           PickOldest, disk, history
    <2> QED
        BY <2>1, <1>3, <1>4, PlainEmptied DEF Plain, Fresh
<1>5. CASE ListTrash \/ EmptyTrash \/ CoolDown \/ Tick \/ UNCHANGED vars
    <2>1. UNCHANGED <<rows, files, floor, next, op>>
        BY <1>5 DEF ListTrash, EmptyTrash, CoolDown, Tick, vars, disk, history
    <2> QED
        BY <2>1, <1>3 DEF Fresh, Emptied
<1>6. CASE Crash
    BY <1>6, FileStepFresh, NothingUnderWay DEF Fresh, Emptied, Crash, Return
<1>7. CASE Restart
    <2>1. UNCHANGED <<rows, files, floor, next>>
        BY <1>7 DEF Restart
    <2>2. op' = op \/ op'.name = "rebuild"
        BY <1>7, Zenon, ZenonT(60) DEF Restart, NoOp
    <2> QED
        BY <2>1, <2>2, <1>3 DEF Fresh, Emptied
<1> QED
    BY NextCases, <1>1, <1>2, <1>4, <1>5, <1>6, <1>7, CallFresh, ResetFresh DEF Plain

\* Once a save or a removal has answered YES, what it replaced or removed is never
\* read again, whatever calls fail and whenever the process dies, as long as the
\* two calls whose failure goes unnoticed succeed: the statement of
\* _dbDeleteItemWithKeys: and the removal of the database files by _reset.
THEOREM NeverStale ==
    ASSUME "busy" \notin Faults, "unlink" \notin Faults
    PROVE  Spec => []NoStaleRead
<1>1. Init => Fresh
    BY NothingUnderWay DEF Init, Fresh, FreshAt, Emptied, NoRows
<1>2. Base /\ Fresh /\ [Next]_vars => Fresh'
    BY FreshStep
<1>3. Base /\ Fresh => NoStaleRead
    <2> SUFFICES ASSUME Base, Fresh, NEW k \in Key, Readable(k) \in Nat
                 PROVE  Readable(k) >= floor[k]
        BY DEF NoStaleRead
    <2>1. k \in Stored
        BY StorageAssumption DEF Readable
    <2>2. rows[k] # Nil /\ FreshAt(k) /\ rows[k].ver \in Nat /\ floor[k] \in Nat
        BY <2>1, RangesKnown DEF Stored, Fresh, Base
    <2> QED
        BY <2>1, <2>2 DEF Readable, FreshAt
<1> QED
    BY <1>1, <1>2, <1>3, BaseAlways, PTL DEF Spec

-------------------------------------------------------------------------------
(* The storage implements ItemStore. *)

\* What a read finds, and the key that is being saved.
Reads == [k \in Key |-> Readable(k)]
Saving == IF op.name = "save" THEN op.key ELSE Nil

\* A save is at one of its own steps.
SavePlace == op.name = "save" => op.pc \in {"write", "lookup", "drop", "row", "undo"}

LEMMA SavingKey ==
    ASSUME Base, SavePlace
    PROVE  /\ op.name = "save" => op.key \in Key /\ op.key # Nil
           /\ Saving = Nil <=> op.name # "save"
<1>1. op.name = "save" => op.key \in Key
    BY DEF Base, Control, SavePlace, Several
<1> QED
    BY <1>1, StorageAssumption DEF Saving

\* The steps that are no part of a reset save nothing but what was being saved.
LEMMA PlainSaving ==
    ASSUME Base, SavePlace, Plain
    PROVE  SavePlace' /\ Saving' \in {Saving, Nil}
<1>1. op \in Op /\ op'.name \in {op.name, "none"}
    BY PlainName DEF Base, TypeOK
<1>2. CASE op.name # "save"
    BY <1>1, <1>2 DEF SavePlace, Saving
<1>3. CASE op' = NoOp
    BY <1>3, NothingUnderWay DEF SavePlace, Saving
<1>4. CASE op.name = "save" /\ op' # NoOp
    <2>1. WriteFile \/ LookupFilename \/ DropFile \/ SaveRow \/ UndoWrite
        BY <1>4, Zenon, ZenonT(60) DEF SavePlace, Plain, DeleteRow, QueryRow, TouchRow, ReadFile, TotalItems,
                    PickOldest, DropFiles, DeleteRows, At
    <2>2. CASE LookupFilename
        <3>1. \E p \in {"drop", "row"} : Goto(p)
            BY <1>4, <2>2 DEF LookupFilename, Goto
        <3>2. PICK p \in {"drop", "row"} : Goto(p)
            BY <3>1
        <3>3. op'.pc = p /\ op'.key = op.key /\ op'.name = op.name
            BY <1>1, <3>2, GotoMoves DEF Places, SameOp
        <3> QED
            BY <3>3 DEF SavePlace, Saving
    <2>3. CASE WriteFile \/ DropFile \/ SaveRow \/ UndoWrite
        <3>1. Goto("row") \/ Goto("undo")
            BY <1>4, <2>3, Zenon, ZenonT(60) DEF WriteFile, DropFile, SaveRow, UndoWrite, Return
        <3>2. op'.pc \in {"row", "undo"} /\ op'.key = op.key /\ op'.name = op.name
            BY <1>1, <3>1, GotoMoves DEF Places, SameOp
        <3> QED
            BY <3>2 DEF SavePlace, Saving
    <2> QED
        BY <2>1, <2>2, <2>3
<1> QED
    BY <1>2, <1>3, <1>4

\* Nor do the other steps, but a call.
LEMMA OtherSaving ==
    ASSUME Base, SavePlace,
           \/ UnlinkDb \/ MoveToTrash \/ MakeDataDir \/ Reopen \/ ListTrash \/ EmptyTrash
           \/ Crash \/ Restart \/ CoolDown \/ Tick \/ UNCHANGED vars
    PROVE  SavePlace' /\ Saving' \in {Saving, Nil}
<1>1. CASE op' = op
    BY <1>1 DEF SavePlace, Saving
<1>2. CASE op' = NoOp
    BY <1>2, NothingUnderWay DEF SavePlace, Saving
<1>3. CASE UnlinkDb \/ MoveToTrash \/ MakeDataDir
    <2>1. op \in Op /\ op.name # "save"
        BY <1>3, Zenon, ZenonT(60) DEF Base, TypeOK, Control, Resetting, UnlinkDb,
           MoveToTrash, MakeDataDir, At
    <2>2. op'.name = op.name
        BY <1>3, <2>1, GotoMoves, Zenon, ZenonT(60) DEF UnlinkDb, MoveToTrash, MakeDataDir, Places, SameOp
    <2> QED
        BY <2>1, <2>2 DEF SavePlace, Saving
<1>4. CASE Restart
    <2>1. op' = op \/ op'.name = "rebuild"
        BY <1>4, Zenon, ZenonT(60) DEF Restart, NoOp
    <2> QED
        BY <1>1, <2>1 DEF SavePlace, Saving
<1> QED
    BY <1>1, <1>2, <1>3, <1>4
    DEF Reopen, ListTrash, EmptyTrash, Crash, CoolDown, Tick, vars, Return

\* A save begins; any other call leaves the items alone.
LEMMA CallSaving ==
    ASSUME Base, Call
    PROVE  /\ SavePlace' /\ Saving = Nil
           /\ \/ \E k \in Key : Saving' = k /\ next' = next + 1
              \/ Saving' = Nil /\ next' = next
<1> DEFINE Begins == /\ SavePlace'
                     /\ \/ \E k \in Key : Saving' = k /\ next' = next + 1
                        \/ Saving' = Nil /\ next' = next
<1>1. ASSUME NEW k \in Key, NEW size, NEW inFile, SaveItem(k, size, inFile) PROVE Begins
    BY <1>1 DEF SaveItem, NoOp, SavePlace, Saving
<1>2. ASSUME NEW k, RemoveItem(k) PROVE Begins
    BY <1>2 DEF RemoveItem, NoOp, SavePlace, Saving
<1>3. ASSUME NEW k, NEW name \in {"get", "value"}, GetItem(k, name) PROVE Begins
    BY <1>3 DEF GetItem, NoOp, SavePlace, Saving, history
<1>4. ASSUME NEW name \in {"fitSize", "fitCount"}, NEW limit, RemoveItemsToFit(name, limit)
      PROVE  Begins
    BY <1>4 DEF RemoveItemsToFit, NoOp, SavePlace, Saving, history
<1>5. ASSUME NEW name \in {"keys", "where"}, NEW keys, RemoveItems(name, keys) PROVE Begins
    BY <1>5 DEF RemoveItems, NoOp, SavePlace, Saving
<1>6. ASSUME RemoveAllItems PROVE Begins
    BY <1>6 DEF RemoveAllItems, NoOp, SavePlace, Saving
<1> HIDE DEF Begins
<1>7. Begins
    BY <1>1, <1>2, <1>3, <1>4, <1>5, <1>6, Zenon, ZenonT(60) DEF Call
<1>8. Saving = Nil
    BY CallFrame, NothingUnderWay DEF Saving
<1> QED
    BY <1>7, <1>8 DEF Begins

LEMMA SavePlaceStep == Base /\ SavePlace /\ [Next]_vars => SavePlace'
BY NextCases, PlainSaving, OtherSaving, CallSaving

\* The steps of ItemStore, in the terms of the storage.
LEMMA StoreBegins ==
    ASSUME NEW k \in Key, Saving = Nil, Saving' = k, next \in Int, next' = next + 1, Reads' = Reads
    PROVE  Items!Next
<1>1. Items!Begin(k)
    BY DEF Items!Begin, Saving, Reads
<1> QED
    BY <1>1 DEF Items!Next

LEMMA StoreStores ==
    ASSUME Saving # Nil, Saving' \in {Saving, Nil}, next' = next,
           NEW item \in {next - 1, Torn}, Reads' = [Reads EXCEPT ![Saving] = item]
    PROVE  Items!Next
<1>1. Items!GoesOn
    BY DEF Items!GoesOn, Saving
<1>2. Items!Store
    BY <1>1, ZenonT(30), ZenonT(60) DEF Items!Store, Saving, Reads
<1> QED
    BY <1>2 DEF Items!Next

LEMMA StoreLoses ==
    ASSUME Saving' \in {Saving, Nil}, next' = next,
           NEW gone \in SUBSET Key, Saving # Nil => gone \subseteq {Saving},
           \A k \in Key : Readable(k)' = IF k \in gone THEN Nil ELSE Readable(k)
    PROVE  Items!Next
<1>1. Items!GoesOn
    BY DEF Items!GoesOn, Saving
<1>2. Items!Lose(gone)
    BY <1>1 DEF Items!Lose, Saving
<1> QED
    BY <1>2 DEF Items!Next

\* What a read finds depends on the row and the file of the key only.
LEMMA ReadableFrame ==
    ASSUME NEW k \in Key
    PROVE  /\ Readable(k) = IF rows[k] = Nil THEN Nil
                            ELSE IF rows[k].file THEN files[k] ELSE rows[k].ver
           /\ Readable(k)' = IF rows'[k] = Nil THEN Nil
                             ELSE IF rows'[k].file THEN files'[k] ELSE rows'[k].ver
BY DEF Readable, Stored

LEMMA SameReads ==
    ASSUME Saving' \in {Saving, Nil}, next' = next,
           \A k \in Key : Readable(k)' = Readable(k)
    PROVE  Items!Next
<1>1. \A k \in Key : Readable(k)' = IF k \in {} THEN Nil ELSE Readable(k)
    OBVIOUS
<1>2. {} \in SUBSET Key /\ {} \subseteq {Saving}
    OBVIOUS
<1> QED
    BY <1>1, <1>2, StoreLoses, Zenon, ZenonT(60)

\* Items are lost, of a save that is under way only its own.
LEMMA LostReads ==
    ASSUME Saving' \in {Saving, Nil}, next' = next,
           \A k \in Key : \/ Readable(k)' = Readable(k)
                          \/ Readable(k)' = Nil /\ (Saving # Nil => k = Saving)
    PROVE  Items!Next
<1> DEFINE gone == {k \in Key : Readable(k)' # Readable(k)}
<1>1. gone \in SUBSET Key /\ (Saving # Nil => gone \subseteq {Saving})
    OBVIOUS
<1>2. \A k \in Key : Readable(k)' = IF k \in gone THEN Nil ELSE Readable(k)
    OBVIOUS
<1> HIDE DEF gone
<1> QED
    BY <1>1, <1>2, StoreLoses

\* The item that is saved comes to light.
LEMMA NewRead ==
    ASSUME Base, SavePlace, op.name = "save", Saving' \in {Saving, Nil}, next' = next,
           NEW item \in {next - 1, Torn}, NEW key \in Key, key = op.key, Readable(key)' = item,
           \A k \in Key : k # key => Readable(k)' = Readable(k)
    PROVE  Items!Next
<1>1. Saving # Nil /\ Saving = key
    BY SavingKey DEF Saving
<1>2. Reads' = [k \in Key |-> Readable(k)']
    BY DEF Reads
<1>3. Reads' = [Reads EXCEPT ![Saving] = item]
    BY <1>1, <1>2, Zenon, ZenonT(60) DEF Reads
<1> QED
    BY <1>1, <1>3, StoreStores, Zenon, ZenonT(60)

\* _fileWriteWithName:, and a crash within it: the file comes to light at once if
\* the row of an older save names it.
LEMMA WriteStores ==
    ASSUME Base, SavePlace, WriteFile \/ Crash
    PROVE  Items!Next
<1>1. rows' = rows /\ next' = next /\ files \in [Key -> Ver \cup {Nil, Torn}]
    BY DEF WriteFile, Crash, history, Base, TypeOK
<1>2. Saving' \in {Saving, Nil}
    BY PlainSaving, OtherSaving DEF Plain
<1>3. CASE files' = files
    BY <1>1, <1>2, <1>3, ReadableFrame, SameReads
<1>4. CASE \E item \in {op.ver, Torn} : At("write") /\ files' = [files EXCEPT ![op.key] = item]
    <2>1. PICK item \in {op.ver, Torn} : files' = [files EXCEPT ![op.key] = item]
        BY <1>4, Zenon, ZenonT(60)
    <2>2. op.name = "save" /\ op.key \in Key /\ op.ver = next - 1
        BY <1>4, Zenon, ZenonT(60) DEF Base, Control, At
    <2>0. PICK key \in Key : key = op.key
        BY <2>2
    <2>3. \A k \in Key : k # key => Readable(k)' = Readable(k)
        BY <1>1, <2>0, <2>1, ReadableFrame
    <2>4. CASE rows[key] # Nil /\ rows[key].file
        <3>1. Readable(key)' = item
            BY <1>1, <2>0, <2>1, <2>4, ReadableFrame
        <3> QED
            BY <1>1, <1>2, <2>0, <2>1, <2>2, <2>3, <3>1, NewRead
    <2>5. CASE ~(rows[key] # Nil /\ rows[key].file)
        <3>1. Readable(key)' = Readable(key)
            BY <1>1, <2>5, ReadableFrame
        <3> QED
            BY <1>1, <1>2, <2>3, <3>1, SameReads
    <2> QED
        BY <2>4, <2>5
<1> QED
    BY <1>3, <1>4, Zenon, ZenonT(60) DEF WriteFile, Crash

\* _dbSaveWithKey: brings the save to light, whether it is in the row or in a file.
LEMMA SaveRowStores ==
    ASSUME Base, SavePlace, SaveRow
    PROVE  Items!Next
<1>1. /\ files' = files /\ next' = next /\ op.name = "save" /\ op.key \in Key
      /\ op.ver = next - 1 /\ (op.file => files[op.key] = op.ver)
    BY Zenon, ZenonT(60) DEF SaveRow, At, Base, Control
<1>2. Saving' \in {Saving, Nil}
    BY PlainSaving DEF Plain
<1>3. CASE rows' = rows
    BY <1>1, <1>2, <1>3, ReadableFrame, SameReads
<1>4. CASE rows' = [rows EXCEPT ![op.key] = NewRow]
    <2>1. rows \in [Key -> Row \cup {Nil}] /\ op \in Op /\ clock \in 0..MaxTime
        BY DEF Base, TypeOK
    <2>2. NewRow \in Row /\ NewRow.file = op.file /\ NewRow.ver = op.ver
        <3>1. op.ver \in Ver /\ op.size \in Size /\ op.file \in BOOLEAN
            BY <1>1, <2>1, Zenon, ZenonT(60) DEF Base, Control, Op
        <3> QED
            BY <2>1, <3>1 DEF NewRow, Row
    <2>3. NewRow # Nil
        BY <2>2, RowAssumption
    <2>4. rows'[op.key] = NewRow
        BY <1>1, <1>4, <2>1
    <2>5. PICK key \in Key : key = op.key
        BY <1>1
    <2>6. Readable(key)' = next - 1
        BY <1>1, <2>2, <2>3, <2>4, <2>5, ReadableFrame
    <2>7. \A k \in Key : k # key => Readable(k)' = Readable(k)
        BY <1>1, <1>4, <2>1, <2>5, ReadableFrame
    <2> QED
        BY <1>1, <1>2, <2>5, <2>6, <2>7, NewRead
<1> QED
    BY <1>3, <1>4, Zenon, ZenonT(60) DEF SaveRow, NewRow

\* A file that is deleted, and a reset of the data directory, lose items.
LEMMA FilesLost ==
    ASSUME Base, SavePlace, DropFile \/ UndoWrite \/ DropFiles \/ MoveToTrash
    PROVE  Items!Next
<1>1. rows' = rows /\ next' = next /\ files \in [Key -> Ver \cup {Nil, Torn}]
    BY Zenon, ZenonT(60) DEF DropFile, UndoWrite, DropFiles, MoveToTrash, history, Base, TypeOK
<1>2. Saving' \in {Saving, Nil}
    BY PlainSaving, OtherSaving DEF Plain
<1>3. \A k \in Key : files'[k] = files[k] \/ files'[k] = Nil
    BY <1>1, Zenon, ZenonT(60) DEF DropFile, UndoWrite, DropFiles, MoveToTrash, DeleteFile
<1>4. ASSUME Saving # Nil PROVE \A k \in Key : k # Saving => files'[k] = files[k]
    <2>1. op.name = "save" /\ Saving = op.key
        BY <1>4 DEF Saving
    <2>2. DropFile \/ UndoWrite
        BY <2>1, Zenon, ZenonT(60) DEF SavePlace, DropFiles, MoveToTrash, At
    <2> QED
        BY <1>1, <2>1, <2>2 DEF DropFile, UndoWrite, DeleteFile
<1>5. ASSUME NEW k \in Key, files'[k] = files[k] PROVE Readable(k)' = Readable(k)
    BY <1>1, <1>5, ReadableFrame
<1>6. ASSUME NEW k \in Key, files'[k] = Nil PROVE Readable(k)' \in {Readable(k), Nil}
    BY <1>1, <1>6, ReadableFrame
<1>7. \A k \in Key : \/ Readable(k)' = Readable(k)
                     \/ Readable(k)' = Nil /\ (Saving # Nil => k = Saving)
    BY <1>3, <1>4, <1>5, <1>6
<1> QED
    BY <1>1, <1>2, <1>7, LostReads

\* So do rows that are deleted, and a database that is removed.
LEMMA RowsLost ==
    ASSUME Base, SavePlace, DeleteRow \/ DeleteRows \/ UnlinkDb
    PROVE  Items!Next
<1>1. files' = files /\ next' = next /\ rows \in [Key -> Row \cup {Nil}]
    BY Zenon, ZenonT(60) DEF DeleteRow, DeleteRows, UnlinkDb, history, Base, TypeOK
<1>2. Saving' \in {Saving, Nil}
    BY PlainSaving, OtherSaving DEF Plain
<1>3. op.name # "save"
    BY Zenon, ZenonT(60) DEF DeleteRow, DeleteRows, UnlinkDb, SavePlace, At
<1>4. Saving = Nil
    BY <1>3 DEF Saving
<1>5. \A k \in Key : rows'[k] = rows[k] \/ rows'[k] = Nil
    BY <1>1, Zenon, ZenonT(60) DEF DeleteRow, DeleteRows, UnlinkDb, NoRows
<1>6. \A k \in Key : Readable(k)' \in {Readable(k), Nil}
    BY <1>1, <1>5, ReadableFrame
<1> QED
    BY <1>1, <1>2, <1>4, <1>6, LostReads

\* No other step changes what a read finds.
LEMMA OthersStutter ==
    ASSUME Base, SavePlace,
           \/ LookupFilename \/ QueryRow \/ TouchRow \/ ReadFile \/ TotalItems \/ PickOldest
           \/ MakeDataDir \/ Reopen \/ ListTrash \/ EmptyTrash \/ Restart \/ CoolDown \/ Tick
           \/ UNCHANGED vars
    PROVE  Items!Next
<1>1. files' = files /\ next' = next
    BY Zenon, ZenonT(60) DEF LookupFilename, QueryRow, TouchRow, ReadFile, TotalItems, PickOldest,
                 MakeDataDir, Reopen, ListTrash, EmptyTrash, Restart, CoolDown, Tick, vars,
                 disk, history
<1>2. Saving' \in {Saving, Nil}
    BY PlainSaving, OtherSaving DEF Plain
<1>3. CASE TouchRow
    <2>1. op.key \in Key /\ rows[op.key] # Nil
        BY <1>3 DEF Base, Control, TouchRow, At
    <2>2. ASSUME NEW k \in Key PROVE Readable(k)' = Readable(k)
        <3>1. /\ rows'[k] = Nil <=> rows[k] = Nil
              /\ rows[k] # Nil => rows'[k].file = rows[k].file /\ rows'[k].ver = rows[k].ver
            BY <1>3, <2>1, TouchEffect DEF Base
        <3> QED
            BY <1>1, <3>1, ReadableFrame
    <2> QED
        BY <1>1, <1>2, <2>2, SameReads
<1>4. CASE rows' = rows
    BY <1>1, <1>2, <1>4, ReadableFrame, SameReads
<1> QED
    BY <1>3, <1>4, Zenon, ZenonT(60) DEF LookupFilename, QueryRow, ReadFile, TotalItems, PickOldest,
                 MakeDataDir, Reopen, ListTrash, EmptyTrash, Restart, CoolDown, Tick, vars,
                 disk, history

LEMMA CallBeginsSave ==
    ASSUME Base, SavePlace, Call
    PROVE  Items!Next
<1>1. rows' = rows /\ files' = files
    BY CallFrame
<1>2. \A k \in Key : Readable(k)' = Readable(k)
    BY <1>1, ReadableFrame
<1>3. Reads' = Reads
    BY <1>2 DEF Reads
<1>4. next \in Int
    BY DEF Base, TypeOK
<1>5. CASE \E k \in Key : Saving' = k /\ next' = next + 1
    BY <1>3, <1>4, <1>5, CallSaving, StoreBegins
<1>6. CASE Saving' = Nil /\ next' = next
    BY <1>2, <1>6, SameReads
<1> QED
    BY <1>5, <1>6, CallSaving

\* Whatever calls fail, whichever type the storage has and wherever the process
\* dies, a read of a key finds what was found before, the save of that key that is
\* under way or a part of it, or nothing: what saveItemWithKey: replaced or left
\* behind, the remove methods, the trims and _reset never bring back.
THEOREM StoreImplemented == Spec => ImplementsStore
<1>1. Init => SavePlace /\ Items!Init
    <2>1. ASSUME Init PROVE op.name # "save" /\ next - 1 = 0 /\ \A k \in Key : Readable(k) = Nil
        BY <2>1, NothingUnderWay, ReadableFrame DEF Init, NoRows
    <2> QED
        BY <2>1 DEF SavePlace, Items!Init
<1>2. Base /\ SavePlace /\ [Next]_vars => Items!Next
    BY NextCases, CallBeginsSave, WriteStores, SaveRowStores, FilesLost, RowsLost, OthersStutter
    DEF Plain
<1>3. Base /\ SavePlace /\ [Next]_vars => [Items!Next]_(Items!vars)
    BY <1>2
<1> QED
    BY <1>1, <1>3, SavePlaceStep, BaseAlways, PTL DEF Spec, ImplementsStore, Items!Spec
===============================================================================
