------------------------ MODULE YYKVStorageTrimProofs ------------------------
(***************************************************************************)
(* More proofs about YYKVStorage: what holds without faults, and the       *)
(* trims.  Clean says which file and row may disagree until the method's   *)
(* next step; Trimming and Exact, what a trim has counted and which row it *)
(* has picked.                                                             *)
(***************************************************************************)
EXTENDS YYKVStorageProofs

\* A step that names no prover is tried with SMT, then with Zenon, then with
\* SMT again for longer.
USE SMTT(15), ZenonT(20), SMTT(60)

Agree(k) == files[k] = IF k \in Named THEN rows[k].ver ELSE Nil

\* Where file and row may differ until the step that comes next.
Pending(k) ==
    \/ op.pc = "row" /\ op.key = k
    \/ op.pc \in {"files", "rows"} /\ k \in op.keys
    \/ op.pc = "move"

\* Without faults the connection, the table and the directory are there, but for
\* the reset, and files and rows differ only where a method is about to mend it.
Healthy ==
    /\ op.name # "rebuild" /\ op.pc # "undo" /\ conn.state # "down"
    /\ op.name # "all" => conn.state = "open" /\ table
    /\ op.pc # "mkdir" => dataDir
    /\ op.pc \in {"move", "mkdir", "open"} => rows = NoRows
    /\ op.pc \in {"mkdir", "open"} => \A k \in Key : files[k] = Nil
Matched ==
    /\ \A k \in Key : Agree(k) \/ Pending(k)
    /\ op.pc = "row" =>
          files[op.key] = IF op.name = "save" /\ op.file THEN op.ver ELSE Nil
    /\ op.pc \in {"files", "rows"} => \A k \in op.keys : k \in op.named \/ files[k] = Nil
    /\ op.pc = "rows" => op.named = {}
Clean == Healthy /\ Matched

\* A trim knows no more than there is to trim, is still over its limit, and holds
\* the item that was used least recently, with its size.
Measure == IF op.name = "fitSize" THEN TotalSize ELSE Cardinality(Stored)
Trimming ==
    op.name \in Fit =>
        /\ op.pc \in {"total", "pick", "drop", "row"}
        /\ op.pc # "total" => op.limit < op.total /\ op.total <= Measure
        /\ op.pc \in {"drop", "row"} => Oldest(op.key) /\ op.size = rows[op.key].size
Exact == op.name \in Fit /\ op.pc # "total" => op.total = Measure

-------------------------------------------------------------------------------
(* Files and rows agree. *)

\* Without faults a statement succeeds.
LEMMA StatementSucceeds ==
    ASSUME Faults = {}, TypeOK, conn.state = "open", table, NEW d \in Statement
    PROVE  d.ok /\ d.conn = conn /\ d.table = table
<1>1. Answers = {TRUE}
    BY DEF Answers, May
<1>2. DbCheck = {[conn |-> conn, table |-> table, ok |-> conn.state = "open"]}
    BY Zenon, ZenonT(60) DEF DbCheck
<1>3. PICK c \in DbCheck, done \in Answers : d = [c EXCEPT !.ok = c.ok /\ c.table /\ done]
    BY DEF Statement
<1>4. c = [conn |-> conn, table |-> table, ok |-> conn.state = "open"] /\ done = TRUE
    BY <1>1, <1>2, <1>3
<1>5. c.ok = TRUE /\ c.table = table /\ c.conn = conn
    BY <1>4, Zenon, ZenonT(60)
<1> QED
    BY <1>3, <1>4, <1>5

LEMMA CallHealthy ==
    ASSUME Base, Healthy, Call
    PROVE  Healthy'
<1>1. /\ conn.state = "open" /\ table /\ dataDir
    BY CallFrame, NothingUnderWay DEF Healthy
<1>2. UNCHANGED <<table, dataDir>>
    BY CallFrame
<1>3. CASE RemoveAllItems
    <2>1. op'.name = "all" /\ op'.pc = "unlink"
        BY <1>3 DEF RemoveAllItems, NoOp
    <2>2. conn'.state = "closed"
        BY <1>3 DEF RemoveAllItems, Base, TypeOK, Conn
    <2> QED
        BY <2>1, <2>2, <1>1, <1>2 DEF Healthy
<1>4. CASE ~RemoveAllItems
    <2>1. conn' = conn
        BY <1>4, Zenon, ZenonT(60) DEF Call, SaveItem, RemoveItem, GetItem, RemoveItemsToFit, RemoveItems
    <2>2. /\ op'.name \notin {"rebuild", "all"}
          /\ op'.pc \in {"write", "lookup", "row", "query", "total", "rows"}
        <3> DEFINE Begins == /\ op'.name \notin {"rebuild", "all"}
                             /\ op'.pc \in {"write", "lookup", "row", "query", "total", "rows"}
        <3>1. ASSUME NEW k \in Key, NEW size \in Size, NEW inFile \in BOOLEAN,
                     SaveItem(k, size, inFile)
              PROVE  Begins
            BY <3>1 DEF SaveItem, NoOp
        <3>2. ASSUME NEW k \in Key, RemoveItem(k) PROVE Begins
            BY <3>2 DEF RemoveItem, NoOp
        <3>3. ASSUME NEW k \in Key, NEW name \in {"get", "value"}, GetItem(k, name)
              PROVE  Begins
            BY <3>3 DEF GetItem, NoOp
        <3>4. ASSUME NEW name \in {"fitSize", "fitCount"}, NEW limit \in Limit,
                     RemoveItemsToFit(name, limit)
              PROVE  Begins
            BY <3>4 DEF RemoveItemsToFit, NoOp
        <3>5. ASSUME NEW name \in {"keys", "where"}, NEW keys, RemoveItems(name, keys)
              PROVE  Begins
            BY <3>5 DEF RemoveItems, NoOp
        <3> HIDE DEF Begins
        <3>6. Begins
            BY <1>4, <3>1, <3>2, <3>3, <3>4, <3>5, Zenon, ZenonT(60) DEF Call
        <3> QED
            BY <3>6 DEF Begins
    <2> QED
        BY <2>1, <2>2, <1>1, <1>2 DEF Healthy
<1> QED
    BY <1>3, <1>4

LEMMA PlainHealthy ==
    ASSUME Faults = {}, Base, Base', Healthy, Plain
    PROVE  Healthy'
<1>1. conn.state = "open" /\ table = TRUE /\ op.pc # "mkdir" /\ dataDir
    BY PlainFrame DEF Base, TypeOK, Healthy, Resetting
<1>2. \A d \in Statement : d.ok /\ d.conn = conn /\ d.table = table
    BY <1>1, StatementSucceeds, Zenon, ZenonT(60) DEF Base
<1>3. UNCHANGED <<conn, table>>
    BY <1>2, Zenon, ZenonT(60)
    DEF Plain, WriteFile, LookupFilename, DropFile, SaveRow, UndoWrite, DeleteRow, QueryRow,
        TouchRow, ReadFile, TotalItems, PickOldest, DropFiles, DeleteRows, Db, disk
<1>4. dataDir' = dataDir /\ op.name \notin {"all", "rebuild"}
    BY PlainFrame
<1>5. op'.name \notin {"all", "rebuild"}
    BY <1>4, PlainName
<1>6. op'.pc \notin Resetting
    BY <1>5 DEF Base, Control
<1>7. op'.pc # "undo"
    <2>1. op \in Op
        BY DEF Base, TypeOK
    <2>2. CASE Return
        BY <2>2, NothingUnderWay DEF Return
    <2>3. CASE \E p \in Places \ {"undo"} : Goto(p)
        BY <2>1, <2>3, GotoMoves
    <2>4. CASE LookupFilename
        BY <2>1, <2>4 DEF LookupFilename, AfterFiles, Op
    <2>5. CASE DeleteRow \/ TotalItems \/ PickOldest \/ DropFiles
        BY <2>1, <2>2, <2>5, Zenon, ZenonT(60)
        DEF DeleteRow, TotalItems, PickOldest, DropFiles, AfterFiles, NoOp, Op
    <2>6. CASE SaveRow
        BY <1>2, <2>2, <2>6 DEF SaveRow
    <2> QED
        BY <2>2, <2>3, <2>4, <2>5, <2>6
        DEF Plain, WriteFile, DropFile, UndoWrite, QueryRow, TouchRow, ReadFile,
            DeleteRows, Places
<1> QED
    BY <1>1, <1>3, <1>4, <1>5, <1>6, <1>7 DEF Healthy, Resetting

LEMMA ResetHealthy ==
    ASSUME Faults = {}, Base, Healthy, UnlinkDb \/ MoveToTrash \/ MakeDataDir \/ Reopen
    PROVE  Healthy'
<1>1. op \in Op /\ op.pc \in Resetting /\ op.name = "all" /\ conn.state # "down"
    BY Zenon, ZenonT(60) DEF Base, TypeOK, Control, Healthy, UnlinkDb, MoveToTrash,
       MakeDataDir, Reopen, At, Resetting
<1>2. CASE UnlinkDb
    <2>1. op'.pc = "move" /\ op'.name = op.name /\ op.pc = "unlink"
        BY <1>1, <1>2, GotoMoves DEF UnlinkDb, Places, SameOp, At
    <2>2. rows' = NoRows /\ UNCHANGED <<conn, dataDir>>
        BY <1>2 DEF UnlinkDb, May
    <2> QED
        BY <1>1, <2>1, <2>2 DEF Healthy
<1>3. CASE MoveToTrash
    <2>1. op.pc = "move" /\ dataDir /\ ~May("io")
        BY <1>3 DEF MoveToTrash, At, Healthy, May
    <2>2. Goto("mkdir") /\ files' = [k \in Key |-> Nil] /\ UNCHANGED <<rows, conn>>
        BY <1>3, <2>1, Zenon, ZenonT(60) DEF MoveToTrash
    <2>3. op'.pc = "mkdir" /\ op'.name = op.name
        BY <1>1, <2>2, GotoMoves DEF Places, SameOp
    <2> QED
        BY <1>1, <2>1, <2>2, <2>3 DEF Healthy
<1>4. CASE MakeDataDir
    <2>1. op.pc = "mkdir" /\ dataDir' = TRUE /\ UNCHANGED <<rows, files, conn>>
        BY <1>4 DEF MakeDataDir, At, Answers, May
    <2>2. op'.pc = "open" /\ op'.name = op.name
        BY <1>1, <1>4, GotoMoves DEF MakeDataDir, Places, SameOp
    <2> QED
        BY <1>1, <2>1, <2>2 DEF Healthy
<1>5. CASE Reopen
    <2>1. DbOpen = {[conn |-> OpenConn, table |-> TRUE, ok |-> TRUE]}
        BY DEF DbOpen, May
    <2>2. conn' = OpenConn /\ table' = TRUE /\ UNCHANGED <<dataDir>> /\ op' = NoOp
        BY <1>1, <1>5, <2>1 DEF Reopen, Return
    <2>3. conn'.state = "open" /\ dataDir
        BY <1>5, <2>2 DEF OpenConn, Reopen, At, Healthy
    <2> QED
        BY <2>2, <2>3, NothingUnderWay DEF Healthy
<1> QED
    BY <1>2, <1>3, <1>4, <1>5

\* Where nothing is pending every key agrees.
LEMMA NothingPending ==
    ASSUME Matched, op.pc \notin {"row", "files", "rows", "move"}
    PROVE  \A k \in Key : Agree(k)
BY DEF Matched, Pending

\* Nothing is pending after a step either, if all keys agree.
LEMMA AllMatched ==
    ASSUME \A k \in Key : Agree(k)', op'.pc \notin {"row", "files", "rows"}
    PROVE  Matched'
BY DEF Matched

LEMMA SameAgree ==
    ASSUME NEW k \in Key, Agree(k), rows'[k] = rows[k], files'[k] = files[k]
    PROVE  Agree(k)'
BY DEF Agree, Named, Stored

LEMMA CallMatched ==
    ASSUME Base, Clean, Type # "SQLite", Call
    PROVE  Matched'
<1>1. UNCHANGED <<rows, files>> /\ op.pc = "idle"
    BY CallFrame, NothingUnderWay
<1>2. \A k \in Key : Agree(k)'
    BY <1>1, NothingPending, SameAgree DEF Clean
<1>3. op'.pc \in {"write", "lookup", "query", "total", "unlink"}
    BY CallBegins
<1> QED
    BY <1>2, <1>3, AllMatched

LEMMA FileStepMatched ==
    ASSUME Faults = {}, Base, Clean, WriteFile \/ DropFile
    PROVE  Matched'
<1>1. /\ op \in Op /\ op.pc \in {"write", "drop"} /\ op.key \in Key /\ rows' = rows
      /\ op.pc = "write" => op.name = "save" /\ dataDir
      /\ op.pc = "drop" => ~(op.name = "save" /\ op.file)
    BY Zenon, ZenonT(60) DEF Base, TypeOK, Control, Clean, Healthy, WriteFile, DropFile, At
<1>2. /\ Goto("row")
      /\ files' = [files EXCEPT ![op.key] = IF op.pc = "write" THEN op.ver ELSE Nil]
    BY <1>1 DEF WriteFile, DropFile, DeleteFile, May, At
<1>3. op'.pc = "row" /\ SameOp
    BY <1>1, <1>2, GotoMoves DEF Places
<1>4. ASSUME NEW k \in Key, k # op.key PROVE Agree(k)'
    <2>1. files'[k] = files[k] /\ Agree(k)
        BY <1>1, <1>2, <1>4, NothingPending DEF Base, TypeOK, Clean
    <2> QED
        BY <2>1, <1>1, SameAgree
<1>5. files'[op.key] = IF op.pc = "write" THEN op.ver ELSE Nil
    BY <1>1, <1>2 DEF Base, TypeOK
<1>6. op.pc = "write" => op.file
    BY DEF Base, Control
<1> QED
    BY <1>1, <1>3, <1>4, <1>5, <1>6 DEF Matched, Pending, SameOp

LEMMA LookupMatched ==
    ASSUME Faults = {}, Base, Clean, LookupFilename
    PROVE  Matched'
<1>1. /\ op \in Op /\ op.pc = "lookup" /\ UNCHANGED <<rows, files>>
      /\ op.name = "save" => ~op.file
      /\ op.name \notin Several => op.key \in Key
    BY DEF Base, TypeOK, Control, LookupFilename, At
<1>2. \A k \in Key : Agree(k) /\ Agree(k)'
    BY <1>1, NothingPending, SameAgree DEF Clean
<1> DEFINE Found == Named \cap (op.keys \cup {op.key})
<1>3. op' = IF op.name \in {"keys", "where"}
            THEN [op EXCEPT !.named = Found, !.pc = AfterFiles(Found)]
            ELSE [op EXCEPT !.pc = IF Found # {} THEN "drop" ELSE "row"]
    <2>1. conn.state = "open" /\ table
        BY <1>1 DEF Clean, Healthy, Base, Control, Resetting
    <2>2. \A d \in Statement : d.ok
        BY <2>1, StatementSucceeds, Zenon, ZenonT(60) DEF Base
    <2> QED
        BY <2>2, Zenon, ZenonT(60) DEF LookupFilename
<1>4. \A k \in Key : k \notin Named => files[k] = Nil
    BY <1>2 DEF Agree
<1>5. CASE op.name \in Several
    <2>1. op'.named = Found /\ op'.pc = AfterFiles(Found) /\ op'.keys = op.keys
        BY <1>1, <1>3, <1>5 DEF Op, Several
    <2>2. \A k \in op.keys : k \in Found \/ files[k] = Nil
        BY <1>1, <1>4 DEF Op
    <2>3. /\ op'.pc \in {"files", "rows"}
          /\ op'.pc = "rows" => op'.named = {}
        BY <2>1 DEF AfterFiles
    <2> HIDE DEF Found
    <2> QED
        BY <2>1, <2>2, <2>3, <1>1, <1>2 DEF Matched
<1>6. CASE op.name \notin Several
    <2>1. Goto(IF Found # {} THEN "drop" ELSE "row")
        BY <1>3, <1>6 DEF Goto, Several
    <2>2. SameOp /\ op'.pc = IF Found # {} THEN "drop" ELSE "row"
        BY <1>1, <2>1, GotoMoves DEF Places
    <2>3. Found = {} => files[op.key] = Nil
        BY <1>1, <1>4, <1>6
    <2> HIDE DEF Found
    <2> QED
        BY <2>2, <2>3, <1>1, <1>2 DEF Matched, SameOp
<1> QED
    BY <1>5, <1>6

LEMMA SaveRowMatched ==
    ASSUME Faults = {}, Base, Clean, SaveRow
    PROVE  Matched'
<1>1. /\ op \in Op /\ op.pc = "row" /\ op.name = "save" /\ op.key \in Key
      /\ op.ver \in Ver /\ op.size \in Size /\ files' = files
      /\ files[op.key] = IF op.file THEN op.ver ELSE Nil
    BY Zenon, ZenonT(60) DEF Base, TypeOK, Control, Clean, Matched, SaveRow, At
<1>2. NewRow \in Row /\ NewRow.file = op.file /\ NewRow.ver = op.ver /\ op.file \in BOOLEAN
    BY <1>1, Zenon, ZenonT(60) DEF NewRow, Row, Op, Base, TypeOK
<1>3. rows' = [rows EXCEPT ![op.key] = NewRow] /\ Return
    <2>1. conn.state = "open" /\ table
        BY <1>1, Zenon, ZenonT(60) DEF Clean, Healthy
    <2>2. \A d \in Statement : d.ok
        BY <2>1, StatementSucceeds, Zenon, ZenonT(60) DEF Base
    <2> QED
        BY <2>2 DEF SaveRow, NewRow
<1>4. /\ rows'[op.key] = NewRow /\ NewRow # Nil
      /\ \A k \in Key : k # op.key => rows'[k] = rows[k]
    BY <1>1, <1>2, <1>3, RowAssumption DEF Base, TypeOK
<1>5. ASSUME NEW k \in Key PROVE Agree(k)'
    <2>1. CASE k = op.key
        BY <1>1, <1>2, <1>4, <2>1 DEF Agree, Named, Stored
    <2>2. CASE k # op.key
        <3>1. Agree(k)
            BY <1>1, <2>2 DEF Clean, Matched, Pending
        <3> QED
            BY <3>1, <2>2, <1>1, <1>4, SameAgree
    <2> QED
        BY <2>1, <2>2
<1> QED
    BY <1>3, <1>5, AllMatched, NothingUnderWay DEF Return

LEMMA DeleteMatched ==
    ASSUME Faults = {}, Base, Clean, DeleteRow \/ DeleteRows
    PROVE  Matched'
<1>1. op \in Op /\ files' = files /\ conn.state = "open" /\ table
    BY DEF Base, TypeOK, Control, Clean, Healthy, DeleteRow, DeleteRows, At, Resetting
<1>2. \A d \in Statement : d.ok
    BY <1>1, StatementSucceeds, Zenon, ZenonT(60) DEF Base
<1>3. CASE DeleteRow
    <2>1. op.pc = "row" /\ op.key \in Key /\ files[op.key] = Nil
        BY <1>3 DEF Base, Control, Clean, Matched, DeleteRow, At
    <2>2. /\ rows'[op.key] = Nil
          /\ \A k \in Key : k # op.key => rows'[k] = rows[k]
        BY <1>2, <1>3, <2>1 DEF DeleteRow, Base, TypeOK
    <2>3. ASSUME NEW k \in Key PROVE Agree(k)'
        <3>1. CASE k = op.key
            BY <1>1, <2>1, <2>2, <3>1 DEF Agree, Named, Stored
        <3>2. CASE k # op.key
            BY <1>1, <2>1, <2>2, <3>2, SameAgree DEF Clean, Matched, Pending
        <3> QED
            BY <3>1, <3>2
    <2>4. op'.pc \in {"idle", "pick"}
        <3>1. CASE Return
            BY <3>1, NothingUnderWay DEF Return
        <3>2. CASE op' = [NoOp EXCEPT !.name = op.name, !.limit = op.limit,
                                      !.total = Left, !.pc = "pick"]
            BY <3>2 DEF NoOp
        <3> QED
            BY <1>3, <3>1, <3>2 DEF DeleteRow, Left
    <2> QED
        BY <2>3, <2>4, AllMatched
<1>4. CASE DeleteRows
    <2>1. op.pc = "rows" /\ \A k \in op.keys : files[k] = Nil
        BY <1>4, Zenon, ZenonT(60) DEF Clean, Matched, DeleteRows, At
    <2>2. \A k \in Key : rows'[k] = IF k \in op.keys THEN Nil ELSE rows[k]
        BY <1>2, <1>4 DEF DeleteRows, May
    <2>3. ASSUME NEW k \in Key PROVE Agree(k)'
        <3>1. CASE k \in op.keys
            BY <1>1, <2>1, <2>2, <3>1 DEF Agree, Named, Stored
        <3>2. CASE k \notin op.keys
            BY <1>1, <2>1, <2>2, <3>2, SameAgree DEF Clean, Matched, Pending
        <3> QED
            BY <3>1, <3>2
    <2> QED
        BY <1>4, <2>3, AllMatched, NothingUnderWay DEF DeleteRows, Return
<1> QED
    BY <1>3, <1>4

LEMMA LookMatched ==
    ASSUME Faults = {}, Base, Clean, QueryRow \/ ReadFile \/ TotalItems \/ PickOldest
    PROVE  Matched'
<1>1. /\ op \in Op /\ UNCHANGED <<rows, files>>
      /\ op.pc \in {"query", "read", "total", "pick"}
    BY Zenon, ZenonT(60) DEF Base, TypeOK, QueryRow, ReadFile, TotalItems, PickOldest, At, disk
<1>2. \A k \in Key : Agree(k) /\ Agree(k)'
    BY <1>1, NothingPending, SameAgree DEF Clean
<1>3. op.name # "save"
    BY <1>1 DEF Base, Control
<1>4. CASE op'.pc \notin {"row", "files", "rows"}
    BY <1>2, <1>4, AllMatched
<1>5. CASE ReadFile /\ Goto("row") /\ files[op.key] = Nil
    <2>1. op'.pc = "row" /\ SameOp
        BY <1>1, <1>5, GotoMoves DEF Places
    <2> QED
        BY <2>1, <1>1, <1>2, <1>3, <1>5 DEF Matched, SameOp
<1>6. ASSUME NEW k \in Key, Oldest(k),
             op' = [op EXCEPT !.key = k, !.size = rows[k].size,
                       !.pc = IF rows[k].file THEN "drop" ELSE "row"]
      PROVE  Matched'
    <2>1. op'.key = k /\ op'.name = op.name /\ op'.pc = IF rows[k].file THEN "drop" ELSE "row"
        BY <1>1, <1>6 DEF Op
    <2>2. ~rows[k].file => files[k] = Nil
        BY <1>2 DEF Agree, Named
    <2> QED
        BY <2>1, <2>2, <1>1, <1>2, <1>3 DEF Matched
<1>7. CASE QueryRow
    <2>1. op'.pc \in {"idle", "touch", "read"}
        BY <1>1, <1>7, GotoMoves, NothingUnderWay, Zenon, ZenonT(60) DEF QueryRow, Places, Return
    <2> QED
        BY <2>1, <1>4
<1>8. CASE TotalItems
    <2>1. op'.pc \in {"idle", "pick"}
        BY <1>1, <1>8, NothingUnderWay, Zenon, ZenonT(60) DEF TotalItems, Return, Op
    <2> QED
        BY <2>1, <1>4
<1>9. CASE ReadFile
    <2>1. CASE Return \/ Goto("touch")
        <3>1. op'.pc \in {"idle", "touch"}
            BY <1>1, <2>1, GotoMoves, NothingUnderWay DEF Places, Return
        <3> QED
            BY <3>1, <1>4
    <2> QED
        BY <1>5, <1>9, <2>1 DEF ReadFile, May
<1>10. CASE PickOldest
    <2>1. CASE Return
        BY <2>1, <1>4, NothingUnderWay DEF Return
    <2> QED
        BY <1>6, <1>10, <2>1, Zenon, ZenonT(60) DEF PickOldest
<1> QED
    BY <1>7, <1>8, <1>9, <1>10

LEMMA TouchMatched ==
    ASSUME Base, Clean, TouchRow
    PROVE  Matched'
<1>1. /\ op \in Op /\ op.pc = "touch" /\ op.key \in Key /\ rows[op.key] # Nil /\ files' = files
    BY DEF Base, TypeOK, Control, TouchRow, At
<1>2. ASSUME NEW k \in Key PROVE Agree(k)'
    <2>1. /\ rows'[k] = Nil <=> rows[k] = Nil
          /\ rows[k] # Nil => rows'[k].file = rows[k].file /\ rows'[k].ver = rows[k].ver
        BY <1>1, TouchEffect DEF Base
    <2>2. Agree(k)
        BY <1>1, NothingPending DEF Clean
    <2> QED
        BY <2>1, <2>2, <1>1 DEF Agree, Named, Stored
<1>3. op'.pc \in {"idle", "read"}
    BY <1>1, GotoMoves, NothingUnderWay DEF TouchRow, Places, Return
<1> QED
    BY <1>2, <1>3, AllMatched

LEMMA DropFilesMatched ==
    ASSUME Faults = {}, Base, Clean, DropFiles
    PROVE  Matched'
<1>1. op \in Op /\ op.pc = "files" /\ rows' = rows
    BY DEF Base, TypeOK, DropFiles, At
<1>2. PICK k \in op.named :
        /\ files' = [files EXCEPT ![k] = Nil]
        /\ op' = [op EXCEPT !.named = op.named \ {k}, !.pc = AfterFiles(op.named \ {k})]
    BY <1>1, Zenon, ZenonT(60) DEF DropFiles, DeleteFile, May, Op
<1>3. k \in Key /\ k \in op.keys /\ op.keys \subseteq Key
    BY <1>1, <1>2 DEF Base, Control, Op
<1>4. /\ files'[k] = Nil
      /\ \A j \in Key : j # k => files'[j] = files[j]
    BY <1>2, <1>3 DEF Base, TypeOK
<1>5. op'.keys = op.keys /\ op'.named = op.named \ {k} /\ op'.pc = AfterFiles(op.named \ {k})
    BY <1>1, <1>2 DEF Op
<1>6. /\ op'.pc \in {"files", "rows"}
      /\ op'.pc = "rows" => op'.named = {}
    BY <1>5 DEF AfterFiles
<1>7. \A j \in op.keys : j \in op'.named \/ files'[j] = Nil
    <2>1. \A j \in op.keys : j \in op.named \/ files[j] = Nil
        BY <1>1 DEF Clean, Matched
    <2> QED
        BY <2>1, <1>3, <1>4, <1>5
<1>8. ASSUME NEW j \in Key, j \notin op.keys PROVE Agree(j)'
    <2>1. Agree(j) /\ j # k
        BY <1>1, <1>3, <1>8 DEF Clean, Matched, Pending
    <2> QED
        BY <2>1, <1>1, <1>4, SameAgree
<1> QED
    BY <1>5, <1>6, <1>7, <1>8 DEF Matched, Pending

LEMMA ResetMatched ==
    ASSUME Faults = {}, Base, Clean, Healthy',
           UnlinkDb \/ MoveToTrash \/ MakeDataDir \/ Reopen
    PROVE  Matched'
<1>1. op \in Op
    BY DEF Base, TypeOK
<1>2. CASE UnlinkDb
    <2>1. op'.pc = "move"
        BY <1>1, <1>2, GotoMoves DEF UnlinkDb, Places
    <2> QED
        BY <2>1 DEF Matched, Pending
<1>3. CASE MoveToTrash \/ MakeDataDir
    <2>1. op'.pc \in {"mkdir", "open"}
        BY <1>1, <1>3, GotoMoves DEF MoveToTrash, MakeDataDir, Places
    <2>2. rows' = NoRows /\ \A k \in Key : files'[k] = Nil
        BY <2>1 DEF Healthy
    <2>3. \A k \in Key : Agree(k)'
        BY <2>2 DEF Agree, Named, Stored, NoRows
    <2> QED
        BY <2>1, <2>3, AllMatched
<1>4. CASE Reopen
    <2>1. UNCHANGED <<rows, files>> /\ op' = NoOp /\ op.pc = "open"
        BY <1>4 DEF Reopen, Return, At
    <2>2. \A k \in Key : Agree(k)'
        BY <2>1, NothingPending, SameAgree DEF Clean
    <2> QED
        BY <2>1, <2>2, AllMatched, NothingUnderWay
<1> QED
    BY <1>2, <1>3, <1>4

LEMMA CleanStep ==
    ASSUME Faults = {}, Type # "SQLite", Base, Base', Clean, [Next]_vars
    PROVE  Clean'
<1>1. CASE Call
    BY <1>1, CallHealthy, CallMatched DEF Clean
<1>2. CASE Plain
    <2>1. Healthy'
        BY <1>2, PlainHealthy DEF Clean
    <2>2. ~UndoWrite
        BY DEF Clean, Healthy, UndoWrite, At
    <2> QED
        BY <1>2, <2>1, <2>2, FileStepMatched, LookupMatched, SaveRowMatched, DeleteMatched,
           LookMatched, TouchMatched, DropFilesMatched DEF Plain, Clean
<1>3. CASE UnlinkDb \/ MoveToTrash \/ MakeDataDir \/ Reopen
    BY <1>3, ResetHealthy, ResetMatched DEF Clean
<1>4. CASE ListTrash \/ EmptyTrash \/ CoolDown \/ Tick \/ UNCHANGED vars
    <2>1. UNCHANGED <<rows, files, op, table, dataDir>>
        BY <1>4 DEF ListTrash, EmptyTrash, CoolDown, Tick, vars, disk, history
    <2>2. conn'.state = conn.state
        BY <1>4 DEF ListTrash, EmptyTrash, CoolDown, Tick, vars, Base, TypeOK, Conn
    <2>3. Healthy'
        BY <2>1, <2>2 DEF Clean, Healthy
    <2>4. Matched'
        BY <2>1 DEF Clean, Matched, Agree, Pending, Named, Stored
    <2> QED
        BY <2>3, <2>4 DEF Clean
<1>5. ~Crash /\ ~Restart
    BY DEF Crash, Restart, May, Clean, Healthy
<1> QED
    BY NextCases, <1>1, <1>2, <1>3, <1>4, <1>5

\* When no call fails and the process does not die, between two methods each file
\* belongs to the row that names it and each such row has its file.  (A storage of
\* type SQLite leaves the files of items saved with a file name behind.)
THEOREM RowsAndFilesAgree ==
    ASSUME Faults = {}, Type # "SQLite"
    PROVE  Spec => []RowFileAgreement
<1>1. Init => Clean
    <2> SUFFICES ASSUME Init PROVE Clean
        OBVIOUS
    <2>1. op.pc = "idle" /\ op.name = "none"
        BY NothingUnderWay DEF Init
    <2>2. Healthy
        BY <2>1 DEF Init, Healthy, OpenConn
    <2>3. \A k \in Key : Agree(k)
        BY DEF Init, Agree, Named, Stored, NoRows
    <2> QED
        BY <2>1, <2>2, <2>3 DEF Clean, Matched
<1>2. Base /\ Base' /\ Clean /\ [Next]_vars => Clean'
    BY CleanStep
<1>3. Clean => RowFileAgreement
    <2> SUFFICES ASSUME Clean, op = NoOp, NEW k \in Key PROVE Agree(k)
        BY DEF RowFileAgreement, Agree
    <2> QED
        BY NothingPending, NothingUnderWay DEF Clean
<1> QED
    BY <1>1, <1>2, <1>3, BaseAlways, PTL DEF Spec

-------------------------------------------------------------------------------
(* The trims. *)

\* An int is never more than the total it was made from, and is that total when
\* an int can hold it.
LEMMA ToIntBound ==
    ASSUME NEW n \in Nat
    PROVE  ToInt(n) <= n /\ (n <= IntMax => ToInt(n) = n)
<1> DEFINE a == n + IntMax + 1
           b == 2 * (IntMax + 1)
<1>1. a \in Nat /\ b \in Nat \ {0} /\ IntMax \in Nat
    BY StorageAssumption
<1>2. ToInt(n) = (a % b) - (IntMax + 1) /\ a = n + IntMax + 1 /\ (n <= IntMax => a < b)
    BY <1>1 DEF ToInt
<1> HIDE DEF a, b
<1>3. a % b \in 0..(b - 1)
    BY <1>1
<1>4. a < b => a % b = a
    BY <1>1
<1>5. a % b <= a
    BY <1>1, <1>3, <1>4
<1> QED
    BY <1>1, <1>2, <1>3, <1>4, <1>5

LEMMA SizesAreNumbers == Size \cup {0} \subseteq Nat
BY StorageAssumption

\* A row that goes takes one from the count and its size from the total.
LEMMA MeasuresWithout ==
    ASSUME TypeOK, NEW k \in Stored, rows' = [rows EXCEPT ![k] = Nil]
    PROVE  /\ TotalSize' = TotalSize - rows[k].size
           /\ Cardinality(Stored') = Cardinality(Stored) - 1
<1>1. k \in Key /\ rows[k] # Nil /\ rows \in [Key -> Row \cup {Nil}]
    BY DEF Stored, TypeOK
<1>2. TotalSize' = SizeOf(rows')
    BY DEF TotalSize
<1>3. SizeOf(rows') = SizeOf(rows) - rows[k].size
    BY <1>1, SizeOfWithout, Zenon, ZenonT(60)
<1>4. Stored' = Stored \ {k}
    BY <1>1 DEF Stored
<1>5. IsFiniteSet(Stored)
    BY StorageAssumption, FS_Subset DEF Stored
<1>6. Cardinality(Stored \ {k}) = Cardinality(Stored) - 1
    BY <1>5, FS_RemoveElement
<1> QED
    BY <1>2, <1>3, <1>4, <1>6 DEF TotalSize

\* Nothing stored, nothing to trim.
LEMMA MeasuresEmpty ==
    ASSUME TypeOK, Stored = {}
    PROVE  TotalSize = 0 /\ Cardinality(Stored) = 0
<1>1. KeysOf(rows) = {}
    BY DEF Stored, KeysOf
<1>2. PICK g : Additive(rows, KeysOf(rows), g)
    BY <1>1, AdditiveExists, FS_EmptySet
<1>3. SizeOf(rows) = g[{}] /\ g[{}] = 0
    BY <1>1, <1>2, SizeIsAdditive, Zenon, ZenonT(60) DEF Additive
<1> QED
    BY <1>3, FS_EmptySet DEF TotalSize

LEMMA MeasureTyped ==
    ASSUME TypeOK
    PROVE  TotalSize \in Nat /\ Cardinality(Stored) \in Nat /\ Measure \in Nat
BY TotalSizeTyped, CountTyped DEF Measure

\* Of the steps of the methods, these are a trim's.
LEMMA TrimSteps ==
    ASSUME Plain, op.pc \in {"total", "pick", "drop", "row"}, op.name # "save"
    PROVE  TotalItems \/ PickOldest \/ DropFile \/ DeleteRow
BY Zenon, ZenonT(60) DEF Plain, WriteFile, LookupFilename, SaveRow, UndoWrite, QueryRow,
       TouchRow, ReadFile, DropFiles, DeleteRows, At

\* What a trim knows after looking up the total.
LEMMA TotalItemsTrimming ==
    ASSUME Base, Trimming, op.name \in Fit, TotalItems
    PROVE  Trimming'
<1>1. op \in Op /\ op.pc = "total" /\ rows' = rows
    BY DEF Base, TypeOK, TotalItems, At
<1>2. CASE Return
    BY <1>2, NothingUnderWay DEF Return, Trimming, Fit
<1>3. CASE ~Return
    <2> DEFINE Total(d) == IF ~d.ok THEN -1 ELSE ToInt(Measure)
    <2>1. PICK d \in Statement :
            /\ Total(d) > op.limit
            /\ op' = [op EXCEPT !.total = Total(d), !.pc = "pick"]
        BY <1>3, Zenon, ZenonT(60) DEF TotalItems, Measure
    <2>2. op.limit \in Nat /\ Measure \in Nat
        BY <1>1, MeasureTyped DEF Op, Base
    <2>3. /\ ToInt(Measure) > op.limit
          /\ op' = [op EXCEPT !.total = ToInt(Measure), !.pc = "pick"]
        <3>1. d.ok
            BY <2>1, <2>2
        <3>2. Total(d) = ToInt(Measure)
            BY <3>1
        <3> HIDE DEF Total
        <3> QED
            BY <2>1, <3>2
    <2>4. /\ op'.total = ToInt(Measure) /\ op'.pc = "pick" /\ op'.name = op.name
          /\ op'.limit = op.limit
        BY <2>3, <1>1 DEF Op
    <2>5. Measure' = Measure
        BY <2>4, <1>1 DEF Measure, TotalSize, Stored
    <2>6. ToInt(Measure) \in Int /\ ToInt(Measure) <= Measure
        BY <2>2, ToIntBound, ToIntTyped
    <2> QED
        BY <2>2, <2>3, <2>4, <2>5, <2>6 DEF Trimming
<1> QED
    BY <1>2, <1>3

\* After choosing an item, and after deleting its file.
LEMMA PickTrimming ==
    ASSUME Base, Trimming, op.name \in Fit, PickOldest \/ DropFile
    PROVE  Trimming'
<1>1. op \in Op /\ op.pc \in {"pick", "drop"} /\ rows' = rows
    BY Zenon, ZenonT(60) DEF Base, TypeOK, PickOldest, DropFile, At
<1>2. op.limit < op.total /\ op.total <= Measure
    BY <1>1 DEF Trimming
<1>3. CASE Return
    BY <1>3, NothingUnderWay DEF Return, Trimming, Fit
<1>4. ASSUME NEW k \in Key, Oldest(k),
             op' = [op EXCEPT !.key = k, !.size = rows[k].size,
                       !.pc = IF rows[k].file THEN "drop" ELSE "row"]
      PROVE  Trimming'
    <2>1. /\ op'.key = k /\ op'.size = rows[k].size /\ op'.name = op.name
          /\ op'.limit = op.limit /\ op'.total = op.total /\ op'.pc \in {"drop", "row"}
        BY <1>1, <1>4 DEF Op
    <2>2. Measure' = Measure /\ Oldest(op.key)' = Oldest(k)
        BY <2>1, <1>1 DEF Measure, TotalSize, Stored, Oldest
    <2>3. rows'[op'.key] = rows[k]
        BY <2>1, <1>1
    <2> QED
        BY <2>1, <2>2, <2>3, <1>2, <1>4 DEF Trimming
<1>5. CASE DropFile
    <2>1. op.pc = "drop" /\ op'.pc = "row" /\ SameOp /\ op'.total = op.total
        BY <1>1, <1>5, GotoMoves DEF DropFile, Places, At
    <2>2. Measure' = Measure /\ (Oldest(op.key)' <=> Oldest(op.key))
        BY <2>1, <1>1 DEF SameOp, Measure, TotalSize, Stored, Oldest
    <2>3. rows'[op'.key] = rows[op.key] /\ op'.size = op.size /\ op'.limit = op.limit
        BY <2>1, <1>1 DEF SameOp
    <2> QED
        BY <2>1, <2>2, <2>3, <1>1, <1>2 DEF Trimming, SameOp
<1> QED
    BY <1>3, <1>4, <1>5, Zenon, ZenonT(60) DEF PickOldest

\* After deleting a row.
LEMMA DeleteRowTrimming ==
    ASSUME Base, Trimming, op.name \in Fit, DeleteRow
    PROVE  Trimming'
<1>1. op \in Op /\ op.pc = "row" /\ op.key \in Key
    BY DEF Base, TypeOK, Control, DeleteRow, At
<1>2. /\ op.limit < op.total /\ op.total <= Measure
      /\ op.key \in Stored /\ op.size = rows[op.key].size
    BY <1>1 DEF Trimming, Oldest
<1>3. CASE Return
    BY <1>3, NothingUnderWay DEF Return, Trimming, Fit
<1>4. CASE ~Return
    <2>1. /\ rows' = [rows EXCEPT ![op.key] = Nil] /\ Left > op.limit
          /\ op' = [NoOp EXCEPT !.name = op.name, !.limit = op.limit,
                                !.total = Left, !.pc = "pick"]
        BY <1>4 DEF DeleteRow, Left
    <2>2. /\ op'.name = op.name /\ op'.limit = op.limit /\ op'.total = Left
          /\ op'.pc = "pick"
        BY <2>1 DEF NoOp
    <2>3. /\ TotalSize' = TotalSize - rows[op.key].size
          /\ Cardinality(Stored') = Cardinality(Stored) - 1
        BY <2>1, <1>2, MeasuresWithout, Zenon, ZenonT(60) DEF Base
    <2>4. TotalSize \in Nat /\ Cardinality(Stored) \in Nat /\ op.total \in Int /\ op.size \in Nat
        <3>1. TotalSize \in Nat /\ Cardinality(Stored) \in Nat
            BY MeasureTyped DEF Base
        <3>2. op.total \in Int /\ op.size \in Size \cup {0}
            BY <1>1 DEF Op
        <3>3. op.size \in Nat
            BY <3>2, SizesAreNumbers
        <3> QED
            BY <3>1, <3>2, <3>3
    <2>5. Left <= Measure'
        <3>1. CASE op.name = "fitSize"
            BY <3>1, <1>2, <2>2, <2>3, <2>4 DEF Left, Measure
        <3>2. CASE op.name = "fitCount"
            BY <3>2, <1>2, <2>2, <2>3, <2>4 DEF Left, Measure
        <3> QED
            BY <3>1, <3>2 DEF Fit
    <2>6. Left \in Int /\ op.limit \in Nat
        BY <1>1, StorageAssumption DEF Left, Op
    <2> QED
        BY <2>1, <2>2, <2>5, <2>6 DEF Trimming
<1> QED
    BY <1>3, <1>4

LEMMA TrimmingStep ==
    ASSUME Base, Trimming, [Next]_vars
    PROVE  Trimming'
<1>1. CASE Call
    BY <1>1, CallBegins DEF Trimming
<1>2. CASE Plain
    <2>1. CASE op.name \notin Fit
        <3>1. op'.name \notin Fit
            BY <1>2, <2>1, PlainName DEF Fit
        <3> QED
            BY <3>1 DEF Trimming
    <2>2. CASE op.name \in Fit
        <3>1. op.pc \in {"total", "pick", "drop", "row"} /\ op.name # "save"
            BY <2>2 DEF Trimming, Fit
        <3> QED
            BY <1>2, <2>2, <3>1, TrimSteps, TotalItemsTrimming, PickTrimming, DeleteRowTrimming
    <2> QED
        BY <2>1, <2>2
<1>3. CASE UnlinkDb \/ MoveToTrash \/ MakeDataDir
    <2>1. op \in Op /\ op.pc \in Resetting
        BY <1>3, Zenon, ZenonT(60) DEF Base, TypeOK, UnlinkDb, MoveToTrash, MakeDataDir, At, Resetting
    <2>2. op'.name = op.name
        BY <1>3, <2>1, GotoMoves, Zenon, ZenonT(60) DEF UnlinkDb, MoveToTrash, MakeDataDir, Places, SameOp
    <2>3. op.name \notin Fit
        BY <2>1 DEF Base, Control, Fit
    <2> QED
        BY <2>2, <2>3 DEF Trimming
<1>4. CASE Reopen \/ Crash
    BY <1>4, NothingUnderWay DEF Reopen, Crash, Return, Trimming, Fit
<1>5. CASE UNCHANGED <<op, rows>>
    BY <1>5 DEF Trimming, Measure, TotalSize, Stored, Oldest
<1>6. CASE Restart
    <2>1. UNCHANGED <<op, rows>> \/ op'.name = "rebuild"
        BY <1>6, Zenon, ZenonT(60) DEF Restart, NoOp
    <2> QED
        BY <2>1, <1>5, Zenon, ZenonT(60) DEF Trimming, Fit
<1>7. CASE ListTrash \/ EmptyTrash \/ CoolDown \/ Tick \/ UNCHANGED vars
    BY <1>5, <1>7 DEF ListTrash, EmptyTrash, CoolDown, Tick, vars, disk
<1> QED
    BY NextCases, <1>1, <1>2, <1>3, <1>4, <1>6, <1>7

LEMMA TrimmingAlways == Spec => []Trimming
<1>1. Init => Trimming
    BY NothingUnderWay, Zenon, ZenonT(60) DEF Init, Trimming, Fit
<1>2. Base /\ Trimming /\ [Next]_vars => Trimming'
    BY TrimmingStep
<1> QED
    BY <1>1, <1>2, BaseAlways, PTL DEF Spec

\* While a trim is under way only the step that deletes a row deletes one.
LEMMA TrimDeletes ==
    ASSUME Base, Trimming, [Next]_vars, op.name \in Fit,
           NEW k \in Stored, rows'[k] = Nil
    PROVE  DeleteRow /\ op.pc = "row" /\ k = op.key
<1>1. /\ op.pc \in {"total", "pick", "drop", "row"} /\ op.name \notin {"save", "none"}
      /\ op.pc \notin Resetting /\ rows[k] # Nil /\ k \in Key
    BY DEF Trimming, Fit, Resetting, Stored
<1>2. rows' # rows
    BY <1>1
<1>3. ~Call
    BY <1>1, CallFrame, NothingUnderWay
<1>4. Plain
    BY <1>1, <1>2, <1>3, NextCases, Zenon, ZenonT(60)
    DEF UnlinkDb, MoveToTrash, MakeDataDir, Reopen, ListTrash, EmptyTrash, Crash, Restart,
        CoolDown, Tick, vars, disk, At, Resetting
<1>5. TotalItems \/ PickOldest \/ DropFile \/ DeleteRow
    BY <1>1, <1>4, TrimSteps
<1>6. DeleteRow
    BY <1>2, <1>5, Zenon, ZenonT(60) DEF TotalItems, PickOldest, DropFile
<1>7. k = op.key
    BY <1>1, <1>6 DEF DeleteRow, Base, TypeOK
<1> QED
    BY <1>6, <1>7 DEF DeleteRow, At

\* A trim deletes the least recently used item and only while the items exceed
\* its limit, even when the total does not fit in an int, whatever calls fail and
\* whenever the process dies.
THEOREM TrimEvictsOldestNeeded == Spec => EvictsOldestNeeded
<1> DEFINE Evicts ==
        \A k \in Stored :
           op.name \in {"fitSize", "fitCount"} /\ rows'[k] = Nil =>
              /\ \A j \in Stored : rows[k].access <= rows[j].access
              /\ op.limit < IF op.name = "fitSize" THEN TotalSize ELSE Cardinality(Stored)
<1>1. ASSUME Base, Trimming, [Next]_vars PROVE Evicts
    <2> SUFFICES ASSUME NEW k \in Stored, op.name \in Fit, rows'[k] = Nil
                 PROVE  /\ \A j \in Stored : rows[k].access <= rows[j].access
                        /\ op.limit < Measure
        BY DEF Fit, Measure
    <2>1. op.pc = "row" /\ k = op.key
        BY <1>1, TrimDeletes
    <2>2. Oldest(k) /\ op.limit < op.total /\ op.total <= Measure
        BY <1>1, <2>1 DEF Trimming
    <2>3. op.limit \in Nat /\ op.total \in Int /\ Measure \in Nat
        BY <1>1, MeasureTyped DEF Base, TypeOK, Op
    <2> QED
        BY <2>2, <2>3 DEF Oldest
<1>2. Base /\ Trimming /\ [Next]_vars => [Evicts]_vars
    BY <1>1
<1>3. Spec => [][Evicts]_vars
    <2> HIDE DEF Evicts
    <2> QED
        BY <1>2, BaseAlways, TrimmingAlways, PTL DEF Spec
<1> QED
    BY <1>3 DEF EvictsOldestNeeded

\* Every total an int has to hold fits in one.
NoOverflow ==
    Cardinality(Key) <= IntMax /\ \A r \in [Key -> Row \cup {Nil}] : SizeOf(r) <= IntMax

LEMMA MeasureFits ==
    ASSUME TypeOK, NoOverflow
    PROVE  Measure \in Nat /\ ToInt(Measure) = Measure
<1>1. Measure \in Nat /\ IntMax \in Nat /\ Cardinality(Stored) \in Nat
    BY MeasureTyped, StorageAssumption
<1>2. TotalSize <= IntMax
    BY DEF NoOverflow, TypeOK, TotalSize
<1>3. Cardinality(Stored) <= Cardinality(Key) /\ Cardinality(Key) \in Nat
    BY StorageAssumption, FS_Subset, FS_CardinalityType DEF Stored
<1>4. Cardinality(Stored) <= IntMax
    BY <1>1, <1>3 DEF NoOverflow
<1>5. Measure <= IntMax
    BY <1>2, <1>4 DEF Measure
<1> QED
    BY <1>1, <1>5, ToIntBound

\* Without faults a trim knows exactly what there is, and returns within its limit.
LEMMA TrimExact ==
    ASSUME Faults = {}, NoOverflow, Base, Healthy, Trimming, Exact, op.name \in Fit,
           TotalItems \/ PickOldest \/ DropFile \/ DeleteRow
    PROVE  /\ Exact'
           /\ op' = NoOp => op.limit >= IF op.name = "fitSize" THEN TotalSize'
                                        ELSE Cardinality(Stored')
<1> DEFINE Rest == IF op.name = "fitSize" THEN TotalSize' ELSE Cardinality(Stored')
<1>1. op \in Op /\ op.limit \in Nat /\ op.total \in Int /\ op.pc # "idle"
    BY Zenon, ZenonT(60) DEF Base, TypeOK, Op, TotalItems, PickOldest, DropFile, DeleteRow, At
<1>2. Measure \in Nat /\ ToInt(Measure) = Measure
    BY MeasureFits DEF Base
<1>3. \A d \in Statement : d.ok
    <2>1. conn.state = "open" /\ table
        BY DEF Healthy, Fit
    <2> QED
        BY <2>1, StatementSucceeds, Zenon, ZenonT(60) DEF Base
<1>4. rows' = rows => Rest = Measure /\ (op'.name = op.name => Measure' = Measure)
    BY DEF Measure, TotalSize, Stored
<1>5. op' = NoOp => Exact'
    BY NothingUnderWay DEF Exact, Fit
<1>6. CASE TotalItems
    <2>1. rows' = rows
        BY <1>6, Zenon, ZenonT(60) DEF TotalItems
    <2>2. IF Measure > op.limit
          THEN op' = [op EXCEPT !.total = Measure, !.pc = "pick"] ELSE op' = NoOp
        BY <1>2, <1>3, <1>6, Zenon, ZenonT(60) DEF TotalItems, Measure, Return
    <2>3. CASE Measure > op.limit
        <3>1. op'.total = Measure /\ op'.name = op.name /\ op'.pc = "pick"
            BY <1>1, <2>2, <2>3, Zenon, ZenonT(60) DEF Op
        <3> QED
            BY <3>1, <2>1, <1>4, NothingUnderWay DEF Exact
    <2>4. CASE ~(Measure > op.limit)
        BY <2>1, <2>2, <2>4, <1>1, <1>2, <1>4, <1>5
    <2> QED
        BY <2>3, <2>4
<1>7. CASE PickOldest \/ DropFile
    <2>1. rows' = rows /\ op.pc \in {"pick", "drop"}
        BY <1>7, Zenon, ZenonT(60) DEF PickOldest, DropFile, At
    <2>2. op.limit < op.total /\ op.total = Measure
        BY <2>1 DEF Trimming, Exact
    <2>3. ~(PickOldest /\ Stored = {})
        BY <2>2, <1>1, MeasuresEmpty DEF Base, Measure
    <2>4. op'.name = op.name /\ op'.total = op.total /\ op'.pc \in {"drop", "row"}
        <3>1. CASE DropFile
            BY <3>1, <1>1, GotoMoves DEF DropFile, Places, SameOp
        <3>2. CASE PickOldest
            BY <3>2, <2>3, <1>1, <1>3, Zenon, ZenonT(60) DEF PickOldest, Op
        <3> QED
            BY <1>7, <3>1, <3>2
    <2> QED
        BY <2>1, <2>2, <2>4, <1>4, NothingUnderWay DEF Exact
<1>8. CASE DeleteRow
    <2>1. op.pc = "row" /\ op.total = Measure /\ Oldest(op.key) /\ op.size = rows[op.key].size
        BY <1>8 DEF DeleteRow, At, Trimming, Exact
    <2>2. op.key \in Stored /\ op.key \in Key
        BY <2>1 DEF Oldest, Stored
    <2>3. /\ rows' = [rows EXCEPT ![op.key] = Nil]
          /\ IF Left > op.limit
             THEN op' = [NoOp EXCEPT !.name = op.name, !.limit = op.limit,
                                     !.total = Left, !.pc = "pick"]
             ELSE op' = NoOp
        BY <1>3, <1>8 DEF DeleteRow, Left, Return
    <2>4. /\ TotalSize' = TotalSize - rows[op.key].size
          /\ Cardinality(Stored') = Cardinality(Stored) - 1
        BY <2>2, <2>3, MeasuresWithout, Zenon, ZenonT(60) DEF Base
    <2>5. Left = Rest /\ Left \in Int
        <3>1. op.size \in Size \cup {0}
            BY <1>1 DEF Op
        <3>2. op.size \in Nat
            BY <3>1, SizesAreNumbers
        <3>3. CASE op.name = "fitSize"
            BY <3>2, <3>3, <2>1, <2>4, <1>1 DEF Left, Measure
        <3>4. CASE op.name = "fitCount"
            BY <3>2, <3>4, <2>1, <2>4, <1>1 DEF Left, Measure
        <3> QED
            BY <3>3, <3>4 DEF Fit
    <2>6. CASE Left > op.limit
        <3>1. op'.total = Left /\ op'.name = op.name /\ op'.pc = "pick"
            BY <2>3, <2>6, Zenon, ZenonT(60) DEF NoOp
        <3>2. Measure' = Rest
            BY <3>1 DEF Measure
        <3> QED
            BY <3>1, <3>2, <2>5, NothingUnderWay DEF Exact
    <2>7. CASE ~(Left > op.limit)
        BY <2>3, <2>5, <2>7, <1>1, <1>5
    <2> QED
        BY <2>6, <2>7
<1> QED
    BY <1>6, <1>7, <1>8

LEMMA ExactStep ==
    ASSUME Faults = {}, NoOverflow, Base, Healthy, Trimming, Exact, [Next]_vars
    PROVE  /\ Exact'
           /\ op.name \in Fit /\ op' = NoOp =>
                 op.limit >= IF op.name = "fitSize" THEN TotalSize' ELSE Cardinality(Stored')
<1>1. CASE op.name \notin Fit
    <2>1. op'.name \in Fit => op'.pc = "total"
        <3>1. CASE Call
            BY <3>1, CallBegins
        <3>2. CASE Plain
            BY <3>2, <1>1, PlainName DEF Fit
        <3>3. CASE UnlinkDb \/ MoveToTrash \/ MakeDataDir
            BY <3>3, <1>1, GotoMoves, Zenon, ZenonT(60)
            DEF Base, TypeOK, UnlinkDb, MoveToTrash, MakeDataDir, Places, SameOp
        <3>4. CASE Reopen \/ Crash
            BY <3>4, NothingUnderWay DEF Reopen, Crash, Return, Fit
        <3>5. CASE Restart
            BY <3>5, <1>1, Zenon, ZenonT(60) DEF Restart, NoOp, Fit
        <3>6. CASE ListTrash \/ EmptyTrash \/ CoolDown \/ Tick \/ UNCHANGED vars
            BY <3>6, <1>1 DEF ListTrash, EmptyTrash, CoolDown, Tick, vars
        <3> QED
            BY NextCases, <3>1, <3>2, <3>3, <3>4, <3>5, <3>6
    <2> QED
        BY <2>1, <1>1 DEF Exact
<1>2. CASE op.name \in Fit
    <2>1. /\ op.pc \in {"total", "pick", "drop", "row"} /\ op.name \notin {"save", "none"}
          /\ op.pc \notin Resetting
        BY <1>2 DEF Trimming, Fit, Resetting
    <2>2. CASE Plain
        BY <2>1, <2>2, <1>2, TrimSteps, TrimExact
    <2>3. CASE UNCHANGED <<op, rows>>
        <3>1. Exact'
            BY <2>3 DEF Exact, Measure, TotalSize, Stored
        <3> QED
            BY <3>1, <2>1, <2>3, NothingUnderWay
    <2>4. UNCHANGED <<op, rows>> \/ Plain
        <3>1. ~Call /\ ~Crash /\ ~Restart
            BY <2>1, CallFrame, NothingUnderWay DEF Crash, Restart, May, Healthy
        <3> QED
            BY <3>1, <2>1, NextCases, Zenon, ZenonT(60)
            DEF UnlinkDb, MoveToTrash, MakeDataDir, Reopen, ListTrash, EmptyTrash,
                CoolDown, Tick, vars, disk, At, Resetting
    <2> QED
        BY <2>2, <2>3, <2>4
<1> QED
    BY <1>1, <1>2

\* The connection and the table are there without faults, whatever the type.
LEMMA HealthyAlways ==
    ASSUME Faults = {}
    PROVE  Spec => []Healthy
<1>1. Init => Healthy
    <2> SUFFICES ASSUME Init PROVE Healthy
        OBVIOUS
    <2>1. op.pc = "idle" /\ op.name = "none"
        BY NothingUnderWay DEF Init
    <2> QED
        BY <2>1 DEF Init, Healthy, OpenConn
<1>2. Base /\ Base' /\ Healthy /\ [Next]_vars => Healthy'
    <2> SUFFICES ASSUME Base, Base', Healthy, [Next]_vars PROVE Healthy'
        OBVIOUS
    <2>1. CASE ListTrash \/ EmptyTrash \/ CoolDown \/ Tick \/ UNCHANGED vars
        <3>1. UNCHANGED <<rows, files, op, table, dataDir>>
            BY <2>1 DEF ListTrash, EmptyTrash, CoolDown, Tick, vars, disk
        <3>2. conn'.state = conn.state
            BY <2>1 DEF ListTrash, EmptyTrash, CoolDown, Tick, vars, Base, TypeOK, Conn
        <3> QED
            BY <3>1, <3>2 DEF Healthy
    <2>2. ~Crash /\ ~Restart
        BY DEF Crash, Restart, May, Healthy
    <2> QED
        BY NextCases, <2>1, <2>2, CallHealthy, PlainHealthy, ResetHealthy
<1> QED
    BY <1>1, <1>2, BaseAlways, PTL DEF Spec

\* When no call fails, the process does not die and no total exceeds an int, the
\* items are within the limit when a trim returns, for every type of storage.
THEOREM TrimFitsLimit ==
    ASSUME Faults = {}, NoOverflow
    PROVE  Spec => FitsLimit
<1> DEFINE Fits == op.name \in {"fitSize", "fitCount"} /\ op' = NoOp =>
                      op.limit >= IF op.name = "fitSize" THEN TotalSize'
                                  ELSE Cardinality(Stored')
<1>1. Init => Exact
    BY NothingUnderWay DEF Init, Exact, Fit
<1>2. Base /\ Healthy /\ Trimming /\ Exact /\ [Next]_vars => Exact' /\ [Fits]_vars
    BY ExactStep DEF Fit
<1>3. Spec => [][Fits]_vars
    <2> HIDE DEF Fits
    <2> QED
        BY <1>1, <1>2, BaseAlways, HealthyAlways, TrimmingAlways, PTL DEF Spec
<1> QED
    BY <1>3 DEF FitsLimit
===============================================================================
