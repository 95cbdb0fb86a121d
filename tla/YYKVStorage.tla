------------------------------ MODULE YYKVStorage ------------------------------
(***************************************************************************)
(* YYKVStorage.m: a key-value store on disk.  Each item has a row in the   *)
(* sqlite table "manifest"; its value is in the row (inline_data) or in a  *)
(* file of the data directory.  Nothing ties the two together but the      *)
(* order of the calls, so every call that touches the disk is a step here, *)
(* and between two steps the process may die, or the call may fail.        *)
(*                                                                         *)
(* The class is not thread-safe (YYKVStorage.h) and its owner holds a lock *)
(* around each method: one method runs at a time.  Only the emptying of    *)
(* the trash runs beside it, on _trashQueue.  A value is the number of the *)
(* save that brought it; the file of key k has a name made from k (its     *)
(* MD5, in YYDiskCache), so files are indexed by key.                      *)
(***************************************************************************)
EXTENDS Integers, FiniteSets, FiniteSetsExt

CONSTANTS
    Key, Nil,
    Type,            \* _type: "File", "SQLite" or "Mixed"
    Torn,            \* the content of a file whose write stopped half-way
    Size,            \* the sizes of the values callers save
    Limit,           \* the limits callers trim to
    IntMax,          \* INT_MAX
    MaxErrorRetryCount,    \* kMaxErrorRetryCount
    Faults,          \* what may go wrong: "crash", the process dies; "io", a
                     \* call fails and says so; "busy" and "unlink", see below
    MaxSaves, MaxTime, MaxResets    \* bounds on saves, the clock and _reset

ASSUME StorageAssumption ==
    /\ IsFiniteSet(Key) /\ Nil \notin Key
    /\ Type \in {"File", "SQLite", "Mixed"}
    /\ Nil # Torn /\ Nil \notin Nat /\ Torn \notin Nat
    /\ Size \subseteq Nat \ {0} /\ Limit \subseteq Nat
    /\ IntMax \in Nat /\ MaxErrorRetryCount \in Nat
    /\ Faults \subseteq {"crash", "io", "busy", "unlink"}
    /\ MaxSaves \in Nat /\ MaxTime \in Nat /\ MaxResets \in Nat

VARIABLES
    \* on disk
    rows,        \* the manifest: for each key, its row
    table,       \* has the database the table "manifest"?
    files,       \* the data directory: for each key, the content of its file
    dataDir,     \* does the data directory exist?
    trash,       \* how many directories of the trash no block has tried to delete
    \* in the process
    conn,        \* _db with _dbOpenErrorCount and _dbLastOpenErrorTime
    op,          \* the method being executed
    job,         \* _trashQueue: is a block waiting, what the running one listed
    clock,       \* time(NULL), in seconds
    \* history
    next,        \* the number of the next save
    acked,       \* for each key, the save answered YES that nothing has since
                 \* tried to replace or remove
    floor        \* for each key, the oldest save that may still be read

disk == <<rows, table, files, dataDir, trash>>
history == <<next, acked, floor>>
vars == <<disk, conn, op, job, clock, history>>

Ver == 1..MaxSaves
Row == [file : BOOLEAN, ver : Ver, size : Size, access : 0..MaxTime]
ASSUME RowAssumption == Nil \notin Row
Conn == [state : {"open", "closed", "down"}, errors : Nat, cooled : BOOLEAN]
Op == [name : {"none", "save", "remove", "get", "value", "fitSize", "fitCount",
               "keys", "where", "all", "rebuild"},
       pc : {"idle", "write", "lookup", "drop", "row", "undo", "query", "touch",
             "read", "total", "pick", "files", "rows",
             "unlink", "move", "mkdir", "open"},
       key : Key \cup {Nil}, ver : Ver \cup {0}, size : Size \cup {0},
       file : BOOLEAN, limit : Nat, total : Int,
       keys : SUBSET Key, named : SUBSET Key]
NoOp == [name |-> "none", pc |-> "idle", key |-> Nil, ver |-> 0, size |-> 0,
         file |-> FALSE, limit |-> 0, total |-> 0, keys |-> {}, named |-> {}]

TypeOK ==
    /\ rows \in [Key -> Row \cup {Nil}]
    /\ table \in BOOLEAN /\ dataDir \in BOOLEAN
    /\ files \in [Key -> Ver \cup {Nil, Torn}]
    /\ trash \in Nat
    /\ conn \in Conn
    /\ op \in Op
    /\ job \in [waiting : BOOLEAN, listed : Nat]
    /\ clock \in 0..MaxTime
    /\ next \in 1..(MaxSaves + 1)
    /\ acked \in [Key -> Ver \cup {Nil}]
    /\ floor \in [Key -> 0..(MaxSaves + 1)]

Stored == {k \in Key : rows[k] # Nil}
Named == {k \in Stored : rows[k].file}
\* select sum(size) from manifest
SizeOf(r) == MapThenSumSet(LAMBDA k : r[k].size, {k \in Key : r[k] # Nil})
TotalSize == SizeOf(rows)

NoRows == [k \in Key |-> Nil]
OpenConn == [state |-> "open", errors |-> 0, cooled |-> TRUE]

Init ==
    /\ rows = NoRows /\ table = TRUE
    /\ files = [k \in Key |-> Nil] /\ dataDir = TRUE
    /\ trash = 0
    /\ conn = OpenConn
    /\ op = NoOp
    /\ job = [waiting |-> TRUE, listed |-> 0]
    /\ clock = 0
    /\ next = 1 /\ acked = [k \in Key |-> Nil] /\ floor = [k \in Key |-> 0]

May(fault) == fault \in Faults
\* What a call may answer: YES, and NO too if it can fail.
Answers == IF May("io") THEN BOOLEAN ELSE {TRUE}

-------------------------------------------------------------------------------
(* The database connection. *)

\* _dbOpen has failed.  The count of failures is only ever compared with
\* kMaxErrorRetryCount: it stops there.
Refused == [state |-> "closed", cooled |-> FALSE,
            errors |-> IF conn.errors < MaxErrorRetryCount
                       THEN conn.errors + 1 ELSE conn.errors]

\* _dbOpen && _dbInitialize.  The second may fail and leave _db open.
DbOpen ==
    {[conn |-> OpenConn, table |-> TRUE, ok |-> TRUE]} \cup
    (IF May("io")
     THEN {[conn |-> OpenConn, table |-> table, ok |-> FALSE],
           [conn |-> Refused, table |-> table, ok |-> FALSE]}
     ELSE {})

\* _dbCheck
DbCheck ==
    IF conn.state = "closed" /\ conn.errors < MaxErrorRetryCount /\ conn.cooled
    THEN DbOpen
    ELSE {[conn |-> conn, table |-> table, ok |-> conn.state = "open"]}

\* A statement: _dbCheck, then sqlite3_prepare_v2 and sqlite3_step.
Statement ==
    {[c EXCEPT !.ok = c.ok /\ c.table /\ done] : c \in DbCheck, done \in Answers}

Db(d) == d \in Statement /\ conn' = d.conn /\ table' = d.table

\* kMinRetryTimeInterval passes after a failed open.
CoolDown ==
    /\ ~conn.cooled
    /\ conn' = [conn EXCEPT !.cooled = TRUE]
    /\ UNCHANGED <<disk, op, job, clock, history>>

-------------------------------------------------------------------------------
(* The methods.  Each starts when no other is running; a guard on op.pc      *)
(* orders its steps, and a method returns by setting op to NoOp.             *)

Ready == op = NoOp /\ conn.state # "down"
Goto(pc) == op' = [op EXCEPT !.pc = pc]
Return == op' = NoOp
At(pc) == op.pc = pc
Untouched(S) == [k \in Key |-> IF k \in S THEN Nil ELSE acked[k]]

\* Mutation: an item that moves into its row leaves its file behind.
SaveItemKeepingFile(k, size, inFile) ==
    /\ Ready
    /\ next <= MaxSaves
    /\ Type = "File" => inFile
    /\ op' = [NoOp EXCEPT !.name = "save", !.key = k, !.ver = next, !.size = size,
              !.file = inFile, !.pc = IF inFile THEN "write" ELSE "row"]
    /\ next' = next + 1
    /\ acked' = Untouched({k})
    /\ UNCHANGED <<disk, conn, job, clock, floor>>

\* saveItemWithKey:value:filename:extendedData:, with a file name if inFile.
SaveItem(k, size, inFile) ==
    /\ Ready
    /\ next <= MaxSaves
    /\ Type = "File" => inFile
    /\ op' = [NoOp EXCEPT !.name = "save", !.key = k, !.ver = next, !.size = size,
              !.file = inFile,
              !.pc = IF inFile THEN "write"
                     ELSE IF Type # "SQLite" THEN "lookup" ELSE "row"]
    /\ next' = next + 1
    /\ acked' = Untouched({k})
    /\ UNCHANGED <<disk, conn, job, clock, floor>>

\* removeItemForKey:
RemoveItem(k) ==
    /\ Ready
    /\ op' = [NoOp EXCEPT !.name = "remove", !.key = k,
              !.pc = IF Type = "SQLite" THEN "row" ELSE "lookup"]
    /\ acked' = Untouched({k})
    /\ UNCHANGED <<disk, conn, job, clock, next, floor>>

\* getItemForKey: ("get") and getItemValueForKey: ("value").
GetItem(k, name) ==
    /\ Ready
    /\ op' = [NoOp EXCEPT !.name = name, !.key = k, !.pc = "query"]
    /\ UNCHANGED <<disk, conn, job, clock, history>>

\* removeItemsToFitSize: and removeItemsToFitCount: with a limit above 0, and
\* removeAllItemsWithProgressBlock:endBlock:, which is the second with limit 0.
RemoveItemsToFit(name, limit) ==
    /\ Ready
    /\ limit < IntMax
    /\ name = "fitSize" => limit > 0
    /\ op' = [NoOp EXCEPT !.name = name, !.limit = limit, !.pc = "total"]
    /\ UNCHANGED <<disk, conn, job, clock, history>>

\* removeItemForKeys: ("keys"), and removeItemsLargerThanSize: and
\* removeItemsEarlierThanTime: ("where"), for the items they select.
RemoveItems(name, keys) ==
    /\ Ready
    /\ op' = [NoOp EXCEPT !.name = name, !.keys = keys,
              !.pc = IF Type = "SQLite" THEN "rows" ELSE "lookup"]
    /\ acked' = Untouched(keys)
    /\ UNCHANGED <<disk, conn, job, clock, next, floor>>

\* removeAllItems, also reached from the trims with a limit of 0 or less.
\* _dbClose always answers YES.
RemoveAllItems ==
    /\ Ready
    /\ trash < MaxResets
    /\ op' = [NoOp EXCEPT !.name = "all", !.pc = "unlink"]
    /\ conn' = [conn EXCEPT !.state = "closed"]
    /\ acked' = Untouched(Key)
    /\ UNCHANGED <<disk, job, clock, next, floor>>

-------------------------------------------------------------------------------
(* The steps of saving, removing and reading. *)

\* _fileWriteWithName:data: is not atomic: a failed write may leave a part.
WriteFile ==
    /\ At("write")
    /\ \/ /\ dataDir
          /\ files' = [files EXCEPT ![op.key] = op.ver]
          /\ Goto("row")
       \/ /\ ~dataDir \/ May("io")
          /\ \/ UNCHANGED files
             \/ dataDir /\ files' = [files EXCEPT ![op.key] = Torn]
          /\ Return
    /\ UNCHANGED <<rows, table, dataDir, trash, conn, job, clock, history>>

AfterFiles(named) == IF named = {} THEN "rows" ELSE "files"

\* _dbGetFilenameWithKey: and the queries for the file names of several items.
LookupFilename ==
    /\ At("lookup")
    /\ \E d \in Statement :
         LET found == IF d.ok THEN Named \cap (op.keys \cup {op.key}) ELSE {} IN
         /\ Db(d)
         /\ op' = IF op.name \in {"keys", "where"}
                  THEN [op EXCEPT !.named = found, !.pc = AfterFiles(found)]
                  ELSE [op EXCEPT !.pc = IF found # {} THEN "drop" ELSE "row"]
    /\ UNCHANGED <<rows, files, dataDir, trash, job, clock, history>>

\* _fileDeleteWithName:, whose answer no caller looks at.
DeleteFile(k) ==
    \/ files' = [files EXCEPT ![k] = Nil]
    \/ May("io") /\ UNCHANGED files

DropFile ==
    /\ At("drop")
    /\ DeleteFile(op.key)
    /\ Goto("row")
    /\ UNCHANGED <<rows, table, dataDir, trash, conn, job, clock, history>>

\* Mutation: the save is reported before the row is in the database.
SaveRowUnchecked ==
    /\ At("row") /\ op.name = "save"
    /\ \E d \in Statement :
         /\ Db(d)
         /\ rows' = IF d.ok THEN [rows EXCEPT ![op.key] =
                      [file |-> op.file, ver |-> op.ver, size |-> op.size,
                       access |-> clock]] ELSE rows
         /\ acked' = [acked EXCEPT ![op.key] = op.ver]
         /\ floor' = [floor EXCEPT ![op.key] = op.ver]
         /\ Return
    /\ UNCHANGED <<files, dataDir, trash, job, clock, next>>

\* _dbSaveWithKey:value:fileName:extendedData:
SaveRow ==
    /\ At("row") /\ op.name = "save"
    /\ \E d \in Statement :
         /\ Db(d)
         /\ IF d.ok
            THEN /\ rows' = [rows EXCEPT ![op.key] =
                      [file |-> op.file, ver |-> op.ver, size |-> op.size,
                       access |-> clock]]
                 /\ acked' = [acked EXCEPT ![op.key] = op.ver]
                 /\ floor' = [floor EXCEPT ![op.key] = op.ver]
                 /\ Return
            ELSE /\ IF op.file THEN Goto("undo") ELSE Return
                 /\ UNCHANGED <<rows, acked, floor>>
    /\ UNCHANGED <<files, dataDir, trash, job, clock, next>>

\* Mutation: the file of the older row is put back.
UndoWriteRestores ==
    /\ At("undo")
    /\ files' = [files EXCEPT ![op.key] = IF op.key \in Named THEN rows[op.key].ver ELSE Nil]
    /\ Return
    /\ UNCHANGED <<rows, table, dataDir, trash, conn, job, clock, history>>

\* The file of a save whose row could not be written is deleted.
UndoWrite ==
    /\ At("undo")
    /\ DeleteFile(op.key)
    /\ Return
    /\ UNCHANGED <<rows, table, dataDir, trash, conn, job, clock, history>>

\* Mutation: a removal answers YES whatever the database says.
DeleteRowUnchecked ==
    /\ At("row") /\ op.name # "save"
    /\ \E d \in Statement :
         /\ Db(d)
         /\ rows' = IF d.ok THEN [rows EXCEPT ![op.key] = Nil] ELSE rows
         /\ floor' = IF op.name = "remove"
                     THEN [floor EXCEPT ![op.key] = next] ELSE floor
    /\ Return
    /\ UNCHANGED <<files, dataDir, trash, job, clock, next, acked>>

\* _dbDeleteItemWithKey:, the last step of removing an item, of evicting one,
\* and of a read that found no file.  A trim goes on while it is over its limit.
DeleteRow ==
    /\ At("row") /\ op.name # "save"
    /\ \E d \in Statement :
         LET left == op.total - (CASE op.name = "fitSize" -> op.size
                                   [] op.name = "fitCount" -> 1
                                   [] OTHER -> 0) IN
         /\ Db(d)
         /\ rows' = IF d.ok THEN [rows EXCEPT ![op.key] = Nil] ELSE rows
         /\ floor' = IF d.ok /\ op.name = "remove"
                     THEN [floor EXCEPT ![op.key] = next] ELSE floor
         /\ IF d.ok /\ left > op.limit
            THEN op' = [NoOp EXCEPT !.name = op.name, !.limit = op.limit,
                                    !.total = left, !.pc = "pick"]
            ELSE Return
    /\ UNCHANGED <<files, dataDir, trash, job, clock, next, acked>>

\* _dbGetItemWithKey:, or for a value _dbGetFilenameWithKey: and
\* _dbGetValueWithKey:.  A storage of type SQLite finds no value in a row that
\* names a file.
QueryRow ==
    /\ At("query")
    /\ \E d \in Statement :
         /\ Db(d)
         /\ IF ~d.ok \/ op.key \notin Stored THEN Return
            ELSE IF op.name = "get" \/ op.key \notin Named THEN Goto("touch")
            ELSE IF Type = "SQLite" THEN Return ELSE Goto("read")
    /\ UNCHANGED <<rows, files, dataDir, trash, job, clock, history>>

\* _dbUpdateAccessTimeWithKey:, before the file is read by getItemForKey:.
TouchRow ==
    /\ At("touch")
    /\ \E d \in Statement :
         /\ Db(d)
         /\ rows' = IF d.ok THEN [rows EXCEPT ![op.key].access = clock] ELSE rows
         /\ IF op.name = "get" /\ op.key \in Named THEN Goto("read") ELSE Return
    /\ UNCHANGED <<files, dataDir, trash, job, clock, history>>

\* _fileReadWithName:, and the row is deleted if there is nothing to read.
ReadFile ==
    /\ At("read")
    /\ \/ /\ files[op.key] # Nil
          /\ IF op.name = "value" THEN Goto("touch") ELSE Return
          /\ UNCHANGED acked
       \/ /\ files[op.key] = Nil \/ May("io")
          /\ Goto("row")
          /\ acked' = Untouched({op.key})
    /\ UNCHANGED <<disk, conn, job, clock, next, floor>>

-------------------------------------------------------------------------------
(* The steps of the trims. *)

\* sqlite3_column_int keeps the low 32 bits of the 64-bit result.
ToInt(n) == ((n + IntMax + 1) % (2 * (IntMax + 1))) - (IntMax + 1)

\* Mutation: one item too many is allowed.
TotalItemsOffByOne ==
    /\ At("total")
    /\ \E d \in Statement :
         LET total == IF ~d.ok THEN -1
                      ELSE ToInt(IF op.name = "fitSize" THEN TotalSize
                                 ELSE Cardinality(Stored)) IN
         /\ Db(d)
         /\ IF total > op.limit + 1
            THEN op' = [op EXCEPT !.total = total, !.pc = "pick"] ELSE Return
    /\ UNCHANGED <<rows, files, dataDir, trash, job, clock, history>>

\* _dbGetTotalItemSize and _dbGetTotalItemCount, -1 if they fail.
TotalItems ==
    /\ At("total")
    /\ \E d \in Statement :
         LET total == IF ~d.ok THEN -1
                      ELSE ToInt(IF op.name = "fitSize" THEN TotalSize
                                 ELSE Cardinality(Stored)) IN
         /\ Db(d)
         /\ IF total > op.limit
            THEN op' = [op EXCEPT !.total = total, !.pc = "pick"] ELSE Return
    /\ UNCHANGED <<rows, files, dataDir, trash, job, clock, history>>

\* Mutation: the rows come newest first.
Newest(k) ==
    k \in Stored /\ \A j \in Stored : rows[k].access >= rows[j].access

\* The order of _dbGetItemSizeInfoOrderByTimeAscWithLimit:, ties in any order.
Oldest(k) ==
    k \in Stored /\ \A j \in Stored : rows[k].access <= rows[j].access

\* The next item of the list it returns; the trim ends when there is none.  The
\* code fetches sixteen at a time.  The storage has one caller, so nobody touches
\* the rows in between, and to ask again for each item gives the same items.
PickOldest ==
    /\ At("pick")
    /\ \E d \in Statement :
         /\ Db(d)
         /\ IF d.ok /\ Stored # {}
            THEN \E k \in Key :
                   /\ Oldest(k)
                   /\ op' = [op EXCEPT !.key = k, !.size = rows[k].size,
                               !.pc = IF rows[k].file THEN "drop" ELSE "row"]
                   /\ acked' = Untouched({k})
            ELSE Return /\ UNCHANGED acked
    /\ UNCHANGED <<rows, files, dataDir, trash, job, clock, next, floor>>

\* The files of several items are deleted one by one ...
DropFiles ==
    /\ At("files")
    /\ \E k \in op.named :
         /\ DeleteFile(k)
         /\ op' = [op EXCEPT !.named = @ \ {k}, !.pc = AfterFiles(op.named \ {k})]
    /\ UNCHANGED <<rows, table, dataDir, trash, conn, job, clock, history>>

\* ... and then their rows at once.  _dbDeleteItemWithKeys: takes any result
\* but SQLITE_ERROR for success, so a busy or full database answers YES.
DeleteRows ==
    /\ At("rows")
    /\ \E d \in Statement, busy \in BOOLEAN :
         LET done == d.ok /\ ~busy
             yes == d.ok /\ (busy => op.name = "keys") IN
         /\ busy => May("busy")
         /\ Db(d)
         /\ rows' = [k \in Key |-> IF done /\ k \in op.keys THEN Nil ELSE rows[k]]
         /\ floor' = [k \in Key |-> IF yes /\ k \in op.keys THEN next ELSE floor[k]]
    /\ Return
    /\ UNCHANGED <<files, dataDir, trash, job, clock, next, acked>>

-------------------------------------------------------------------------------
(* Starting over: _reset, and the emptying of the trash.                     *)

\* The database, its -shm and its -wal file are removed; no one looks at the
\* answers.  One step: once the database itself is gone sqlite discards the log
\* beside it, and as long as it is there it has the rows.
UnlinkDb ==
    /\ At("unlink")
    /\ \E gone \in IF May("unlink") THEN BOOLEAN ELSE {TRUE} :
         /\ rows' = IF gone THEN NoRows ELSE rows
         /\ table' = (table /\ ~gone)
    /\ Goto("move")
    /\ UNCHANGED <<files, dataDir, trash, conn, job, clock, history>>

\* _fileMoveAllToTrash: the data directory is renamed into the trash ...
MoveToTrash ==
    /\ At("move")
    /\ \/ /\ dataDir
          /\ dataDir' = FALSE
          /\ files' = [k \in Key |-> Nil]
          /\ trash' = trash + 1
          /\ Goto("mkdir")
       \/ /\ ~dataDir \/ May("io")
          /\ Goto("open")
          /\ UNCHANGED <<dataDir, files, trash>>
    /\ UNCHANGED <<rows, table, conn, job, clock, history>>

\* ... and made anew.  No one looks at this answer either.
MakeDataDir ==
    /\ At("mkdir")
    /\ dataDir' \in Answers
    /\ Goto("open")
    /\ UNCHANGED <<rows, table, files, trash, conn, job, clock, history>>

\* Mutation: the trash is left for the next launch.
ReopenOnly ==
    /\ At("open")
    /\ \E d \in DbOpen :
         /\ conn' = d.conn
         /\ table' = d.table
         /\ floor' = IF d.ok THEN [k \in Key |-> next] ELSE floor
    /\ Return
    /\ UNCHANGED <<rows, files, dataDir, trash, job, clock, next, acked>>

\* _fileEmptyTrashInBackground, _dbOpen and _dbInitialize.  If they fail,
\* initWithPath:type: answers nil and there is no storage.
Reopen ==
    /\ At("open")
    /\ job' = [job EXCEPT !.waiting = TRUE]
    /\ \E d \in DbOpen :
         /\ conn' = IF op.name = "rebuild" /\ ~d.ok
                    THEN [conn EXCEPT !.state = "down"] ELSE d.conn
         /\ table' = d.table
         /\ floor' = IF op.name = "all" /\ d.ok THEN [k \in Key |-> next] ELSE floor
    /\ Return
    /\ UNCHANGED <<rows, files, dataDir, trash, clock, next, acked>>

\* A block of _trashQueue lists the trash directory, then deletes what it listed,
\* or fails to: it does not try twice.
ListTrash ==
    /\ job.waiting /\ job.listed = 0
    /\ job' = [waiting |-> FALSE, listed |-> trash]
    /\ UNCHANGED <<disk, conn, op, clock, history>>

\* Mutation: the listing is used again.
EmptyTrashAgain ==
    /\ job.listed > 0
    /\ trash' = trash - job.listed
    /\ UNCHANGED <<rows, table, files, dataDir, conn, op, job, clock, history>>

EmptyTrash ==
    /\ job.listed > 0
    /\ trash' = trash - job.listed
    /\ job' = [job EXCEPT !.listed = 0]
    /\ UNCHANGED <<rows, table, files, dataDir, conn, op, clock, history>>

-------------------------------------------------------------------------------
(* The process dies and is started again.                                    *)

\* A write that was under way may leave a part of the file.  What sqlite has
\* committed survives the death of the process.
Crash ==
    /\ May("crash")
    /\ conn.state # "down"
    /\ \/ UNCHANGED files
       \/ At("write") /\ dataDir /\ files' = [files EXCEPT ![op.key] = Torn]
    /\ conn' = [state |-> "down", errors |-> 0, cooled |-> TRUE]
    /\ Return
    /\ job' = [waiting |-> FALSE, listed |-> 0]
    /\ UNCHANGED <<rows, table, dataDir, trash, clock, history>>

\* initWithPath:type: makes the directories and opens the database.  If the
\* database does not open, for a moment or for good, it starts over with an
\* empty one, and every item that was acknowledged is given up.  (If a directory
\* cannot be made it answers nil: no step.)
Restart ==
    /\ conn.state = "down"
    /\ dataDir' = TRUE
    /\ \/ /\ conn' = OpenConn
          /\ table' = TRUE
          /\ job' = [job EXCEPT !.waiting = TRUE]
          /\ UNCHANGED <<op, acked>>
       \/ /\ May("io")
          /\ trash < MaxResets
          /\ conn' = [state |-> "closed", errors |-> 1, cooled |-> FALSE]
          /\ op' = [NoOp EXCEPT !.name = "rebuild", !.pc = "unlink"]
          /\ acked' = Untouched(Key)
          /\ UNCHANGED <<table, job>>
    /\ UNCHANGED <<rows, files, trash, clock, next, floor>>

Tick ==
    /\ clock < MaxTime
    /\ clock' = clock + 1
    /\ UNCHANGED <<disk, conn, op, job, history>>

Call ==
    \/ \E k \in Key :
          \/ \E size \in Size, inFile \in BOOLEAN : SaveItem(k, size, inFile)
          \/ RemoveItem(k)
          \/ \E name \in {"get", "value"} : GetItem(k, name)
    \/ \E name \in {"fitSize", "fitCount"}, limit \in Limit :
          RemoveItemsToFit(name, limit)
    \/ \E keys \in (SUBSET Key) \ {{}} : RemoveItems("keys", keys)
    \/ \E size \in Size :
          RemoveItems("where", {k \in Stored : rows[k].size > size})
    \/ \E time \in 1..MaxTime :
          RemoveItems("where", {k \in Stored : rows[k].access < time})
    \/ RemoveAllItems

Step ==
    \/ WriteFile \/ LookupFilename \/ DropFile \/ SaveRow \/ UndoWrite
    \/ DeleteRow \/ QueryRow \/ TouchRow \/ ReadFile
    \/ TotalItems \/ PickOldest \/ DropFiles \/ DeleteRows
    \/ UnlinkDb \/ MoveToTrash \/ MakeDataDir \/ Reopen

Next == Call \/ Step \/ CoolDown \/ ListTrash \/ EmptyTrash \/ Crash \/ Restart \/ Tick

Spec == Init /\ [][Next]_vars

-------------------------------------------------------------------------------
(* Properties. *)

\* What getItemForKey: would return for k now, every call going well.
Readable(k) == IF k \notin Stored THEN Nil
               ELSE IF rows[k].file THEN files[k] ELSE rows[k].ver

\* Once saveItemWithKey: has answered YES, the item can be read back until
\* something is done about that key (a save, a removal, an eviction, a read that
\* fails): through failures of other operations, crashes and restarts.  The one
\* exception is a launch at which the database does not open: initWithPath:type:
\* then wipes the whole store, and Restart takes every acknowledgement back.
AckedDurable == \A k \in Key : acked[k] # Nil => Readable(k) = acked[k]

\* Once a save or a removal has answered YES, no value it replaced or removed
\* can be read again ("Whether succeed", YYKVStorage.h), although rows and files
\* change at different times, undo steps fail and files are left behind.
NoStaleRead ==
    \A k \in Key : Readable(k) \in Nat => Readable(k) >= floor[k]

\* Whatever fails and wherever the process dies, what can be read for a key changes
\* only to the save of that key that is under way, or is lost: no file or row
\* that was left behind ever comes to light again.
Items == INSTANCE ItemStore
           WITH store <- [k \in Key |-> Readable(k)], saves <- next - 1,
                saving <- IF op.name = "save" THEN op.key ELSE Nil
ImplementsStore == Items!Spec

\* Without faults, between two methods every file belongs to the row that names
\* it and every row that names a file has it: nothing leaks, nothing dangles.
RowFileAgreement ==
    op = NoOp =>
        \A k \in Key : files[k] = IF k \in Named THEN rows[k].ver ELSE Nil

\* A trim deletes an item only if none was used less recently and the items
\* still exceed the limit: least recently used first, and no more than it must.
EvictsOldestNeeded ==
    [][\A k \in Stored :
         op.name \in {"fitSize", "fitCount"} /\ rows'[k] = Nil =>
            /\ \A j \in Stored : rows[k].access <= rows[j].access
            /\ op.limit < IF op.name = "fitSize" THEN TotalSize
                          ELSE Cardinality(Stored)]_vars

\* "Remove items to make the total size not larger than a specified size"
\* (YYKVStorage.h), and the same of the count: that is so, without faults, when
\* the trim returns.
FitsLimit ==
    [][op.name \in {"fitSize", "fitCount"} /\ op' = NoOp =>
         op.limit >= IF op.name = "fitSize" THEN TotalSize'
                     ELSE Cardinality(Stored')]_vars

\* Whatever is in the trash will be deleted: a block that has yet to list it is
\* waiting, or will be by the end of the reset under way or after the next launch.
TrashIsScheduled ==
    trash > job.listed =>
        job.waiting \/ op.name \in {"all", "rebuild"} \/ conn.state = "down"

===============================================================================
