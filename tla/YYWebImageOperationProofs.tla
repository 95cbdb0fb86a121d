----------------------- MODULE YYWebImageOperationProofs -----------------------
(***************************************************************************)
(* Proofs about YYWebImageOperation, for any number of operations and any  *)
(* options.                                                                *)
(*                                                                         *)
(* The argument: the right to report the end of a request is held by       *)
(* exactly one of three, the executing flag, a _cancelOperation still to   *)
(* be performed, or the past.  A handler reports the end only if it is not *)
(* cancelled, and then the flag is still set, because the request is at    *)
(* one place at a time (Places).  A _completion that cancels while it is   *)
(* told the end finds the flag set too, and gains one more report by it.   *)
(*                                                                         *)
(* The count of active network requests is never too low: a request is     *)
(* counted up in the step that opens its connection and is counted down    *)
(* only in a step that forgets it, and a request has one connection at a   *)
(* time.  A change of the count may wait on the main queue, so the sum     *)
(* over count and queue is what is preserved.                              *)
(***************************************************************************)
EXTENDS YYWebImageOperation, FiniteSetTheorems, TLAPS

\* A step that names no prover is tried with SMT, then with Zenon, then with
\* SMT again for longer.
USE SMTT(15), ZenonT(20), SMTT(60)

One(b) == IF b THEN 1 ELSE 0

\* In how many places the work on a request can go on.
Places(r) ==
    r.performs["_startOperation"] + r.performs["_startRequest"]
    + r.performs["_didReceiveImageFromDiskCache"] + r.performs["_didReceiveImageFromWeb"]
    + One(r.thread # "elsewhere") + One(r.connection # "nil") + One(r.block # "none")

Cancels(r) == r.performs["_cancelOperation"]

Sound(r) ==
    /\ r.ends + Cancels(r) + One(r.alive /\ r.executing) <= 1 + One(r.reentered)
    /\ r.reentered => r.cancelled
    /\ Places(r) <= 1
    /\ r.alive /\ ~r.cancelled /\ Places(r) = 1 => r.executing
    /\ r.alive /\ r.executing => r.started /\ ~r.cancelled /\ ~r.finished
    /\ r.alive /\ r.finished => r.started
    /\ ~r.started => r.ends = 0 /\ Cancels(r) = 0 /\ Places(r) = 0
    /\ r.taskID => r.alive /\ (r.executing \/ Cancels(r) > 0)
    /\ ~r.alive => /\ r.thread = "elsewhere" /\ r.connection = "nil"
                   /\ r.block \notin {"lookup", "decode"}
                   /\ \A s \in Selector : r.performs[s] = 0
    /\ r.ends = 1 => r.stage \in {"finished", "cancelled"}
    /\ r.ends = 2 => r.stage = "cancelled"

\* What a step may make of an operation q.
Follows(q, r) ==
    /\ r \in Operation
    /\ Sound(r)
    /\ q.cancelled => NothingButCancelled(q, r)

IInv == TypeOK /\ \A o \in Op : Sound(op[o])

-------------------------------------------------------------------------------
(* Types. *)

\* Changing one field, or the number of selectors to perform, keeps the type.
LEMMA FlagTypes ==
    ASSUME NEW r \in Operation, NEW b \in BOOLEAN
    PROVE  /\ [r EXCEPT !.alive = b] \in Operation
           /\ [r EXCEPT !.started = b] \in Operation
           /\ [r EXCEPT !.executing = b] \in Operation
           /\ [r EXCEPT !.finished = b] \in Operation
           /\ [r EXCEPT !.cancelled = b] \in Operation
           /\ [r EXCEPT !.taskID = b] \in Operation
           /\ [r EXCEPT !.late = b] \in Operation
           /\ [r EXCEPT !.reentered = b] \in Operation
  BY DEF Operation

LEMMA ConnectionType ==
    ASSUME NEW r \in Operation, NEW c \in {"nil", "open", "dead"}
    PROVE  [r EXCEPT !.connection = c] \in Operation
  BY DEF Operation

LEMMA ThreadType ==
    ASSUME NEW r \in Operation, NEW t \in {"elsewhere", "_startOperation", "_startRequest"}
    PROVE  [r EXCEPT !.thread = t] \in Operation
  BY DEF Operation

LEMMA BlockType ==
    ASSUME NEW r \in Operation, NEW b \in {"none", "disk", "lookup", "web", "decode"}
    PROVE  [r EXCEPT !.block = b] \in Operation
  BY DEF Operation

LEMMA StageType ==
    ASSUME NEW r \in Operation, NEW st \in {"none", "progress", "finished", "cancelled"}
    PROVE  [r EXCEPT !.stage = st] \in Operation
  BY DEF Operation

LEMMA PerformType ==
    ASSUME NEW r \in Operation, NEW s \in Selector
    PROVE  /\ Perform(r, s) \in Operation
           /\ r.performs[s] > 0 => Performed(r, s) \in Operation
  BY DEF Perform, Performed, Operation

LEMMA CompleteType ==
    ASSUME NEW r \in Operation, NEW st \in {"finished", "cancelled"}
    PROVE  Complete(r, st) \in Operation
<1>1. [r EXCEPT !.ends = @ + 1] \in Operation
  BY DEF Operation
<1> QED
  BY <1>1, StageType, Zenon, ZenonT(60) DEF Complete

LEMMA FinishType ==
    ASSUME NEW r \in Operation
    PROVE  _finish(r) \in Operation
  BY FlagTypes, Zenon, ZenonT(60) DEF _finish

LEMMA CancelType ==
    ASSUME NEW r \in Operation
    PROVE  cancel(r) \in Operation
<1>1. (r.finished \/ r.started) \in BOOLEAN /\ "_cancelOperation" \in Selector
  BY DEF Operation, Selector
<1>2. [r EXCEPT !.cancelled = TRUE, !.executing = FALSE,
                !.finished = @ \/ r.started] \in Operation
  BY <1>1, FlagTypes, Zenon, ZenonT(60)
<1> QED
  BY <1>1, <1>2, PerformType DEF cancel

-------------------------------------------------------------------------------
(* _completion. *)

\* An operation whose end a handler is about to report.
Ends(u) ==
    /\ u.alive /\ u.started /\ u.executing /\ ~u.cancelled /\ ~u.reentered
    /\ Places(u) = 0 /\ u.ends = 0 /\ Cancels(u) = 0

LEMMA CompletedKeeps ==
    ASSUME NEW u \in Operation, NEW c \in Completed(u)
    PROVE  _finish(c) \in Operation /\ _finish(c).connection = u.connection
<1> DEFINE a == Complete(u, "finished")
           b == cancel(a)
           d == [b EXCEPT !.reentered = TRUE]
<1>0. a.connection = u.connection
  BY DEF Complete, Operation
<1>1. a \in Operation /\ a.connection = u.connection
  BY <1>0, CompleteType
<1>2. c = a \/ c = d
  BY DEF Completed
<1> HIDE DEF a
<1>3. b \in Operation
  BY <1>1, CancelType
<1>4. b.connection = a.connection
  BY <1>1 DEF cancel, Perform, Operation
<1> HIDE DEF b
<1>5. d \in Operation /\ d.connection = b.connection
  <2>1. d \in Operation
    BY <1>3, FlagTypes
  <2> QED
    BY <1>3, <2>1 DEF Operation
<1>6. c \in Operation /\ c.connection = u.connection
  BY <1>1, <1>2, <1>4, <1>5
<1>7. _finish(c).connection = c.connection
  BY <1>6 DEF _finish, Operation
<1> QED
  BY <1>6, <1>7, FinishType

\* The end is reported and, whether or not _completion cancels, all is in order.
LEMMA CompletedSound ==
    ASSUME NEW u \in Operation, Ends(u), NEW c \in Completed(u)
    PROVE  _finish(c) \in Operation /\ Sound(_finish(c))
<1> DEFINE a == Complete(u, "finished")
           b == [cancel(a) EXCEPT !.reentered = TRUE]
<1>1. c = a \/ c = b
  BY DEF Completed
<1>2. Sound(_finish(a))
  <2> DEFINE f == _finish(a)
  <2>1. /\ f.alive /\ f.started /\ ~f.executing /\ f.finished /\ ~f.cancelled
        /\ ~f.reentered /\ ~f.taskID /\ f.ends = 1 /\ f.stage = "finished"
    BY DEF Ends, Complete, _finish, Operation
  <2>2. Places(f) = 0 /\ Cancels(f) = 0
    BY DEF Ends, Complete, _finish, Operation, Places, Cancels
  <2> HIDE DEF f
  <2>3. Sound(f)
    BY <2>1, <2>2 DEF Sound, One
  <2> QED
    BY <2>3 DEF f
<1>3. Sound(_finish(b))
  <2> DEFINE f == _finish(b)
  <2>1. /\ f.alive /\ f.started /\ ~f.executing /\ f.finished /\ f.cancelled
        /\ f.reentered /\ ~f.taskID /\ f.ends = 1 /\ f.stage = "finished"
    BY DEF Ends, Complete, cancel, Perform, _finish, Operation
  <2>2. Places(f) = 0 /\ Cancels(f) = 1
    BY DEF Ends, Complete, cancel, Perform, _finish, Operation, Places, Cancels, Selector
  <2> HIDE DEF f
  <2>3. Sound(f)
    BY <2>1, <2>2 DEF Sound, One
  <2> QED
    BY <2>3 DEF f
<1> HIDE DEF a, b
<1> QED
  BY <1>1, <1>2, <1>3, CompletedKeeps

-------------------------------------------------------------------------------
(* One lemma for each place from which an operation is changed. *)

LEMMA CancelFollows ==
    ASSUME NEW q \in Operation, Sound(q), q.alive
    PROVE  Follows(q, cancel(q))
<1>1. Sound(cancel(q))
  BY DEF cancel, Perform, Operation, Sound, Places, Cancels, One, Selector
<1>2. NothingButCancelled(q, cancel(q))
  BY DEF cancel, Perform, Operation, NothingButCancelled
<1> QED
  BY <1>1, <1>2, CancelType DEF Follows

\* start, cancel, the expiration handler and dealloc.
LEMMA ClientStep ==
    ASSUME IInv, NEW o \in Op, Client(o)
    PROVE  \E r : Set(o, r) /\ Follows(op[o], r)
<1> DEFINE q == op[o]
<1>0. q \in Operation /\ Sound(q)
  BY DEF IInv, TypeOK
<1>1. CASE start(o)
  <2> DEFINE u == [q EXCEPT !.started = TRUE]
             bg == "AllowBackgroundTask" \in options[o]
             c == Perform([u EXCEPT !.finished = TRUE], "_cancelOperation")
             e == Perform([u EXCEPT !.executing = TRUE, !.taskID = bg], "_startOperation")
  <2>1. q.alive /\ ~q.started
    BY <1>1 DEF start
  <2>2. Set(o, IF q.cancelled THEN c ELSE e)
    BY <1>0, <1>1 DEF start, Operation
  <2> HIDE DEF q, bg
  <2>3. bg \in BOOLEAN
    BY DEF bg
  <2>4. u \in Operation /\ "_cancelOperation" \in Selector /\ "_startOperation" \in Selector
    BY <1>0, FlagTypes, Zenon, ZenonT(60) DEF Selector
  <2>5. c \in Operation /\ e \in Operation
    BY <2>3, <2>4, FlagTypes, PerformType, Zenon, ZenonT(60)
  <2>6. q.cancelled => Sound(c)
    BY <1>0, <2>1 DEF Perform, Operation, Sound, Places, Cancels, One, Selector
  <2>8. NothingButCancelled(q, c)
    BY <1>0 DEF Perform, Operation, NothingButCancelled
  <2>7. ~q.cancelled => Sound(e)
    BY <1>0, <2>1, <2>3 DEF Perform, Operation, Sound, Places, Cancels, One, Selector
  <2> QED
    BY <2>2, <2>5, <2>6, <2>7, <2>8 DEF Follows, q
<1>2. CASE Cancel(o)
  BY <1>0, <1>2, CancelFollows DEF Cancel
<1>3. CASE Expire(o)
  <2>1. q.alive /\ q.taskID /\ Set(o, [cancel(q) EXCEPT !.finished = TRUE])
    BY <1>3 DEF Expire
  <2> HIDE DEF q
  <2> DEFINE r == [cancel(q) EXCEPT !.finished = TRUE]
  <2>2. r \in Operation
    BY <1>0, CancelType, FlagTypes, Zenon, ZenonT(60)
  <2>3. Sound(r)
    BY <1>0, <2>1 DEF cancel, Perform, Operation, Sound, Places, Cancels, One, Selector
  <2>4. NothingButCancelled(q, r)
    BY <1>0 DEF cancel, Perform, Operation, NothingButCancelled
  <2> QED
    BY <2>1, <2>2, <2>3, <2>4, Zenon, ZenonT(60) DEF Follows, q
<1>4. CASE dealloc(o)
  <2> DEFINE r == [q EXCEPT !.alive = FALSE, !.taskID = FALSE, !.connection = "nil"]
             e == Complete([r EXCEPT !.cancelled = TRUE, !.finished = TRUE], "cancelled")
  <2>1. /\ q.alive /\ q.started /\ q.thread = "elsewhere"
        /\ q.block \notin {"lookup", "decode"}
        /\ \A s \in Selector : ~(q.performs[s] > 0)
    BY <1>4 DEF dealloc, Held
  <2>2. Set(o, IF q.executing THEN e ELSE r)
    BY <1>4 DEF dealloc
  <2> HIDE DEF q
  <2>3. \A s \in Selector : q.performs[s] = 0
    BY <1>0, <2>1 DEF Operation
  <2>4. r \in Operation
    BY <1>0, FlagTypes, ConnectionType, Zenon, ZenonT(60)
  <2>5. e \in Operation
    BY <2>4, FlagTypes, CompleteType, Zenon, ZenonT(60)
  <2>6. q.executing => Sound(e)
    BY <1>0, <2>1, <2>3 DEF Complete, Operation, Sound, Places, Cancels, One, Selector
  <2>7. ~q.executing => Sound(r)
    BY <1>0, <2>1, <2>3 DEF Operation, Sound, Places, Cancels, One, Selector
  <2>8. NothingButCancelled(q, e) /\ NothingButCancelled(q, r)
    BY <1>0 DEF Complete, Operation, NothingButCancelled
  <2> QED
    BY <2>2, <2>4, <2>5, <2>6, <2>7, <2>8, Zenon, ZenonT(60) DEF Follows, q
<1> QED
  BY <1>1, <1>2, <1>3, <1>4 DEF Client

\* A handler of the network thread that has got as far as the lock.
LEMMA ContinueStep ==
    ASSUME IInv, NEW o \in Op, Continue(o)
    PROVE  \E r : Set(o, r) /\ Follows(op[o], r)
<1> DEFINE q == op[o]
           u == [q EXCEPT !.thread = "elsewhere"]
           d == [u EXCEPT !.block = "disk"]
           w == Perform(u, "_startRequest")
           n == [u EXCEPT !.connection = "open"]
           f == _finish(u)
<1>0. q \in Operation /\ Sound(q)
  BY DEF IInv, TypeOK
<1>1. q.thread # "elsewhere"
  BY DEF Continue, MemoryHit, MemoryMiss, RefuseRequest, OpenConnection
<1>2. u.cancelled = q.cancelled
  BY <1>0 DEF Operation
<1>3. \/ q.cancelled /\ Set(o, f)
      \/ ~q.cancelled /\ \E c \in Completed(u) : Set(o, _finish(c))
      \/ Set(o, d) \/ Set(o, w)
      \/ Set(o, IF q.cancelled THEN u ELSE n)
  <2>1. CASE MemoryHit(o) \/ RefuseRequest(o)
    BY <1>2, <2>1 DEF MemoryHit, RefuseRequest, CompletedUnlessCancelled
  <2>2. CASE MemoryMiss(o)
    BY <2>2 DEF MemoryMiss
  <2>3. CASE OpenConnection(o)
    BY <1>2, <2>3 DEF OpenConnection
  <2> QED
    BY <2>1, <2>2, <2>3 DEF Continue
<1> HIDE DEF q
<1>4. u \in Operation /\ "_startRequest" \in Selector
  BY <1>0, ThreadType, Zenon, ZenonT(60) DEF Selector
<1>5. d \in Operation /\ w \in Operation /\ n \in Operation
  BY <1>4, BlockType, PerformType, ConnectionType, Zenon, ZenonT(60)
<1>6. f \in Operation
  BY <1>4, FinishType
<1>7. Sound(d) /\ Sound(w)
  BY <1>0, <1>1 DEF Perform, Operation, Sound, Places, Cancels, One, Selector
<1>8. q.cancelled => Sound(f) /\ Sound(u)
  BY <1>0, <1>1 DEF _finish, Operation, Sound, Places, Cancels, One, Selector
<1>9. ~q.cancelled => Sound(n)
  BY <1>0, <1>1 DEF Operation, Sound, Places, Cancels, One, Selector
<1>10. /\ NothingButCancelled(q, d) /\ NothingButCancelled(q, w)
       /\ NothingButCancelled(q, f) /\ NothingButCancelled(q, u)
  BY <1>0 DEF Perform, _finish, Operation, NothingButCancelled
<1>11. ASSUME ~q.cancelled, NEW c \in Completed(u), Set(o, _finish(c))
       PROVE  \E r : Set(o, r) /\ Follows(op[o], r)
  <2>1. Ends(u)
    BY <1>0, <1>1, <1>11 DEF Ends, Operation, Sound, Places, Cancels, One, Selector
  <2>2. _finish(c) \in Operation /\ Sound(_finish(c))
    BY <1>4, <2>1, CompletedSound
  <2> QED
    BY <1>11, <2>2 DEF Follows, q
<1> HIDE DEF u, d, w, n, f
<1> QED
  BY <1>3, <1>4, <1>5, <1>6, <1>7, <1>8, <1>9, <1>10, <1>11, Zenon, ZenonT(60)
  DEF Follows, q

\* A selector that the network thread performs.
LEMMA PerformsStep ==
    ASSUME IInv, NEW o \in Op, Performs(o)
    PROVE  \E r : Set(o, r) /\ Follows(op[o], r)
<1> DEFINE q == op[o]
<1>0. q \in Operation /\ Sound(q)
  BY DEF IInv, TypeOK
<1>1. ASSUME NEW s \in {"_startOperation", "_startRequest"}, Enter(o, s)
      PROVE  \E r : Set(o, r) /\ Follows(op[o], r)
  <2> DEFINE t == IF q.cancelled THEN "elsewhere" ELSE s
             r == [Performed(q, s) EXCEPT !.thread = t]
  <2>1. q.performs[s] > 0 /\ Set(o, r)
    BY <1>1 DEF Enter
  <2> HIDE DEF q
  <2>0. NothingButCancelled(q, r)
    BY <1>0 DEF Performed, Operation, NothingButCancelled
  <2>2. t \in {"elsewhere", "_startOperation", "_startRequest"} /\ s \in Selector
    BY DEF Selector
  <2>3. r \in Operation
    BY <1>0, <2>1, <2>2, PerformType, ThreadType, Zenon, ZenonT(60)
  <2>4. CASE s = "_startOperation"
    <3>1. q.cancelled => Sound(r)
      BY <1>0, <2>1, <2>4 DEF Performed, Operation, Sound, Places, Cancels, One, Selector
    <3>2. ~q.cancelled => Sound(r)
      BY <1>0, <2>1, <2>4 DEF Performed, Operation, Sound, Places, Cancels, One, Selector
    <3> QED
      BY <2>1, <2>3, <2>0, <3>1, <3>2, Zenon, ZenonT(60) DEF Follows, q
  <2>5. CASE s = "_startRequest"
    <3>1. q.cancelled => Sound(r)
      BY <1>0, <2>1, <2>5 DEF Performed, Operation, Sound, Places, Cancels, One, Selector
    <3>2. ~q.cancelled => Sound(r)
      BY <1>0, <2>1, <2>5 DEF Performed, Operation, Sound, Places, Cancels, One, Selector
    <3> QED
      BY <2>1, <2>3, <2>0, <3>1, <3>2, Zenon, ZenonT(60) DEF Follows, q
  <2> QED
    BY <2>4, <2>5
<1>2. CASE _cancelOperation(o)
  <2> DEFINE u == [Performed(q, "_cancelOperation") EXCEPT !.connection = "nil",
                                                           !.taskID = FALSE]
             r == Complete(u, "cancelled")
  <2>1. q.performs["_cancelOperation"] > 0 /\ Set(o, r)
    BY <1>2 DEF _cancelOperation
  <2> HIDE DEF q
  <2>2. "_cancelOperation" \in Selector
    BY DEF Selector
  <2>3. u \in Operation
    BY <1>0, <2>1, <2>2, PerformType, ConnectionType, FlagTypes, Zenon, ZenonT(60)
  <2>4. r \in Operation
    BY <2>3, CompleteType
  <2>5. Sound(r)
    BY <1>0, <2>1 DEF Performed, Complete, Operation, Sound, Places, Cancels, One, Selector
  <2>6. NothingButCancelled(q, r)
    BY <1>0 DEF Performed, Complete, Operation, NothingButCancelled
  <2> QED
    BY <2>1, <2>4, <2>5, <2>6 DEF Follows, q
<1>3. ASSUME NEW s \in {"_didReceiveImageFromDiskCache", "_didReceiveImageFromWeb"},
             q.performs[s] > 0,
             IF Performed(q, s).cancelled THEN Set(o, Performed(q, s))
             ELSE \E c \in Completed(Performed(q, s)) : Set(o, _finish(c))
      PROVE  \E r : Set(o, r) /\ Follows(op[o], r)
  <2> DEFINE u == Performed(q, s)
  <2>1. IF u.cancelled THEN Set(o, u) ELSE \E c \in Completed(u) : Set(o, _finish(c))
    BY <1>3
  <2> HIDE DEF q
  <2>2. s \in Selector
    BY DEF Selector
  <2>3. u \in Operation
    BY <1>0, <1>3, <2>2, PerformType
  <2>4. u.cancelled = q.cancelled /\ NothingButCancelled(q, u)
    BY <1>0 DEF Performed, Operation, NothingButCancelled
  <2>5. q.cancelled => Sound(u)
    BY <1>0, <1>3 DEF Performed, Operation, Sound, Places, Cancels, One, Selector
  <2>6. ~q.cancelled => Ends(u)
    <3> SUFFICES ASSUME ~q.cancelled PROVE Ends(u)
      OBVIOUS
    <3>1. /\ u.alive = q.alive /\ u.started = q.started /\ u.executing = q.executing
          /\ u.reentered = q.reentered /\ u.ends = q.ends /\ Cancels(u) = Cancels(q)
      BY <1>0 DEF Performed, Cancels, Operation, Selector
    <3>2. Places(u) = Places(q) - 1
      <4>1. CASE s = "_didReceiveImageFromDiskCache"
        BY <1>0, <1>3, <4>1 DEF Performed, Places, One, Operation, Selector
      <4>2. CASE s = "_didReceiveImageFromWeb"
        BY <1>0, <1>3, <4>2 DEF Performed, Places, One, Operation, Selector
      <4> QED
        BY <4>1, <4>2
    <3>3. Places(q) = 1 /\ q.alive
      BY <1>0, <1>3 DEF Sound, Places, One, Operation, Selector
    <3>4. /\ q.executing /\ q.started /\ ~q.reentered
          /\ q.ends + Cancels(q) + 1 <= 1 /\ q.ends \in Nat /\ Cancels(q) \in Nat
      BY <1>0, <3>3 DEF Sound, Cancels, One, Operation, Selector
    <3> HIDE DEF u
    <3> QED
      BY <2>4, <3>1, <3>2, <3>3, <3>4 DEF Ends
  <2> HIDE DEF u
  <2>7. CASE q.cancelled
    BY <2>1, <2>3, <2>4, <2>5, <2>7 DEF Follows, q
  <2>8. CASE ~q.cancelled
    <3>1. PICK c \in Completed(u) : Set(o, _finish(c))
      BY <2>1, <2>4, <2>8
    <3>2. _finish(c) \in Operation /\ Sound(_finish(c))
      BY <2>3, <2>6, <2>8, CompletedSound
    <3> QED
      BY <2>8, <3>1, <3>2 DEF Follows, q
  <2> QED
    BY <2>7, <2>8
<1>4. CASE _didReceiveImageFromDiskCache(o)
  BY <1>3, <1>4 DEF _didReceiveImageFromDiskCache
<1>5. CASE _didReceiveImageFromWeb(o)
  BY <1>3, <1>5 DEF _didReceiveImageFromWeb
<1> QED
  BY <1>1, <1>2, <1>4, <1>5 DEF Performs

\* A delegate method of the connection.
LEMMA ConnectionStep ==
    ASSUME IInv, NEW o \in Op, didReceiveData(o) \/ EndOfConnection(o)
    PROVE  \E r : Set(o, r) /\ Follows(op[o], r)
<1> DEFINE q == op[o]
           p == Progress(q)
           x == [q EXCEPT !.connection = "dead"]
           u == [q EXCEPT !.connection = "nil"]
           w == [q EXCEPT !.connection = "nil", !.block = "web"]
<1>0. q \in Operation /\ Sound(q)
  BY DEF IInv, TypeOK
<1>1. q.alive /\ q.connection = "open"
  BY DEF EndOfConnection, didReceiveData, didFailWithError, connectionDidFinishLoading
<1>2. \/ ~q.cancelled /\ Set(o, p)
      \/ q.cancelled /\ Set(o, x)
      \/ ~q.cancelled /\ \E c \in Completed(u) : Set(o, _finish(c))
      \/ Set(o, IF q.cancelled THEN u ELSE w)
  <2>1. CASE didReceiveData(o)
    BY <2>1 DEF didReceiveData
  <2>2. CASE didFailWithError(o)
    BY <2>2 DEF didFailWithError, Fail
  <2>3. CASE connectionDidFinishLoading(o)
    BY <2>3 DEF connectionDidFinishLoading
  <2> QED
    BY <2>1, <2>2, <2>3 DEF EndOfConnection
<1> HIDE DEF q
<1>3. x \in Operation /\ u \in Operation
  BY <1>0, ConnectionType, Zenon, ZenonT(60)
<1>4. w \in Operation
  BY <1>0, ConnectionType, BlockType, Zenon, ZenonT(60)
<1>5. p \in Operation
  BY <1>0 DEF Progress, Operation
<1>6. ~q.cancelled => Sound(p)
  BY <1>0, <1>1 DEF Progress, Operation, Sound, Places, Cancels, One, Selector
<1>7. q.cancelled => Sound(x) /\ Sound(u)
  BY <1>0, <1>1 DEF Operation, Sound, Places, Cancels, One, Selector
<1>8. NothingButCancelled(q, x) /\ NothingButCancelled(q, u)
  BY <1>0 DEF Operation, NothingButCancelled
<1>9. ~q.cancelled => Sound(w)
  BY <1>0, <1>1 DEF Operation, Sound, Places, Cancels, One, Selector
<1>10. ASSUME ~q.cancelled, NEW c \in Completed(u), Set(o, _finish(c))
       PROVE  \E r : Set(o, r) /\ Follows(op[o], r)
  <2>1. Ends(u)
    BY <1>0, <1>1, <1>10 DEF Ends, Operation, Sound, Places, Cancels, One, Selector
  <2>2. _finish(c) \in Operation /\ Sound(_finish(c))
    BY <1>3, <2>1, CompletedSound
  <2> QED
    BY <1>10, <2>2 DEF Follows, q
<1> HIDE DEF p, x, u, w
<1> QED
  BY <1>2, <1>3, <1>4, <1>5, <1>6, <1>7, <1>8, <1>9, <1>10 DEF Follows, q

\* A block of the image queue.
LEMMA ImageQueueStep ==
    ASSUME IInv, NEW o \in Op, ImageQueue(o)
    PROVE  \E r : Set(o, r) /\ Follows(op[o], r)
<1> DEFINE q == op[o]
           u == [q EXCEPT !.block = "none"]
<1>0. q \in Operation /\ Sound(q)
  BY DEF IInv, TypeOK
<1>1. CASE StartBlock(o)
  <2> DEFINE b == IF ~q.alive \/ (q.block = "disk" /\ q.cancelled) THEN "none"
                  ELSE IF q.block = "disk" THEN "lookup" ELSE "decode"
             r == [q EXCEPT !.block = b]
  <2>1. q.block \in {"disk", "web"} /\ Set(o, r)
    BY <1>1 DEF StartBlock
  <2> HIDE DEF q
  <2>2. r \in Operation /\ NothingButCancelled(q, r)
    <3>1. b \in {"none", "disk", "lookup", "web", "decode"}
      OBVIOUS
    <3> HIDE DEF b
    <3>2. r \in Operation
      BY <1>0, <3>1, BlockType, Zenon, ZenonT(60)
    <3>3. NothingButCancelled(q, r)
      BY <1>0 DEF Operation, NothingButCancelled
    <3> QED
      BY <3>2, <3>3
  <2>3. Sound(r)
    <3>1. CASE ~q.alive \/ (q.block = "disk" /\ q.cancelled)
      <4>1. r = u
        BY <3>1
      <4>2. Sound(u)
        BY <1>0, <2>1, <3>1 DEF Operation, Sound, Places, Cancels, One, Selector
      <4> QED
        BY <4>1, <4>2
    <3>2. CASE q.alive /\ ~(q.block = "disk" /\ q.cancelled)
      <4>1. b \in {"lookup", "decode"}
        BY <3>2
      <4> HIDE DEF b
      <4>2. Places(r) = Places(q)
        BY <1>0, <2>1, <4>1 DEF Places, One, Operation
      <4> QED
        BY <1>0, <2>1, <3>2, <4>1, <4>2 DEF Operation, Sound, Cancels
    <3> QED
      BY <1>0, <3>1, <3>2 DEF Operation
  <2> HIDE DEF r
  <2> QED
    BY <2>1, <2>2, <2>3 DEF Follows, q
<1>2. CASE LookedUp(o)
  <2>1. q.block = "lookup"
    BY <1>2 DEF LookedUp
  <2>2. PICK s \in {"_didReceiveImageFromDiskCache", "_startRequest"} :
               Set(o, Perform(u, s))
    BY <1>2 DEF LookedUp
  <2> HIDE DEF q
  <2>3. Perform(u, s) \in Operation /\ NothingButCancelled(q, Perform(u, s))
    <3>1. u \in Operation /\ s \in Selector
      BY <1>0, BlockType DEF Selector
    <3>2. NothingButCancelled(q, Perform(u, s))
      BY <1>0 DEF Perform, Operation, NothingButCancelled
    <3> QED
      BY <3>1, <3>2, PerformType
  <2>4. Sound(Perform(u, s))
    <3>1. CASE s = "_startRequest"
      BY <1>0, <2>1, <3>1 DEF Perform, Operation, Sound, Places, Cancels, One, Selector
    <3>2. CASE s = "_didReceiveImageFromDiskCache"
      BY <1>0, <2>1, <3>2 DEF Perform, Operation, Sound, Places, Cancels, One, Selector
    <3> QED
      BY <3>1, <3>2
  <2> QED
    BY <2>2, <2>3, <2>4 DEF Follows, q
<1>3. CASE Decoded(o)
  <2> DEFINE w == Perform(u, "_didReceiveImageFromWeb")
  <2>1. q.block = "decode" /\ Set(o, IF u.cancelled THEN u ELSE w)
    BY <1>3 DEF Decoded
  <2> HIDE DEF q
  <2>2. u \in Operation /\ "_didReceiveImageFromWeb" \in Selector
    BY <1>0, BlockType, Zenon, ZenonT(60) DEF Selector
  <2>3. w \in Operation
    BY <2>2, PerformType
  <2>4. u.cancelled = q.cancelled /\ NothingButCancelled(q, u)
    BY <1>0 DEF Operation, NothingButCancelled
  <2>5. q.cancelled => Sound(u)
    BY <1>0, <2>1 DEF Operation, Sound, Places, Cancels, One, Selector
  <2>6. ~q.cancelled => Sound(w)
    BY <1>0, <2>1 DEF Perform, Operation, Sound, Places, Cancels, One, Selector
  <2> HIDE DEF u, w
  <2> QED
    BY <2>1, <2>2, <2>3, <2>4, <2>5, <2>6 DEF Follows, q
<1> QED
  BY <1>1, <1>2, <1>3 DEF ImageQueue

-------------------------------------------------------------------------------
(* The indicator and the rest of the state. *)

OperationNext(o) ==
    \/ Client(o) \/ Continue(o) \/ Performs(o)
    \/ didReceiveData(o) \/ EndOfConnection(o) \/ ImageQueue(o)

\* A timer carries the answer for the present count, because a change replaces it.
TimerFollowsCount == timer # NoTimer => (timer = "show" <=> count > 0)

IndicatorInv == IndicatorTypeOK /\ IndicatorFollowsCount /\ TimerFollowsCount

\* An operation changes the count, or adds a change to the main queue, or leaves the
\* indicator alone.
LEMMA RestOfStep ==
    ASSUME IInv, NEW o \in Op, OperationNext(o)
    PROVE  /\ options' = options /\ blacklist' \in BOOLEAN
           /\ \/ UNCHANGED indicatorVars
              \/ \E d \in {-1, 1}, b \in BOOLEAN : _changeNetworkActivityCount(d, b)
<1>0. blacklist \in BOOLEAN
  BY DEF IInv, TypeOK
<1>1. CASE Client(o)
  BY <1>0, <1>1 DEF Client, start, Cancel, Expire, dealloc, CountDown,
     decrementNetworkActivityCount
<1>2. CASE Continue(o)
  BY <1>0, <1>2 DEF Continue, MemoryHit, MemoryMiss, RefuseRequest, OpenConnection,
     CountUp, incrementNetworkActivityCount
<1>3. CASE Performs(o)
  BY <1>0, <1>3, Zenon, ZenonT(60) DEF Performs, Enter, _cancelOperation, _didReceiveImageFromDiskCache,
     _didReceiveImageFromWeb, CountDown, decrementNetworkActivityCount
<1>4. CASE didReceiveData(o)
  BY <1>0, <1>4 DEF didReceiveData
<1>5. CASE EndOfConnection(o)
  BY <1>0, <1>5 DEF EndOfConnection, didFailWithError, Fail, connectionDidFinishLoading,
     CountDown, decrementNetworkActivityCount
<1>6. CASE ImageQueue(o)
  BY <1>0, <1>6 DEF ImageQueue, StartBlock, LookedUp, Decoded
<1> QED
  BY <1>1, <1>2, <1>3, <1>4, <1>5, <1>6 DEF OperationNext

LEMMA ApplyKeepsIndicator ==
    ASSUME IndicatorInv, NEW d \in {-1, 1}, Apply(d), changes' \in Seq({-1, 1})
    PROVE  IndicatorInv'
<1>1. count' \in Int /\ timer' \in {"show", "hide"} /\ visible' \in BOOLEAN
  BY DEF Apply, IndicatorInv, IndicatorTypeOK
<1>2. timer' = "show" <=> count' > 0
  BY DEF Apply
<1> QED
  BY <1>1, <1>2
  DEF IndicatorInv, IndicatorTypeOK, IndicatorFollowsCount, TimerFollowsCount, NoTimer

LEMMA ChangeKeepsIndicator ==
    ASSUME IndicatorInv, NEW d \in {-1, 1}, NEW b \in BOOLEAN,
           _changeNetworkActivityCount(d, b)
    PROVE  IndicatorInv'
<1>1. CASE b
  <2>1. Apply(d) /\ changes' = changes
    BY <1>1 DEF _changeNetworkActivityCount
  <2>2. d \in Int /\ d \in {-1, 1}
    OBVIOUS
  <2> QED
    BY <2>1, <2>2, ApplyKeepsIndicator DEF IndicatorInv, IndicatorTypeOK
<1>2. CASE ~b
  <2>1. changes' = Append(changes, d) /\ UNCHANGED <<count, timer, visible>>
    BY <1>2 DEF _changeNetworkActivityCount
  <2> QED
    BY <2>1 DEF IndicatorInv, IndicatorTypeOK, IndicatorFollowsCount, TimerFollowsCount
<1> QED
  BY <1>1, <1>2

LEMMA MainThreadKeepsIndicator ==
    ASSUME IndicatorInv, ChangeCount \/ _delaySetActivity
    PROVE  IndicatorInv'
<1>1. CASE ChangeCount
  <2>1. Head(changes) \in {-1, 1} /\ Tail(changes) \in Seq({-1, 1})
    BY <1>1 DEF ChangeCount, IndicatorInv, IndicatorTypeOK
  <2> QED
    BY <1>1, <2>1, ApplyKeepsIndicator DEF ChangeCount
<1>2. CASE _delaySetActivity
  BY <1>2, Zenon, ZenonT(60) DEF _delaySetActivity, IndicatorInv, IndicatorTypeOK, IndicatorFollowsCount,
     TimerFollowsCount, NoTimer
<1> QED
  BY <1>1, <1>2

-------------------------------------------------------------------------------
(* The invariant. *)

\* A step of one operation makes of it what follows, and leaves the others alone.
LEMMA OneOperationChanges ==
    ASSUME IInv, NEW o \in Op, OperationNext(o)
    PROVE  \E r : op' = [op EXCEPT ![o] = r] /\ Follows(op[o], r)
  BY ClientStep, ContinueStep, PerformsStep, ConnectionStep, ImageQueueStep
  DEF OperationNext, Set

LEMMA InitIInv == Init => IInv /\ IndicatorInv
<1> SUFFICES ASSUME Init PROVE IInv /\ IndicatorInv
  OBVIOUS
<1>1. New \in Operation /\ Sound(New)
  BY DEF New, Operation, Sound, Places, Cancels, One, Selector
<1>2. visible \in BOOLEAN /\ ~visible /\ timer = NoTimer
  BY Zenon, ZenonT(60) DEF Init, IndicatorInit
<1>3. changes \in Seq({-1, 1}) /\ count \in Int /\ ~(count > 0)
  BY DEF Init, IndicatorInit
<1>4. IndicatorTypeOK /\ IndicatorFollowsCount /\ TimerFollowsCount
  BY <1>2, <1>3 DEF IndicatorTypeOK, IndicatorFollowsCount, TimerFollowsCount
<1> QED
  BY <1>1, <1>4, Zenon, ZenonT(60) DEF Init, IInv, TypeOK, IndicatorInv

LEMMA NextIInv == IInv /\ IndicatorInv /\ [Next]_vars => IInv' /\ IndicatorInv'
<1> SUFFICES ASSUME IInv, IndicatorInv, [Next]_vars
             PROVE  IInv' /\ IndicatorInv'
  OBVIOUS
<1>1. ASSUME NEW o \in Op, OperationNext(o)
      PROVE  IInv' /\ IndicatorInv'
  <2>1. PICK r : op' = [op EXCEPT ![o] = r] /\ Follows(op[o], r)
    BY <1>1, OneOperationChanges
  <2>2. op' \in [Op -> Operation] /\ \A p \in Op : Sound(op'[p])
    BY <2>1 DEF IInv, TypeOK, Follows
  <2>3. IndicatorInv'
    <3>1. CASE UNCHANGED indicatorVars
      BY <3>1 DEF indicatorVars, IndicatorInv, IndicatorTypeOK, IndicatorFollowsCount,
         TimerFollowsCount
    <3>2. CASE \E d \in {-1, 1}, b \in BOOLEAN : _changeNetworkActivityCount(d, b)
      BY <3>2, ChangeKeepsIndicator
    <3> QED
      BY <1>1, <3>1, <3>2, RestOfStep
  <2> QED
    BY <1>1, <2>2, <2>3, RestOfStep DEF IInv, TypeOK, IndicatorInv
<1>2. CASE Indicator
  <2>1. IndicatorInv'
    BY <1>2, MainThreadKeepsIndicator DEF Indicator
  <2> QED
    BY <1>2, <2>1 DEF Indicator, IInv, TypeOK, IndicatorInv
<1>3. CASE UNCHANGED vars
  BY <1>3 DEF vars, indicatorVars, IInv, TypeOK, IndicatorInv, IndicatorTypeOK,
     IndicatorFollowsCount, TimerFollowsCount
<1> QED
  BY <1>1, <1>2, <1>3 DEF Next, OperationNext

-------------------------------------------------------------------------------
(* The theorems. *)

LEMMA Invariance == Spec => [](IInv /\ IndicatorInv)
  BY InitIInv, NextIInv, PTL DEF Spec

\* Every variable keeps its type; in particular no selector is performed that was
\* not asked for.
THEOREM TypeCorrect == Spec => []TypeOK
<1>1. IInv => TypeOK
  BY DEF IInv
<1> QED
  BY <1>1, Invariance, PTL

\* _completion reports the end of a request at most once, and nothing after it,
\* whichever thread cancels and when; except that one that cancels its own operation
\* while it is told Finished is told Cancelled as well.
THEOREM CompletesAtMostOnce == Spec => []CompletesOnce
<1>1. IInv => CompletesOnce
  <2> SUFFICES ASSUME IInv, NEW o \in Op
               PROVE  /\ op[o].ends <= IF op[o].reentered THEN 2 ELSE 1
                      /\ op[o].ends = 1 => op[o].stage \in {"finished", "cancelled"}
                      /\ op[o].ends = 2 => op[o].stage = "cancelled"
    BY DEF CompletesOnce
  <2>1. op[o] \in Operation /\ Sound(op[o])
    BY DEF IInv, TypeOK
  <2> QED
    BY <2>1 DEF Sound, Cancels, One, Operation, Selector
<1> QED
  BY <1>1, Invariance, PTL

\* isFinished is never set before start, nor together with isExecuting.
THEOREM FinishesOnlyAfterStart == Spec => []FinishedAfterStart
<1>1. IInv => FinishedAfterStart
  BY DEF IInv, FinishedAfterStart, Sound
<1> QED
  BY <1>1, Invariance, PTL

\* A background task is never left open by an operation that has ended.
THEOREM TasksAreOwned == Spec => []TaskIsOwned
<1>1. IInv => TaskIsOwned
  BY DEF IInv, TaskIsOwned, Sound, Cancels
<1> QED
  BY <1>1, Invariance, PTL

\* After cancel no progress and no Finished is reported, only the stage Cancelled.
THEOREM CancelIsFinal == Spec => OnlyCancelledAfterCancel
<1> DEFINE A == \A o \in Op : op[o].cancelled => NothingButCancelled(op[o], op'[o])
<1>1. IInv /\ [Next]_vars => [A]_vars
  <2> SUFFICES ASSUME IInv, Next
               PROVE  A
    OBVIOUS
  <2>1. ASSUME NEW o \in Op, OperationNext(o)
        PROVE  A
    <3>1. PICK r : op' = [op EXCEPT ![o] = r] /\ Follows(op[o], r)
      BY <2>1, OneOperationChanges
    <3>2. \A p \in Op : op'[p] = op[p] \/ (p = o /\ op'[p] = r)
      BY <3>1 DEF IInv, TypeOK
    <3>3. \A p \in Op : NothingButCancelled(op[p], op[p])
      BY DEF NothingButCancelled
    <3> QED
      BY <3>1, <3>2, <3>3 DEF Follows
  <2>2. CASE Indicator
    BY <2>2 DEF Indicator, NothingButCancelled
  <2> QED
    BY <2>1, <2>2 DEF Next, OperationNext
<1> QED
  BY <1>1, Invariance, PTL DEF Spec, OnlyCancelledAfterCancel

\* The network activity indicator agrees with the count whenever no timer is pending.
THEOREM IndicatorAgrees == Spec => []IndicatorFollowsCount
<1>1. IndicatorInv => IndicatorFollowsCount
  BY DEF IndicatorInv
<1> QED
  BY <1>1, Invariance, PTL

-------------------------------------------------------------------------------
(* The changes on the main queue. *)

Positions(s, d) == {i \in DOMAIN s : s[i] = d}
Occurrences(s, d) == Cardinality(Positions(s, d))

LEMMA PositionsFinite ==
    ASSUME NEW s \in Seq({-1, 1}), NEW d
    PROVE  IsFiniteSet(Positions(s, d)) /\ Occurrences(s, d) \in Nat
<1>1. Len(s) \in Int /\ DOMAIN s = 1..Len(s)
  OBVIOUS
<1>2. IsFiniteSet(1..Len(s))
  BY <1>1, FS_Interval
<1>3. Positions(s, d) \in SUBSET (1..Len(s))
  BY <1>1 DEF Positions
<1>4. IsFiniteSet(Positions(s, d))
  BY <1>2, <1>3, FS_Subset
<1> QED
  BY <1>4, FS_CardinalityType DEF Occurrences

\* One more change at the end.
LEMMA OccurrencesAppend ==
    ASSUME NEW s \in Seq({-1, 1}), NEW c \in {-1, 1}, NEW d
    PROVE  Occurrences(Append(s, c), d) = Occurrences(s, d) + (IF c = d THEN 1 ELSE 0)
<1> DEFINE n == Len(s) + 1
           t == Append(s, c)
<1>1. /\ n \in Nat /\ n >= 1 /\ DOMAIN s = 1..(n - 1) /\ DOMAIN t = 1..n /\ t[n] = c
      /\ \A i \in 1..(n - 1) : t[i] = s[i]
  OBVIOUS
<1> HIDE DEF n, t
<1>2. n \notin Positions(s, d) /\ IsFiniteSet(Positions(s, d))
  <2>1. n \notin 1..(n - 1)
    BY <1>1
  <2>2. n \notin Positions(s, d)
    BY <2>1, <1>1 DEF Positions
  <2> QED
    BY <2>2, PositionsFinite
<1>3. CASE c = d
  <2>1. Positions(t, d) = Positions(s, d) \cup {n}
    <3>1. n \in 1..n /\ \A i \in 1..n : i # n => i \in 1..(n - 1)
      BY <1>1
    <3>2. \A i \in 1..(n - 1) : i \in 1..n
      BY <1>1
    <3> QED
      BY <3>1, <3>2, <1>1, <1>3 DEF Positions
  <2> QED
    BY <2>1, <1>2, <1>3, FS_AddElement, Zenon, ZenonT(60) DEF Occurrences, t
<1>4. CASE c # d
  <2>1. Positions(t, d) = Positions(s, d)
    BY <1>1, <1>4 DEF Positions
  <2> QED
    BY <2>1, <1>4, PositionsFinite DEF Occurrences, t
<1> QED
  BY <1>3, <1>4

\* One change less at the beginning.
LEMMA OccurrencesTail ==
    ASSUME NEW s \in Seq({-1, 1}), s # <<>>, NEW d
    PROVE  Occurrences(s, d) = Occurrences(Tail(s), d) + (IF Head(s) = d THEN 1 ELSE 0)
<1> DEFINE t == Tail(s)
           S == Positions(s, d) \ {1}
           T == Positions(t, d)
           f == [i \in T |-> i + 1]
<1>1. /\ t \in Seq({-1, 1}) /\ Len(s) \in Nat /\ Len(s) >= 1
      /\ DOMAIN s = 1..Len(s) /\ DOMAIN t = 1..(Len(s) - 1)
      /\ \A i \in 1..(Len(s) - 1) : t[i] = s[i + 1]
      /\ Head(s) = s[1]
  OBVIOUS
<1> HIDE DEF t
<1>2. f \in Bijection(T, S)
  <2>1. \A i \in T : i \in Nat /\ i + 1 \in S
    BY <1>1 DEF Positions
  <2>2. f \in [T -> S]
    BY <2>1
  <2>3. \A i, j \in T : f[i] = f[j] => i = j
    BY <2>1
  <2>4. \A j \in S : \E i \in T : f[i] = j
    <3> TAKE j \in S
    <3>1. j - 1 \in T /\ (j - 1) + 1 = j
      BY <1>1 DEF Positions
    <3> QED
      BY <3>1
  <2> HIDE DEF f, S, T
  <2> QED
    BY <2>2, <2>3, <2>4 DEF Bijection, Injection, Surjection, IsInjective
<1>3. IsFiniteSet(T) /\ IsFiniteSet(Positions(s, d))
  BY <1>1, PositionsFinite
<1>4. ExistsBijection(T, S)
  BY <1>2, Zenon, ZenonT(60) DEF ExistsBijection
<1>5. Cardinality(S) = Cardinality(T)
  <2> HIDE DEF S, T
  <2> QED
    BY <1>3, <1>4, FS_Bijection
<1>6. 1 \in Positions(s, d) <=> Head(s) = d
  BY <1>1 DEF Positions
<1>7. Cardinality(S) = IF 1 \in Positions(s, d) THEN Occurrences(s, d) - 1
                       ELSE Occurrences(s, d)
  BY <1>3, FS_RemoveElement, Zenon, ZenonT(60) DEF Occurrences
<1>8. Occurrences(s, d) \in Nat
  BY PositionsFinite
<1>9. Occurrences(t, d) = Cardinality(T)
  BY DEF Occurrences
<1> QED
  BY <1>5, <1>6, <1>7, <1>8, <1>9 DEF t

-------------------------------------------------------------------------------
(* The connections that are counted. *)

LEMMA OpenFinite ==
    ASSUME TypeOK
    PROVE  IsFiniteSet(Open) /\ Cardinality(Open) \in Nat
<1>1. Open \in SUBSET Op /\ IsFiniteSet(Op)
  BY OperationAssumption DEF Open
<1>2. IsFiniteSet(Open)
  BY <1>1, FS_Subset
<1> QED
  BY <1>2, FS_CardinalityType

\* What a step of an operation may do to the connections and to the main queue.
Opens(o) == o \notin Open /\ Open' = Open \cup {o} /\ incrementNetworkActivityCount(FALSE)
Closes(o) == /\ o \in Open /\ Open' = Open \ {o}
             /\ \E b \in BOOLEAN : decrementNetworkActivityCount(b)
Forgets == Open' \subseteq Open /\ UNCHANGED indicatorVars

\* The other operations keep theirs.
Alone(o) == options' = options /\ \A p \in Op \ {o} : op'[p] = op[p]

LEMMA OperationAlone ==
    ASSUME IInv, NEW o \in Op, OperationNext(o)
    PROVE  Alone(o)
<1>1. PICK r : op' = [op EXCEPT ![o] = r]
  BY OneOperationChanges
<1> QED
  BY <1>1, RestOfStep DEF Alone, IInv, TypeOK

\* A step that leaves the connection of the operation alone.
LEMMA SameConnection ==
    ASSUME NEW o \in Op, Alone(o), op'[o].connection = op[o].connection,
           UNCHANGED indicatorVars
    PROVE  Forgets
  BY DEF Alone, Open, Counted, Forgets

LEMMA ClosedConnection ==
    ASSUME NEW o \in Op, Alone(o), op'[o].connection = "nil"
    PROVE  Open' = Open \ {o}
  BY DEF Alone, Open, Counted

\* A connection that is there is closed, and the count lowered.
LEMMA CountedClose ==
    ASSUME NEW o \in Op, Alone(o), op'[o].connection = "nil",
           op[o].connection # "nil", NEW b \in BOOLEAN, CountDown(o, b)
    PROVE  Closes(o) \/ Forgets
<1>1. Open' = Open \ {o}
  BY ClosedConnection
<1>2. CASE Counted(o)
  BY <1>1, <1>2 DEF Open, CountDown, Closes
<1>3. CASE ~Counted(o)
  BY <1>1, <1>3 DEF CountDown, Forgets
<1> QED
  BY <1>2, <1>3

LEMMA ClientCounts ==
    ASSUME IInv, NEW o \in Op, Client(o)
    PROVE  Closes(o) \/ Forgets
<1> DEFINE q == op[o]
<1>0. /\ TypeOK /\ op \in [Op -> Operation] /\ q \in Operation
      /\ Alone(o)
  BY OperationAlone DEF IInv, TypeOK, OperationNext
<1>1. CASE start(o)
  <2>1. op'[o].connection = q.connection
    BY <1>0, <1>1 DEF start, Perform, Operation, Set
  <2> QED
    BY <2>1, <1>0, <1>1, SameConnection DEF start
<1>2. CASE Cancel(o)
  <2>1. op'[o].connection = q.connection
    BY <1>0, <1>2 DEF Cancel, cancel, Perform, Operation, Set
  <2> QED
    BY <2>1, <1>0, <1>2, SameConnection DEF Cancel
<1>3. CASE Expire(o)
  <2>1. op'[o].connection = q.connection
    BY <1>0, <1>3 DEF Expire, cancel, Perform, Operation, Set
  <2> QED
    BY <2>1, <1>0, <1>3, SameConnection DEF Expire
<1>4. CASE dealloc(o)
  <2>1. op'[o].connection = "nil"
    <3> DEFINE r == [q EXCEPT !.alive = FALSE, !.taskID = FALSE, !.connection = "nil"]
               e == [r EXCEPT !.cancelled = TRUE, !.finished = TRUE]
    <3>1. op'[o] = r \/ op'[o] = Complete(e, "cancelled")
      BY <1>0, <1>4 DEF dealloc, Set
    <3>2. r \in Operation
      BY <1>0, FlagTypes, ConnectionType, Zenon, ZenonT(60)
    <3>3. r.connection = "nil"
      BY <1>0 DEF Operation
    <3> HIDE DEF r
    <3>4. e \in Operation
      BY <3>2, FlagTypes, Zenon, ZenonT(60)
    <3>5. e.connection = "nil"
      BY <3>2, <3>3 DEF Operation
    <3> HIDE DEF e
    <3>6. Complete(e, "cancelled").connection = "nil"
      BY <3>4, <3>5 DEF Complete, Operation
    <3> QED
      BY <3>1, <3>3, <3>6
  <2>2. options' = options
    BY <1>4 DEF dealloc
  <2>3. CASE q.executing /\ q.connection # "nil"
    <3>1. PICK b \in BOOLEAN : CountDown(o, b)
      BY <2>3, <1>4 DEF dealloc
    <3> QED
      BY <2>1, <2>2, <2>3, <1>0, <3>1, CountedClose
  <2>4. CASE ~(q.executing /\ q.connection # "nil")
    <3>1. Open' \subseteq Open
      BY <2>1, <2>2, <1>0, ClosedConnection
    <3> QED
      BY <3>1, <2>4, <1>4 DEF dealloc, Forgets
  <2> QED
    BY <2>3, <2>4
<1> QED
  BY <1>1, <1>2, <1>3, <1>4 DEF Client

\* A handler that is to open a connection has none yet.
LEMMA ContinueCounts ==
    ASSUME IInv, NEW o \in Op, Continue(o)
    PROVE  Opens(o) \/ Forgets
<1> DEFINE q == op[o]
<1>0. /\ TypeOK /\ op \in [Op -> Operation] /\ q \in Operation /\ Sound(q)
      /\ Alone(o)
  BY OperationAlone DEF IInv, TypeOK, OperationNext
<1> DEFINE u == [q EXCEPT !.thread = "elsewhere"]
<1>u. u \in Operation /\ u.connection = q.connection
  <2>1. u.connection = q.connection
    BY <1>0 DEF Operation
  <2> QED
    BY <2>1, <1>0, ThreadType
<1>c. ASSUME NEW c \in CompletedUnlessCancelled(u), Set(o, _finish(c))
      PROVE  op'[o].connection = q.connection
  <2>1. c = u \/ c \in Completed(u)
    BY <1>c DEF CompletedUnlessCancelled
  <2> HIDE DEF u
  <2>2. _finish(u).connection = u.connection
    BY <1>u DEF _finish, Operation
  <2>3. _finish(c).connection = u.connection
    BY <2>1, <2>2, <1>u, CompletedKeeps
  <2> QED
    BY <2>3, <1>0, <1>u, <1>c DEF Set
<1>1. CASE MemoryHit(o)
  <2>1. op'[o].connection = q.connection
    BY <1>0, <1>1, <1>c DEF MemoryHit
  <2> QED
    BY <2>1, <1>0, <1>1, SameConnection DEF MemoryHit
<1>2. CASE MemoryMiss(o)
  <2>1. op'[o].connection = q.connection
    BY <1>0, <1>2 DEF MemoryMiss, Perform, Operation, Set
  <2> QED
    BY <2>1, <1>0, <1>2, SameConnection DEF MemoryMiss
<1>3. CASE RefuseRequest(o)
  <2>1. op'[o].connection = q.connection
    BY <1>0, <1>3, <1>c DEF RefuseRequest
  <2> QED
    BY <2>1, <1>0, <1>3, SameConnection DEF RefuseRequest
<1>4. CASE OpenConnection(o)
  <2>1. options' = options /\ q.thread = "_startRequest"
    BY <1>4 DEF OpenConnection
  <2>2. CASE q.cancelled
    <3>1. op'[o].connection = q.connection
      BY <1>0, <1>4, <2>2 DEF OpenConnection, Operation, Set
    <3> QED
      BY <3>1, <2>1, <2>2, <1>0, <1>4, SameConnection DEF OpenConnection, Operation
  <2>3. CASE ~q.cancelled
    <3>1. q.connection = "nil"
      BY <1>0, <2>1 DEF Sound, Places, One, Operation, Selector
    <3>2. CountUp(o)
      BY <1>0, <1>4, <2>3 DEF OpenConnection, Operation
    <3>3. op'[o].connection = "open"
      BY <1>0, <1>4, <2>3, Zenon, ZenonT(60) DEF OpenConnection, Operation, Set
    <3>4. CASE Counted(o)
      <4>1. o \notin Open
        BY <3>1 DEF Open
      <4>2. Open' = Open \cup {o}
        BY <3>3, <3>4, <1>0 DEF Alone, Open, Counted
      <4> QED
        BY <4>1, <4>2, <3>2, <3>4 DEF CountUp, Opens
    <3>5. CASE ~Counted(o)
      <4>1. Open' = Open
        BY <3>3, <3>5, <1>0 DEF Alone, Open, Counted
      <4> QED
        BY <4>1, <3>2, <3>5 DEF CountUp, Forgets
    <3> QED
      BY <3>4, <3>5
  <2> QED
    BY <2>2, <2>3
<1> QED
  BY <1>1, <1>2, <1>3, <1>4 DEF Continue

LEMMA PerformsCounts ==
    ASSUME IInv, NEW o \in Op, Performs(o)
    PROVE  Closes(o) \/ Forgets
<1> DEFINE q == op[o]
<1>0. /\ TypeOK /\ op \in [Op -> Operation] /\ q \in Operation
      /\ Alone(o)
  BY OperationAlone DEF IInv, TypeOK, OperationNext
<1>1. ASSUME NEW s \in {"_startOperation", "_startRequest"}, Enter(o, s)
      PROVE  Forgets
  <2>1. op'[o].connection = q.connection
    BY <1>0, <1>1 DEF Enter, Performed, Operation, Set
  <2> QED
    BY <2>1, <1>0, <1>1, SameConnection DEF Enter
<1>2. CASE _cancelOperation(o)
  <2>1. op'[o].connection = "nil"
    BY <1>0, <1>2 DEF _cancelOperation, Performed, Complete, Operation, Set
  <2>2. options' = options
    BY <1>2 DEF _cancelOperation
  <2>3. CASE q.connection # "nil"
    BY <2>1, <2>2, <2>3, <1>0, <1>2, CountedClose DEF _cancelOperation
  <2>4. CASE q.connection = "nil"
    <3>1. Open' \subseteq Open
      BY <2>1, <2>2, <1>0, ClosedConnection
    <3> QED
      BY <3>1, <2>4, <1>2 DEF _cancelOperation, Forgets
  <2> QED
    BY <2>3, <2>4
<1>p. ASSUME NEW s \in Selector, q.performs[s] > 0,
             IF Performed(q, s).cancelled THEN Set(o, Performed(q, s))
             ELSE \E c \in Completed(Performed(q, s)) : Set(o, _finish(c))
      PROVE  op'[o].connection = q.connection
  <2>1. Performed(q, s) \in Operation
    BY <1>0, <1>p, PerformType
  <2>2. Performed(q, s).connection = q.connection
    BY <1>0 DEF Performed, Operation
  <2>3. \A c \in Completed(Performed(q, s)) : _finish(c).connection = q.connection
    BY <2>1, <2>2, CompletedKeeps
  <2> QED
    BY <1>0, <1>p, <2>2, <2>3 DEF Set
<1>3. CASE _didReceiveImageFromDiskCache(o)
  <2>1. op'[o].connection = q.connection
    BY <1>3, <1>p DEF Selector, _didReceiveImageFromDiskCache
  <2> QED
    BY <2>1, <1>0, <1>3, SameConnection DEF _didReceiveImageFromDiskCache
<1>4. CASE _didReceiveImageFromWeb(o)
  <2>1. op'[o].connection = q.connection
    BY <1>4, <1>p DEF Selector, _didReceiveImageFromWeb
  <2> QED
    BY <2>1, <1>0, <1>4, SameConnection DEF _didReceiveImageFromWeb
<1> QED
  BY <1>1, <1>2, <1>3, <1>4 DEF Performs

LEMMA ConnectionCounts ==
    ASSUME IInv, NEW o \in Op, didReceiveData(o) \/ EndOfConnection(o)
    PROVE  Closes(o) \/ Forgets
<1> DEFINE q == op[o]
<1>0. /\ TypeOK /\ op \in [Op -> Operation] /\ q \in Operation
      /\ Alone(o)
  BY OperationAlone DEF IInv, TypeOK, OperationNext
<1>1. CASE didReceiveData(o)
  <2>1. op'[o].connection = q.connection
    BY <1>0, <1>1 DEF didReceiveData, Progress, Operation, Set
  <2> QED
    BY <2>1, <1>0, <1>1, SameConnection DEF didReceiveData
<1>2. CASE didFailWithError(o)
  <2>1. options' = options /\ q.connection = "open"
    BY <1>2 DEF didFailWithError
  <2>2. CASE q.cancelled
    <3>1. op'[o].connection = "dead"
      BY <1>0, <1>2, <2>2 DEF didFailWithError, Fail, Operation, Set
    <3>2. Open' = Open
      BY <3>1, <2>1, <1>0 DEF Alone, Open, Counted
    <3> QED
      BY <3>2, <1>2, <2>2 DEF didFailWithError, Fail, Forgets
  <2>3. CASE ~q.cancelled
    <3>1. op'[o].connection = "nil"
      <4> DEFINE c == [q EXCEPT !.connection = "nil"]
      <4>1. PICK d \in Completed(c) : op'[o] = _finish(d)
        BY <1>0, <1>2, <2>3 DEF didFailWithError, Fail, Set
      <4>2. c \in Operation /\ c.connection = "nil"
        BY <1>0, ConnectionType, ZenonT(30), ZenonT(60) DEF Operation
      <4> HIDE DEF c
      <4> QED
        BY <4>1, <4>2, CompletedKeeps
    <3> QED
      BY <3>1, <2>1, <2>3, <1>0, <1>2, CountedClose DEF didFailWithError, Fail
  <2> QED
    BY <2>2, <2>3
<1>3. CASE connectionDidFinishLoading(o)
  <2>1. options' = options /\ q.connection = "open"
    BY <1>3 DEF connectionDidFinishLoading
  <2>2. op'[o].connection = "nil"
    BY <1>0, <1>3, Zenon, ZenonT(60) DEF connectionDidFinishLoading, Operation, Set
  <2>3. CASE q.cancelled
    <3>1. Open' \subseteq Open
      BY <2>1, <2>2, <1>0, ClosedConnection
    <3> QED
      BY <3>1, <2>3, <1>3 DEF connectionDidFinishLoading, Forgets
  <2>4. CASE ~q.cancelled
    BY <2>1, <2>2, <2>4, <1>0, <1>3, CountedClose DEF connectionDidFinishLoading
  <2> QED
    BY <2>3, <2>4
<1> QED
  BY <1>1, <1>2, <1>3 DEF EndOfConnection

LEMMA ImageQueueCounts ==
    ASSUME IInv, NEW o \in Op, ImageQueue(o)
    PROVE  Forgets
<1> DEFINE q == op[o]
<1>0. /\ TypeOK /\ op \in [Op -> Operation] /\ q \in Operation
      /\ Alone(o)
  BY OperationAlone DEF IInv, TypeOK, OperationNext
<1>1. CASE StartBlock(o)
  <2>1. op'[o].connection = q.connection
    BY <1>0, <1>1 DEF StartBlock, Operation, Set
  <2> QED
    BY <2>1, <1>0, <1>1, SameConnection DEF StartBlock
<1>2. CASE LookedUp(o)
  <2>1. op'[o].connection = q.connection
    BY <1>0, <1>2 DEF LookedUp, Perform, Operation, Set
  <2> QED
    BY <2>1, <1>0, <1>2, SameConnection DEF LookedUp
<1>3. CASE Decoded(o)
  <2>1. op'[o].connection = q.connection
    BY <1>0, <1>3 DEF Decoded, Perform, Operation, Set
  <2> QED
    BY <2>1, <1>0, <1>3, SameConnection DEF Decoded
<1> QED
  BY <1>1, <1>2, <1>3 DEF ImageQueue

-------------------------------------------------------------------------------
(* The sum. *)

LEMMA CountByOccurrences ==
    /\ CountToCome = count + Occurrences(changes, 1) - Occurrences(changes, -1)
    /\ CountToCome' = count' + Occurrences(changes', 1) - Occurrences(changes', -1)
  BY DEF CountToCome, Change, Occurrences, Positions

LEMMA QueueTyped ==
    ASSUME TypeOK
    PROVE  /\ changes \in Seq({-1, 1}) /\ count \in Int
           /\ Occurrences(changes, 1) \in Nat /\ Occurrences(changes, -1) \in Nat
<1>1. changes \in Seq({-1, 1}) /\ count \in Int
  BY DEF TypeOK, IndicatorTypeOK
<1> QED
  BY <1>1, PositionsFinite

\* A change joins the queue.
LEMMA QueueGrows ==
    ASSUME TypeOK, NEW d \in {-1, 1}, _changeNetworkActivityCount(d, FALSE)
    PROVE  CountToCome' = CountToCome + d
<1>1. changes' = Append(changes, d) /\ count' = count
  BY DEF _changeNetworkActivityCount
<1>2. changes \in Seq({-1, 1}) /\ count \in Int
  BY QueueTyped
<1>3. /\ Occurrences(changes', 1) = Occurrences(changes, 1) + (IF d = 1 THEN 1 ELSE 0)
      /\ Occurrences(changes', -1) = Occurrences(changes, -1) + (IF d = -1 THEN 1 ELSE 0)
  BY <1>1, <1>2, OccurrencesAppend
<1> QED
  BY <1>1, <1>3, QueueTyped, CountByOccurrences

\* A change is made or joins the queue.
LEMMA SumChanges ==
    ASSUME TypeOK, NEW d \in {-1, 1}, NEW b \in BOOLEAN, _changeNetworkActivityCount(d, b)
    PROVE  CountToCome' = CountToCome + d
<1>1. CASE b
  <2>1. changes' = changes /\ count' = count + d
    BY <1>1 DEF _changeNetworkActivityCount, Apply
  <2> QED
    BY <2>1, QueueTyped, CountByOccurrences
<1>2. CASE ~b
  BY <1>2, QueueGrows
<1> QED
  BY <1>1, <1>2

\* A change leaves the queue: the count takes it over.
LEMMA QueueShrinks ==
    ASSUME TypeOK, ChangeCount
    PROVE  CountToCome' = CountToCome
<1>1. changes # <<>> /\ changes' = Tail(changes) /\ count' = count + Head(changes)
  BY DEF ChangeCount, Apply
<1>2. changes \in Seq({-1, 1}) /\ count \in Int
  BY QueueTyped
<1>3. Head(changes) \in {-1, 1} /\ Tail(changes) \in Seq({-1, 1})
  BY <1>1, <1>2
<1>4. /\ Occurrences(changes', 1) \in Nat /\ Occurrences(changes', -1) \in Nat
  BY <1>1, <1>3, PositionsFinite, Zenon, ZenonT(60)
<1>5. /\ Occurrences(changes, 1)
            = Occurrences(changes', 1) + (IF Head(changes) = 1 THEN 1 ELSE 0)
      /\ Occurrences(changes, -1)
            = Occurrences(changes', -1) + (IF Head(changes) = -1 THEN 1 ELSE 0)
  BY <1>1, <1>2, OccurrencesTail
<1>6. CASE Head(changes) = 1
  <2>1. /\ count' = count + 1 /\ Occurrences(changes, 1) = Occurrences(changes', 1) + 1
        /\ Occurrences(changes, -1) = Occurrences(changes', -1)
    BY <1>1, <1>2, <1>4, <1>5, <1>6
  <2> QED
    BY <2>1, <1>2, <1>4, CountByOccurrences
<1>7. CASE Head(changes) = -1
  <2>1. /\ count' = count - 1 /\ Occurrences(changes, 1) = Occurrences(changes', 1)
        /\ Occurrences(changes, -1) = Occurrences(changes', -1) + 1
    BY <1>1, <1>2, <1>4, <1>5, <1>7
  <2> QED
    BY <2>1, <1>2, <1>4, CountByOccurrences
<1> QED
  BY <1>3, <1>6, <1>7

LEMMA CountKept ==
    ASSUME IInv, NeverUndercounts, [Next]_vars
    PROVE  NeverUndercounts'
<1>1. TypeOK /\ IsFiniteSet(Open) /\ Cardinality(Open) \in Nat /\ CountToCome \in Int
  BY OpenFinite, QueueTyped, CountByOccurrences DEF IInv
<1>2. ASSUME Forgets
      PROVE  NeverUndercounts'
  <2>1. CountToCome' = CountToCome
    BY <1>2, CountByOccurrences DEF Forgets, indicatorVars
  <2>2. Open' \in SUBSET Open
    BY <1>2 DEF Forgets
  <2>3. Cardinality(Open') <= Cardinality(Open) /\ Cardinality(Open') \in Nat
    BY <2>2, <1>1, FS_Subset, FS_CardinalityType
  <2> QED
    BY <2>1, <2>3, <1>1 DEF NeverUndercounts
<1>3. ASSUME NEW o \in Op, Opens(o)
      PROVE  NeverUndercounts'
  <2>1. CountToCome' = CountToCome + 1
    BY <1>1, <1>3, QueueGrows DEF Opens, incrementNetworkActivityCount
  <2>2. Cardinality(Open') = Cardinality(Open) + 1
    BY <1>1, <1>3, FS_AddElement DEF Opens
  <2> QED
    BY <2>1, <2>2, <1>1 DEF NeverUndercounts
<1>4. ASSUME NEW o \in Op, Closes(o)
      PROVE  NeverUndercounts'
  <2>1. CountToCome' = CountToCome + (-1)
    <3>1. PICK b \in BOOLEAN : _changeNetworkActivityCount(-1, b)
      BY <1>4 DEF Closes, decrementNetworkActivityCount
    <3> QED
      BY <1>1, <3>1, SumChanges
  <2>2. Cardinality(Open') = Cardinality(Open) - 1
    BY <1>1, <1>4, FS_RemoveElement, Zenon, ZenonT(60) DEF Closes
  <2> QED
    BY <2>1, <2>2, <1>1 DEF NeverUndercounts
<1>5. CASE Indicator
  <2>1. Open' = Open
    BY <1>5 DEF Indicator, Open, Counted
  <2>2. CountToCome' = CountToCome
    <3>1. CASE ChangeCount
      BY <3>1, <1>1, QueueShrinks
    <3>2. CASE _delaySetActivity
      BY <3>2, CountByOccurrences DEF _delaySetActivity
    <3> QED
      BY <3>1, <3>2, <1>5 DEF Indicator
  <2> QED
    BY <2>1, <2>2 DEF NeverUndercounts
<1>6. CASE UNCHANGED vars
  <2>1. Open' = Open /\ UNCHANGED indicatorVars
    BY <1>6 DEF vars, Open, Counted
  <2> QED
    BY <2>1, <1>2 DEF Forgets
<1> QED
  BY <1>2, <1>3, <1>4, <1>5, <1>6, ClientCounts, ContinueCounts, PerformsCounts,
     ConnectionCounts, ImageQueueCounts DEF Next

\* However cancel, dealloc and the connection's delegate methods interleave, no
\* request is taken off the count of YYWebImageManager twice: with the changes still
\* on the main queue the count covers every open connection, for any number of
\* operations.
THEOREM CountNeverTooLow == Spec => []NeverUndercounts
<1>1. Init => NeverUndercounts
  <2> SUFFICES ASSUME Init
               PROVE  NeverUndercounts
    OBVIOUS
  <2>1. Open = {}
    BY DEF Init, New, Open
  <2>2. Cardinality(Open) = 0
    BY <2>1, FS_EmptySet
  <2>3. changes = <<>> /\ count = 0
    BY DEF Init, IndicatorInit
  <2>4. Positions(changes, 1) = {} /\ Positions(changes, -1) = {}
    BY <2>3 DEF Positions
  <2>5. Occurrences(changes, 1) = 0 /\ Occurrences(changes, -1) = 0
    BY <2>4, FS_EmptySet DEF Occurrences
  <2> QED
    BY <2>2, <2>3, <2>5, CountByOccurrences DEF NeverUndercounts
<1>2. IInv /\ NeverUndercounts /\ [Next]_vars => NeverUndercounts'
  BY CountKept
<1> QED
  BY <1>1, <1>2, Invariance, PTL DEF Spec
===============================================================================
