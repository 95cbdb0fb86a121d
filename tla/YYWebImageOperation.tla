-------------------------- MODULE YYWebImageOperation --------------------------
(***************************************************************************)
(* YYWebImageOperation.m: operations that load one URL, cancelled by any   *)
(* thread at any time, also by their own completion block.                 *)
(*                                                                         *)
(* The network thread, one for all operations, runs the performed          *)
(* selectors and the delegate methods of the connections, one after the    *)
(* other.  The image queue looks in the disk cache and decodes.  A         *)
(* critical section of the operation's lock is one step.  A handler that   *)
(* looks at isCancelled before it takes the lock is two steps, so that     *)
(* cancel comes between them.  _connection belongs to the network thread.  *)
(*                                                                         *)
(* What the caches, the network and the decoder answer is arbitrary.       *)
(***************************************************************************)
EXTENDS YYWebImageManager, FiniteSets

CONSTANTS
    Op,          \* the operations
    Options,     \* the sets of options an operation may be created with
    Queued       \* are operations added to a queue, which retains them?

ASSUME OperationAssumption ==
    /\ IsFiniteSet(Op)
    /\ Options \subseteq SUBSET {"UseNSURLCache", "IgnoreDiskCache", "IgnoreFailedURL",
                                 "ShowNetworkActivity", "AllowBackgroundTask"}
    /\ Queued \in BOOLEAN

VARIABLES
    op,          \* the operations
    options,     \* _options, of each operation
    blacklist    \* is the URL in URLBlacklist?

vars == <<op, options, blacklist, indicatorVars>>

Selector == {"_startOperation", "_startRequest", "_cancelOperation",
             "_didReceiveImageFromDiskCache", "_didReceiveImageFromWeb"}

\* The last six fields are not members of the class: where the network thread is,
\* the block on the image queue, and four histories: how often _completion was called
\* for the end of the request, the stage of the latest report, whether progress was
\* reported after cancel, and whether _completion, told the end, called cancel.
Operation ==
    [alive : BOOLEAN, started : BOOLEAN, executing : BOOLEAN, finished : BOOLEAN,
     cancelled : BOOLEAN,
     connection : {"nil", "open", "dead"},
     taskID : BOOLEAN,
     performs : [Selector -> Nat],
     thread : {"elsewhere", "_startOperation", "_startRequest"},
     block : {"none", "disk", "lookup", "web", "decode"},
     ends : Nat,
     stage : {"none", "progress", "finished", "cancelled"},
     late : BOOLEAN,
     reentered : BOOLEAN]

TypeOK ==
    /\ op \in [Op -> Operation]
    /\ options \in [Op -> Options]
    /\ blacklist \in BOOLEAN
    /\ IndicatorTypeOK

New ==
    [alive |-> TRUE, started |-> FALSE, executing |-> FALSE, finished |-> FALSE,
     cancelled |-> FALSE, connection |-> "nil", taskID |-> FALSE,
     performs |-> [s \in Selector |-> 0], thread |-> "elsewhere", block |-> "none",
     ends |-> 0, stage |-> "none", late |-> FALSE, reentered |-> FALSE]

Init ==
    /\ op = [o \in Op |-> New]
    /\ options \in [Op -> Options]
    /\ blacklist = FALSE
    /\ IndicatorInit

-------------------------------------------------------------------------------
(* What the code does to one operation r. *)

\* performSelector:onThread: and its run on the network thread.
Perform(r, s) == [r EXCEPT !.performs[s] = @ + 1]

\* Mutation: the run loop drops the same selector again.
PerformedTwice(r, s) == [r EXCEPT !.performs[s] = @ - 2]

Performed(r, s) == [r EXCEPT !.performs[s] = @ - 1]

\* _completion, at the end of the request.
Complete(r, stage) == [r EXCEPT !.ends = @ + 1, !.stage = stage]

\* Mutation: the background task is not ended.
FinishKeepingTask(r) == [r EXCEPT !.executing = FALSE, !.finished = TRUE]

_finish(r) == [r EXCEPT !.executing = FALSE, !.finished = TRUE, !.taskID = FALSE]

\* Mutation: the operation is finished even if it has not been started.
FinishOnCancel(r) ==
    IF r.cancelled THEN r
    ELSE LET c == [r EXCEPT !.cancelled = TRUE, !.executing = FALSE, !.finished = TRUE]
         IN  IF r.executing THEN Perform(c, "_cancelOperation") ELSE c

\* Mutation: _cancelOperation is performed whether or not the operation is executing.
CancelUnconditionally(r) ==
    IF r.cancelled THEN r
    ELSE Perform([r EXCEPT !.cancelled = TRUE, !.executing = FALSE,
                           !.finished = @ \/ r.started],
                 "_cancelOperation")

cancel(r) ==
    IF r.cancelled THEN r
    ELSE LET c == [r EXCEPT !.cancelled = TRUE, !.executing = FALSE,
                            !.finished = @ \/ r.started]
         IN  IF r.executing THEN Perform(c, "_cancelOperation") ELSE c

\* _completion, with the stage Finished: it is called under the lock, which is
\* recursive, before _finish, so it may cancel its own operation there and then.
\* (Told Cancelled, or from dealloc, it cancels what is cancelled already.)
Completed(r) ==
    LET c == Complete(r, "finished")
    IN  {c, [cancel(c) EXCEPT !.reentered = TRUE]}

CompletedUnlessCancelled(r) == IF r.cancelled THEN {r} ELSE Completed(r)

Progress(r) == [r EXCEPT !.stage = "progress", !.late = @ \/ r.cancelled]

Counted(o) == "ShowNetworkActivity" \in options[o]

CountUp(o) ==
    IF Counted(o) THEN incrementNetworkActivityCount(FALSE) ELSE UNCHANGED indicatorVars

CountDown(o, isMainThread) ==
    IF Counted(o) THEN decrementNetworkActivityCount(isMainThread)
    ELSE UNCHANGED indicatorVars

Set(o, r) == op' = [op EXCEPT ![o] = r]

-------------------------------------------------------------------------------
(* The thread of the caller, or of the operation queue. *)

\* An operation is started once, as NSOperation demands; it has no dependencies, so
\* that it isReady.
start(o) ==
    /\ op[o].alive /\ ~op[o].started
    /\ LET r == [op[o] EXCEPT !.started = TRUE]
       IN  Set(o, IF r.cancelled
                  THEN Perform([r EXCEPT !.finished = TRUE], "_cancelOperation")
                  ELSE Perform([r EXCEPT !.executing = TRUE,
                                         !.taskID = "AllowBackgroundTask" \in options[o]],
                               "_startOperation"))
    /\ UNCHANGED <<options, blacklist, indicatorVars>>

Cancel(o) ==
    /\ op[o].alive /\ ~op[o].cancelled
    /\ Set(o, cancel(op[o]))
    /\ UNCHANGED <<options, blacklist, indicatorVars>>

\* The system ends the background task: the expiration handler.
Expire(o) ==
    /\ op[o].alive /\ op[o].taskID
    /\ Set(o, [cancel(op[o]) EXCEPT !.finished = TRUE])
    /\ UNCHANGED <<options, blacklist, indicatorVars>>

\* Selectors to perform and running blocks hold the operation, the connection does not.
Held(o) ==
    \/ \E s \in Selector : op[o].performs[s] > 0
    \/ op[o].thread # "elsewhere"
    \/ op[o].block \in {"lookup", "decode"}
    \/ Queued /\ ~op[o].finished

\* The last reference goes away, on whatever thread.
dealloc(o) ==
    /\ op[o].alive /\ op[o].started /\ ~Held(o)
    /\ LET r == [op[o] EXCEPT !.alive = FALSE, !.taskID = FALSE, !.connection = "nil"]
       IN  IF op[o].executing
           THEN Set(o, Complete([r EXCEPT !.cancelled = TRUE, !.finished = TRUE],
                                "cancelled"))
           ELSE Set(o, r)
    /\ IF op[o].executing /\ op[o].connection # "nil"
       THEN \E isMainThread \in BOOLEAN : CountDown(o, isMainThread)
       ELSE UNCHANGED indicatorVars
    /\ UNCHANGED <<options, blacklist>>

-------------------------------------------------------------------------------
(* The network thread: performed selectors. *)

Idle == \A p \in Op : op[p].thread = "elsewhere"

\* The first check of isCancelled in _startOperation and _startRequest:.
Enter(o, s) ==
    /\ Idle
    /\ op[o].performs[s] > 0
    /\ Set(o, [Performed(op[o], s) EXCEPT
                   !.thread = IF op[o].cancelled THEN "elsewhere" ELSE s])
    /\ UNCHANGED <<options, blacklist, indicatorVars>>

\* UseNSURLCache stands for every reason to go past the caches: RefreshImageCache,
\* and no cache at all.
UsesCache(o) == "UseNSURLCache" \notin options[o]

\* _startOperation: the image is in the memory cache.
MemoryHit(o) ==
    /\ UsesCache(o)
    /\ op[o].thread = "_startOperation"
    /\ \E r \in CompletedUnlessCancelled([op[o] EXCEPT !.thread = "elsewhere"]) :
          Set(o, _finish(r))
    /\ UNCHANGED <<options, blacklist, indicatorVars>>

\* _startOperation: it is not, or the caches are not to be used.
MemoryMiss(o) ==
    /\ op[o].thread = "_startOperation"
    /\ LET r == [op[o] EXCEPT !.thread = "elsewhere"]
       IN  Set(o, IF UsesCache(o) /\ "IgnoreDiskCache" \notin options[o]
                  THEN [r EXCEPT !.block = "disk"]
                  ELSE Perform(r, "_startRequest"))
    /\ UNCHANGED <<options, blacklist, indicatorVars>>

\* The rest of _startRequest:, entered from the run loop.
Blacklisted(o) == "IgnoreFailedURL" \in options[o] /\ blacklist

RefuseRequest(o) ==
    /\ op[o].thread = "_startRequest"
    /\ Blacklisted(o)
    /\ \E r \in CompletedUnlessCancelled([op[o] EXCEPT !.thread = "elsewhere"]) :
          Set(o, _finish(r))
    /\ UNCHANGED <<options, blacklist, indicatorVars>>

OpenConnection(o) ==
    /\ op[o].thread = "_startRequest"
    /\ ~Blacklisted(o)
    /\ LET r == [op[o] EXCEPT !.thread = "elsewhere"]
       IN  IF r.cancelled
           THEN Set(o, r) /\ UNCHANGED indicatorVars
           ELSE Set(o, [r EXCEPT !.connection = "open"]) /\ CountUp(o)
    /\ UNCHANGED <<options, blacklist>>

\* Mutation: the count goes down whether or not there is a connection.
CancelOperationCounting(o) ==
    /\ Idle
    /\ op[o].performs["_cancelOperation"] > 0
    /\ Set(o, Complete([Performed(op[o], "_cancelOperation") EXCEPT
                            !.connection = "nil", !.taskID = FALSE], "cancelled"))
    /\ CountDown(o, FALSE)
    /\ UNCHANGED <<options, blacklist>>

_cancelOperation(o) ==
    /\ Idle
    /\ op[o].performs["_cancelOperation"] > 0
    /\ Set(o, Complete([Performed(op[o], "_cancelOperation") EXCEPT
                            !.connection = "nil", !.taskID = FALSE], "cancelled"))
    /\ IF op[o].connection # "nil" THEN CountDown(o, FALSE) ELSE UNCHANGED indicatorVars
    /\ UNCHANGED <<options, blacklist>>

\* The image queue performs it only with an image.
_didReceiveImageFromDiskCache(o) ==
    /\ Idle
    /\ op[o].performs["_didReceiveImageFromDiskCache"] > 0
    /\ LET r == Performed(op[o], "_didReceiveImageFromDiskCache")
       IN  IF r.cancelled THEN Set(o, r) ELSE \E c \in Completed(r) : Set(o, _finish(c))
    /\ UNCHANGED <<options, blacklist, indicatorVars>>

_didReceiveImageFromWeb(o) ==
    /\ Idle
    /\ op[o].performs["_didReceiveImageFromWeb"] > 0
    /\ LET r == Performed(op[o], "_didReceiveImageFromWeb")
       IN  IF r.cancelled THEN Set(o, r) ELSE \E c \in Completed(r) : Set(o, _finish(c))
    /\ \E decoded \in BOOLEAN :
          blacklist' = (\/ blacklist
                        \/ ~op[o].cancelled /\ ~decoded /\ "IgnoreFailedURL" \in options[o])
    /\ UNCHANGED <<options, indicatorVars>>

-------------------------------------------------------------------------------
(* The network thread: the connection's delegate. *)

\* Mutation: a cancelled operation reports progress too.
ReceiveDataUnchecked(o) ==
    /\ Idle
    /\ op[o].alive /\ op[o].connection = "open"
    /\ Set(o, Progress(op[o]))
    /\ UNCHANGED <<options, blacklist, indicatorVars>>

\* A response or data, which _progress and, progressively decoded, _completion see.
didReceiveData(o) ==
    /\ Idle
    /\ op[o].alive /\ op[o].connection = "open"
    /\ ~op[o].cancelled
    /\ Set(o, Progress(op[o]))
    /\ UNCHANGED <<options, blacklist, indicatorVars>>

\* didFailWithError:, with an error that puts the URL on the blacklist or one that
\* does not.
Fail(o, connection) ==
    IF op[o].cancelled
    THEN /\ Set(o, [op[o] EXCEPT !.connection = connection])
         /\ UNCHANGED <<blacklist, indicatorVars>>
    ELSE /\ \E c \in Completed([op[o] EXCEPT !.connection = "nil"]) : Set(o, _finish(c))
         /\ CountDown(o, FALSE)
         /\ \E permanent \in BOOLEAN :
               blacklist' = (blacklist \/ (permanent /\ "IgnoreFailedURL" \in options[o]))

\* The connection is over and calls no other delegate method, in both cases: it
\* failed, or a response with an error status made didReceiveResponse: cancel it.
didFailWithError(o) ==
    /\ Idle
    /\ op[o].alive /\ op[o].connection = "open"
    /\ Fail(o, "dead")
    /\ UNCHANGED options

connectionDidFinishLoading(o) ==
    /\ Idle
    /\ op[o].alive /\ op[o].connection = "open"
    /\ IF op[o].cancelled
       THEN Set(o, [op[o] EXCEPT !.connection = "nil"]) /\ UNCHANGED indicatorVars
       ELSE Set(o, [op[o] EXCEPT !.connection = "nil", !.block = "web"]) /\ CountDown(o, FALSE)
    /\ UNCHANGED <<options, blacklist>>

-------------------------------------------------------------------------------
(* The image queue. *)

\* A block starts: it gets a strong reference if the operation is still there, and
\* the one that reads the disk cache looks at isCancelled.
StartBlock(o) ==
    /\ op[o].block \in {"disk", "web"}
    /\ Set(o, [op[o] EXCEPT !.block =
                   IF ~op[o].alive \/ (@ = "disk" /\ op[o].cancelled) THEN "none"
                   ELSE IF @ = "disk" THEN "lookup" ELSE "decode"])
    /\ UNCHANGED <<options, blacklist, indicatorVars>>

\* Mutation: a miss in the disk cache is not followed by a request.
LookedUpHitOnly(o) ==
    /\ op[o].block = "lookup"
    /\ \E hit \in BOOLEAN :
          LET r == [op[o] EXCEPT !.block = "none"]
          IN  Set(o, IF hit THEN Perform(r, "_didReceiveImageFromDiskCache") ELSE r)
    /\ UNCHANGED <<options, blacklist, indicatorVars>>

\* The disk cache has answered.
LookedUp(o) ==
    /\ op[o].block = "lookup"
    /\ \E s \in {"_didReceiveImageFromDiskCache", "_startRequest"} :
          Set(o, Perform([op[o] EXCEPT !.block = "none"], s))
    /\ UNCHANGED <<options, blacklist, indicatorVars>>

\* The image is decoded and transformed.
Decoded(o) ==
    /\ op[o].block = "decode"
    /\ LET r == [op[o] EXCEPT !.block = "none"]
       IN  Set(o, IF r.cancelled THEN r ELSE Perform(r, "_didReceiveImageFromWeb"))
    /\ UNCHANGED <<options, blacklist, indicatorVars>>

-------------------------------------------------------------------------------
Client(o) == start(o) \/ Cancel(o) \/ Expire(o) \/ dealloc(o)

Continue(o) == MemoryHit(o) \/ MemoryMiss(o) \/ RefuseRequest(o) \/ OpenConnection(o)

Performs(o) ==
    \/ \E s \in {"_startOperation", "_startRequest"} : Enter(o, s)
    \/ _cancelOperation(o)
    \/ _didReceiveImageFromDiskCache(o)
    \/ _didReceiveImageFromWeb(o)

EndOfConnection(o) == didFailWithError(o) \/ connectionDidFinishLoading(o)

ImageQueue(o) == StartBlock(o) \/ LookedUp(o) \/ Decoded(o)

\* The main thread.
Indicator == (ChangeCount \/ _delaySetActivity) /\ UNCHANGED <<op, options, blacklist>>

Next ==
    \/ \E o \in Op :
          \/ Client(o) \/ Continue(o) \/ Performs(o)
          \/ didReceiveData(o) \/ EndOfConnection(o) \/ ImageQueue(o)
    \/ Indicator

Spec == Init /\ [][Next]_vars

\* The queue starts every operation, the threads and queues go on, and a connection
\* ends: the request has a timeout.  Selectors are performed in the order of the run
\* loop, so none waits for ever.  Nobody has to cancel.
Fairness ==
    /\ WF_vars(Indicator)
    /\ \A o \in Op : /\ WF_vars(start(o)) /\ WF_vars(Continue(o))
                     /\ SF_vars(Performs(o)) /\ SF_vars(EndOfConnection(o))
                     /\ WF_vars(ImageQueue(o))

FairSpec == Spec /\ Fairness

-------------------------------------------------------------------------------
\* _completion is called for the end of a request at most once, and never with a
\* stage of progress after that: cancel, from any thread and at any moment, and the
\* handlers of the network thread agree on which of them reports the end.  The one
\* exception: a _completion that cancels its own operation while it is told Finished,
\* before _finish, is told a second time, Cancelled, and then no more.
CompletesOnce ==
    \A o \in Op : /\ op[o].ends <= IF op[o].reentered THEN 2 ELSE 1
                  /\ op[o].ends = 1 => op[o].stage \in {"finished", "cancelled"}
                  /\ op[o].ends = 2 => op[o].stage = "cancelled"

\* What NSOperationQueue relies on: an operation is finished only after start, even if
\* it is cancelled first, and never finished and executing at once.
FinishedAfterStart ==
    \A o \in Op : op[o].alive /\ op[o].finished => op[o].started /\ ~op[o].executing

\* The background task of an operation is open only while the operation executes or its
\* _cancelOperation is still to be performed, so that it is never left open.
TaskIsOwned ==
    \A o \in Op : op[o].taskID => \/ op[o].executing
                                  \/ op[o].performs["_cancelOperation"] > 0

\* Reports to a cancelled operation: none, or its end with the stage Cancelled.
NothingButCancelled(q, r) ==
    /\ r.late = q.late
    /\ \/ r.ends = q.ends /\ r.stage = q.stage
       \/ r.ends = q.ends + 1 /\ r.stage = "cancelled"

\* Once cancel has returned, no progress and no Finished is reported any more, only
\* the end with the stage Cancelled: each handler looks at isCancelled again under
\* the lock.
OnlyCancelledAfterCancel ==
    [][\A o \in Op : op[o].cancelled => NothingButCancelled(op[o], op'[o])]_vars

Open == {o \in Op : Counted(o) /\ op[o].connection # "nil"}

\* The changes on the main queue, added up.
Change(d) == Cardinality({i \in DOMAIN changes : changes[i] = d})
CountToCome == count + Change(1) - Change(-1)

\* No request is taken off the count twice: the count, with the changes on the main
\* queue, covers every connection that is still there, so the indicator is not hidden
\* while a request is active once those changes are made.
NeverUndercounts == CountToCome >= Cardinality(Open)

\* Every operation the queue starts ends: it is finished, has called _completion for
\* its end, and has closed its background task.
EveryRequestEnds ==
    \A o \in Op : <>[](op[o].finished /\ op[o].ends > 0 /\ ~op[o].taskID)

\* currentNetworkActivityCount is the number of active requests (YYWebImageManager.h:
\* "Get current number of active network requests").
CountIsExact == changes = <<>> => count = Cardinality(Open)

===============================================================================
