--------------------------- MODULE YYWebImageManager ---------------------------
(***************************************************************************)
(* The count of active network requests in YYWebImageManager.m and the     *)
(* status bar indicator it drives.  A change asked for on the main thread  *)
(* is made at once, one asked for elsewhere is a block on the main queue;  *)
(* it replaces the timer that will show or hide the indicator.             *)
(***************************************************************************)
EXTENDS Integers, Sequences

VARIABLES
    changes,     \* the main queue: changes of the count yet to be made
    count,       \* info.count
    timer,       \* userInfo of info.timer while it is scheduled
    visible      \* networkActivityIndicatorVisible

indicatorVars == <<changes, count, timer, visible>>

NoTimer == "none"

IndicatorTypeOK ==
    /\ changes \in Seq({-1, 1})
    /\ count \in Int
    /\ timer \in {NoTimer, "show", "hide"}
    /\ visible \in BOOLEAN

IndicatorInit ==
    /\ changes = <<>>
    /\ count = 0
    /\ timer = NoTimer
    /\ visible = FALSE

\* The block that makes a change: the old timer is invalidated.
Apply(delta) ==
    /\ count' = count + delta
    /\ timer' = IF count' > 0 THEN "show" ELSE "hide"
    /\ UNCHANGED visible

\* On the main thread the change is made at once, ahead of those on the main queue.
_changeNetworkActivityCount(delta, isMainThread) ==
    IF isMainThread
    THEN Apply(delta) /\ UNCHANGED changes
    ELSE changes' = Append(changes, delta) /\ UNCHANGED <<count, timer, visible>>

incrementNetworkActivityCount(isMainThread) ==
    _changeNetworkActivityCount(1, isMainThread)
decrementNetworkActivityCount(isMainThread) ==
    _changeNetworkActivityCount(-1, isMainThread)

\* Mutation: a timer that is already scheduled is kept.
ChangeCountKeepingTimer ==
    /\ changes # <<>>
    /\ count' = count + Head(changes)
    /\ timer' = IF timer # NoTimer THEN timer
                ELSE IF count' > 0 THEN "show" ELSE "hide"
    /\ changes' = Tail(changes)
    /\ UNCHANGED visible

\* The next block on the main queue.
ChangeCount ==
    /\ changes # <<>>
    /\ Apply(Head(changes))
    /\ changes' = Tail(changes)

\* The timer fires.
_delaySetActivity ==
    /\ timer # NoTimer
    /\ visible' = (timer = "show")
    /\ timer' = NoTimer
    /\ UNCHANGED <<changes, count>>

\* The indicator agrees with the count once no timer is scheduled, whatever
\* changes came while an earlier timer was running (_changeNetworkActivityCount:
\* replaces the timer, and a timer carries the answer of the count it was made for).
IndicatorFollowsCount == timer = NoTimer => (visible <=> count > 0)

===============================================================================
