------------------------------- MODULE ItemStore -------------------------------
(***************************************************************************)
(* What YYKVStorage promises to YYDiskCache whatever goes wrong: a store   *)
(* that may lose an item, but in which an item changes only while it is    *)
(* being saved, and only to what is being saved.  YYKVStorage is shown to  *)
(* implement it.                                                           *)
(***************************************************************************)
EXTENDS Integers

CONSTANTS Key, Nil, Torn

VARIABLES
    store,       \* for each key, the save that a read finds, Torn for a part of it
    saves,       \* how many saves there have been: the number of the newest
    saving       \* the key that is being saved, if any

vars == <<store, saves, saving>>

Init == store = [k \in Key |-> Nil] /\ saves = 0 /\ saving = Nil

Begin(k) ==
    /\ saving = Nil
    /\ saving' = k /\ saves' = saves + 1
    /\ UNCHANGED store

\* A save ends, or has more to do.
GoesOn == saving' \in {saving, Nil} /\ UNCHANGED saves

\* The save becomes what a read finds, or as much of it as was written.
Store ==
    /\ saving # Nil
    /\ \E item \in {saves, Torn} : store' = [store EXCEPT ![saving] = item]
    /\ GoesOn

\* Items are removed, evicted or lost; by a save, only the one it replaces.
Lose(gone) ==
    /\ saving # Nil => gone \subseteq {saving}
    /\ store' = [k \in Key |-> IF k \in gone THEN Nil ELSE store[k]]
    /\ GoesOn

Next == (\E k \in Key : Begin(k)) \/ Store \/ (\E gone \in SUBSET Key : Lose(gone))
Spec == Init /\ [][Next]_vars

===============================================================================
