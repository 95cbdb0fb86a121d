-------------------------------- MODULE LRUList --------------------------------
(***************************************************************************)
(* The linked map as a specification: what a user of _YYLinkedMap may see  *)
(* it do, one method at a time, with the list as a sequence of keys.       *)
(* YYLinkedMap is shown to implement it.                                   *)
(***************************************************************************)
EXTENDS LRUMap

CONSTANT Contents    \* what a node may hold besides its key and its pointers

VARIABLE lru

Init == lru = EmptyMap
Next == MethodStep(lru, lru', Contents)
Spec == Init /\ [][Next]_lru

===============================================================================
