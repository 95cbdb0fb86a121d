----------------------------- MODULE MCLinkedMap -----------------------------
(* A small instance of YYLinkedMap for TLC. *)
EXTENDS YYLinkedMap, TLC

Costs == [value : Value, cost : {1, 3}, time : {0}]
KeySymmetry == Permutations(Key)
===============================================================================
