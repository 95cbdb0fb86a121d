---------------------------- MODULE MCMemoryCache ----------------------------
(* Small instances of YYMemoryCache for TLC. *)
EXTENDS YYMemoryCache, TLC

KeySymmetry == Permutations(Key)
===============================================================================
