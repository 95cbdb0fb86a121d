------------------------------ MODULE MCKVStorage ------------------------------
(* TLC instances of YYKVStorage: keys are interchangeable. *)
EXTENDS YYKVStorage, TLC

KeySymmetry == Permutations(Key)

===============================================================================
