------------------------------- MODULE MCYYCache -------------------------------
(* TLC instances of YYCache: keys are interchangeable, and so are threads that all
   write, and blocks. *)
EXTENDS YYCache, TLC

KeySymmetry == Permutations(Key)
WriterSymmetry == KeySymmetry \cup Permutations(Writer) \cup Permutations(Block)

===============================================================================
