--------------------------- MODULE MCMemoryStore ---------------------------
(* Model-checking instance of MemoryStore.                                 *)
EXTENDS MemoryStore, TLC

Symmetry == Permutations(Handlers)
=============================================================================
