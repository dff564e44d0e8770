--------------------------- MODULE MCSessionRuntime ---------------------------
(* SessionRuntime for TLC: interchangeable ids, slabs and calls.              *)
EXTENDS SessionRuntime, TLC

Symmetry == Permutations(Sid) \cup Permutations(Slab) \cup Permutations(Rpc)
===============================================================================
