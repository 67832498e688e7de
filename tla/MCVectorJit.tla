---------------------------- MODULE MCVectorJit ----------------------------
(* VectorJit for TLC: three icons for two cells.                             *)
EXTENDS VectorJit, TLC

CONSTANTS gear, home, star, left, right

Interchangeable == Permutations(Handles) \cup Permutations(Cells)
=============================================================================
