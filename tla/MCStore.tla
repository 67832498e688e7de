------------------------------ MODULE MCStore ------------------------------
(* Store for TLC: one process and another, or two Stores in one.            *)
EXTENDS Store, TLC

CONSTANTS one, other, first, second, k, l, v, nan

Interchangeable == Permutations(Calls) \cup Permutations(Stores)
=============================================================================
