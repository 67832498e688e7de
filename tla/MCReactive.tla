----------------------------- MODULE MCReactive -----------------------------
(* Reactive for TLC: two signals that are true or false.                     *)
EXTENDS Reactive, TLC

CONSTANTS count, flag, no, yes

Interchangeable == Permutations(Signals)
=============================================================================
