----------------------------- MODULE MCLogicLoop -----------------------------
(***************************************************************************)
(* LogicLoop for TLC.  Every bound is a constant of the .cfg files; the     *)
(* window may close at any time, so a run may stop.                         *)
(***************************************************************************)
EXTENDS LogicLoop
===============================================================================
