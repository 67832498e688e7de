---------------------------- MODULE MCNavigation ----------------------------
(* Navigation for TLC: three screens and a path that no route matches.       *)
EXTENDS Navigation

CONSTANTS home, list, detail, nowhere
=============================================================================
