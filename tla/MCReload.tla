------------------------------ MODULE MCReload ------------------------------
(* Reload for TLC: a program, and an edit of each kind.                      *)
EXTENDS Reload

CONSTANTS int, text, before, after, helper

Root(a, t, b) == [annotation |-> a, type |-> t, body |-> b]

Started  == [root |-> Root(int, int, before), others |-> {}]
Restyled == [root |-> Root(int, int, after), others |-> {}]
Retyped  == [root |-> Root(text, text, before), others |-> {}]
Untyped  == [root |-> Root(None, text, before), others |-> {}]
Extended == [root |-> Root(int, int, before), others |-> {helper}]

Edits == {Started, Restyled, Retyped, Untyped, Extended}
=============================================================================
