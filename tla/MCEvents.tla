------------------------------ MODULE MCEvents ------------------------------
(***************************************************************************)
(* Events for TLC: two buttons, an icon and a field, a row that may come    *)
(* before them, and a dialog with a button over them.  The row moves every  *)
(* other element one place on, on the screen and in the layout.  A radio    *)
(* button beside them only shows its focus, and lies over the icon, which   *)
(* takes the press, where the row has come and it is disabled.              *)
(***************************************************************************)
EXTENDS Events

CONSTANTS row, button, icon, field, other, scrim, ok

\* What each hears; no handler of the row's, only a hover style.
Hears == [e \in Elements |->
            CASE e = button -> {"tap", "double", "enter", "exit", "blur"}
              [] e = icon   -> {"tap", "enter", "exit"}
              [] e = field  -> {"down", "up", "drag", "double", "enter"}
              [] e = other  -> {"focus"}
              [] e \in {ok, scrim} -> {"tap"}
              [] OTHER -> {}]

Areas(grown) ==
  [e \in Elements |->
     CASE e = row -> {1}
       [] e = button -> IF grown THEN {2} ELSE {1}
       [] e = icon   -> IF grown THEN {3} ELSE {2}
       [] e = field  -> {3}
       [] e = other  -> IF grown THEN {3} ELSE {}
       [] e = ok     -> {2}
       [] e = scrim  -> {1, 2, 3}
       [] OTHER -> {}]

\* 1 the page; 2 with the row, which scrolls the field out of sight, and the
\* button disabled; 3 with the dialog, and the button gone.
Pages == 1..3
Page(f) == SelectSeq(<<row, button, icon, other, field>>,
                     LAMBDA e : (e = row => f = 2) /\ (e = button => f # 3))
BuiltOf   == [f \in Pages |-> Page(f) \o (IF f = 3 THEN <<ok, scrim>> ELSE << >>)]
PaintedOf == [f \in Pages |-> IF f = 2 THEN <<row, button, icon, other>>
                              ELSE Page(f) \o (IF f = 3 THEN <<scrim, ok>> ELSE << >>)]
AreaOf    == [f \in Pages |-> Areas(f = 2)]
DisabledIn == [f \in Pages |-> IF f = 2 THEN {button, other} ELSE {}]
=============================================================================
