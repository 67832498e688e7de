------------------------------- MODULE Display -------------------------------
(***************************************************************************)
(* What the frame hand-off promises, with no dirty bits, buffers, marks or *)
(* threads in it: pictures are published one after the other, and the      *)
(* screen shows a whole published picture, never an older one than before. *)
(* Pictures may be skipped.  Module Relay implements this specification.   *)
(***************************************************************************)
EXTENDS Naturals, Sequences

CONSTANT Picture

VARIABLES
  published,   (* Every picture published so far, in order.                 *)
  visible,     (* Which of them is on the screen, 0 before the first.       *)
  picture      (* What is on the screen.                                    *)

vars == << published, visible, picture >>

Init == published = << >> /\ visible = 0 /\ picture = << >>

Publish ==
  \E p \in Picture :
    /\ published' = Append(published, p)
    /\ UNCHANGED << visible, picture >>

Draw ==
  \E v \in 1..Len(published) :
    /\ v >= visible
    /\ visible' = v
    /\ picture' = published[v]
    /\ UNCHANGED published

Next == Publish \/ Draw

Spec == Init /\ [][Next]_vars
===============================================================================
