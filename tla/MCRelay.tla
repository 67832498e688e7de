------------------------------- MODULE MCRelay -------------------------------
(* Instances of Relay for TLC. *)
EXTENDS Relay, TLC

CONSTANTS a, b

\* What the views of one frame may write to the layer.
AnyWrites == { << >>, << a >>, << b >> }

\* A run has pools of more than one primitive, or requests and writes: the
\* flags of a frame and what it asks for are merged side by side, and neither
\* decides anything of the other.
OneThingAtATime ==
  \/ \A v \in DOMAIN history : Len(history[v].pool) <= 1
  \/ \A v \in DOMAIN history : ~history[v].full /\ history[v].layers = << >>
===============================================================================
