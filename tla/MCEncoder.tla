------------------------------ MODULE MCEncoder ------------------------------
(* Instances of Encoder for TLC. *)
EXTENDS Encoder, TLC

Box(lo, hi, look) ==
  [ base |-> lo..hi, reach |-> lo..hi, paint |-> lo..hi, look |-> look ]
Shadowed(lo, hi, end, look) ==
  [ base |-> lo..hi, reach |-> lo..end, paint |-> lo..end, look |-> look ]
Moved(lo, hi, by, look) ==
  [ base |-> lo..hi, reach |-> lo..hi, paint |-> (lo + by)..(hi + by),
    look |-> look ]

OpaqueLooks == { "red" }

(* Nothing of any pool, and what a set of frames has more.                  *)
EveryPool ==
  { "solid", "text", "shape", "effect", "vector", "fill", "group", "native" }

With(some) ==
  { [ p \in EveryPool |-> IF p \in DOMAIN pools THEN pools[p] ELSE << >> ] :
      pools \in some }

(* The sequences items may grow through, one at a time.                     *)
Prefixes(items) == { SubSeq(items, 1, n) : n \in 0..Len(items) }

(* Pools whose length is watched, primitives that paint what is recorded.   *)
Watched ==
  [ solid  : Prefixes(<< Box(1, 2, "red"), Box(5, 5, "blue") >>),
    text   : Prefixes(<< Box(4, 5, "ink") >>),
    native : Prefixes(<< Box(4, 4, "chart") >>) ]

(* A pool not counted, a shadow, a primitive moved by a transform, an effect. *)
Mixed ==
  [ shape  : Prefixes(<< Shadowed(1, 1, 2, "card"), Moved(4, 4, 1, "card") >>)
               \cup { << Moved(4, 4, 1, "card") >> },
    effect : Prefixes(<< Box(3, 3, "ripple") >>) ]

(* A box that may fade in a group, beside a filled path and a vector glyph. *)
Faded ==
  [ solid  : { << Box(1, 2, "red") >> },
    group  : Prefixes(<< Box(1, 2, "half") >>),
    fill   : Prefixes(<< Box(5, 5, "area") >>),
    vector : Prefixes(<< Box(2, 2, "icon") >>) ]

EveryContents == With(Watched \cup Mixed \cup Faded)

PlainPools    == { "solid", "fill", "group" }
PlainContents ==
  { [ p \in PlainPools |-> pools[p] ] : pools \in Faded }
===============================================================================
