------------------------------- MODULE Encoder -------------------------------
(***************************************************************************)
(* What a drawn frame repaints (crates/byard-core/src/encoder/mod.rs).     *)
(*                                                                         *)
(* The encoder keeps the picture in a texture of its own and, unless it    *)
(* must redraw in full, repaints one rectangle: the hull of every dirty    *)
(* primitive's bounds and of the bounds recorded at the same position of   *)
(* the same pool one frame earlier.  What it keeps between two frames is   *)
(* those bounds, the two counts it compares and a digest of the native     *)
(* batches; everything else it must trust the frame to say.                *)
(*                                                                         *)
(* A primitive has three sets of cells: `base`, the rectangle recorded for *)
(* the next frame; `reach`, the bounds taken in the frame it is drawn in   *)
(* (a shadow and a wrapped paragraph reach past base); and `paint`, where  *)
(* its ink lands, which a translate or a scale moves away from both.       *)
(*                                                                         *)
(* The screen is a row of cells; a rectangle is an interval.  A cell holds *)
(* the set of inks that show in it.  A look is whatever decides an ink: the *)
(* clip it is drawn under, the texels of a glyph.  Draw order, rotation and *)
(* the strip of clip masks are left out.                                   *)
(*                                                                         *)
(* An encode may fail half way, and the host may go on (Relay!EncodeFails). *)
(*                                                                         *)
(* Init, Next and the like are called EncoderInit, EncoderNext and so on:  *)
(* FrameProofs extends this module and Relay together.                     *)
(***************************************************************************)
EXTENDS Naturals, Sequences, FiniteSets

CONSTANTS
  Width,      (* Cells of the screen.                                       *)
  UsedPools,  (* The primitive pools the frames use, out of AllPools.       *)
  Contents,   (* What the pools of a frame may hold: for each, a sequence.  *)
  Opaque      (* The looks that hide what was in a cell before them.        *)

\* DecoratedBox and CanvasShape are "shape", Ripple and Backdrop "effect",
\* VectorMSDF "vector" and CanvasFill "fill": alike in the traits below.  An
\* OpacityGroup is a "group", whose ink is what fading does to its cells.
AllPools == { "solid", "text", "shape", "texture", "effect", "vector", "fill",
              "group", "native" }

\* Pools whose length is compared with the last frame's.
Counted == {"solid", "text"}
\* Pools PaintDigest gives dirty bits to.
Compared == {"solid", "text", "shape"}
\* Pools every primitive of which is dirty in every frame: an image is
\* emitted dirty and its bit never cleared, an effect has no bit at all.
Restless == {"texture", "effect"}
\* Pools whose bounds join the scissor.
Measured == Compared \cup Restless
\* Pools with no bits and no bounds, whose change nothing notices.
Unnoticed == {"vector", "fill", "group"}

Cells == 1..Width

ASSUME EncoderAssumption ==
  /\ Width \in Nat
  /\ UsedPools \subseteq AllPools
  /\ \A pools \in Contents :
       /\ DOMAIN pools = UsedPools
       /\ \A p \in UsedPools :
            /\ pools[p] \in Seq({ pools[p][i] : i \in DOMAIN pools[p] })
            /\ \A i \in DOMAIN pools[p] : pools[p][i].paint \subseteq Cells

VARIABLES
  frame,      (* The last frame encoded.                                    *)
  texture,    (* persistent_color.                                          *)
  sticky,     (* needs_full_redraw.                                         *)
  bounds,     (* last_*_bounds: its lengths are also last_instance_count    *)
              (* and last_text_count, all set together.                     *)
  batches,    (* last_native_digest.                                        *)
  pass,       (* last_frame_full_redraw and last_frame_scissored.           *)
  failed,     (* History: the last encode failed.                           *)
  excused     (* History: cells the code gives no rule to repaint.          *)

encoderVars ==
  << frame, texture, sticky, bounds, batches, pass, failed, excused >>

Undefined == { << "undefined", "undefined" >> }

Empty == [ pools |-> [ p \in UsedPools |-> << >> ], carried |-> FALSE,
           full |-> FALSE, uploads |-> FALSE ]

EncoderInit ==
  /\ frame = Empty
  /\ texture = [ c \in Cells |-> Undefined ]
  /\ sticky = TRUE
  /\ bounds = [ p \in UsedPools |-> << >> ]
  /\ batches = << >>
  /\ pass = "skipped"
  /\ failed = FALSE
  /\ excused = {}

(***************************************************************************)
(* Pictures.                                                               *)
(***************************************************************************)

Inks(pools, c) ==
  UNION { { << p, pools[p][i].look >> :
              i \in { j \in DOMAIN pools[p] : c \in pools[p][j].paint } } :
          p \in UsedPools }

\* Opaque ink hides what was there, unless it is faded with its group.
Hides(inks) ==
  /\ \E ink \in inks : ink[2] \in Opaque
  /\ \A ink \in inks : ink[1] # "group"

\* A draw that clears nothing: translucent ink is blended with itself.
Over(old, new) ==
  IF Hides(new) THEN new
  ELSE IF new = {} THEN old
  ELSE old \cup new \cup { << "twice", "twice" >> }

(***************************************************************************)
(* The scissor.                                                            *)
(***************************************************************************)

\* The bits a frame carries: what changed since the frame last drawn, and
\* perhaps more (Relay!Coverage; a merge over two lengths marks a whole pool).
Dirty(next, p, i) ==
  \/ p \in Restless
  \/ next.carried
  \/ i \notin DOMAIN frame.pools[p]
  \/ frame.pools[p][i] # next.pools[p][i]

\* Fault: what a primitive covered a frame ago is not repainted.
FaultyDirtyCells(next) ==
  UNION { UNION { next.pools[p][i].reach :
                  i \in { j \in DOMAIN next.pools[p] : Dirty(next, p, j) } } :
          p \in UsedPools \cap Measured }

\* union_dirty_rects, of every measured pool.
DirtyCells(next) ==
  UNION { UNION { next.pools[p][i].reach \cup
                    (IF i \in DOMAIN bounds[p] THEN bounds[p][i] ELSE {}) :
                  i \in { j \in DOMAIN next.pools[p] : Dirty(next, p, j) } } :
          p \in UsedPools \cap Measured }

\* Rect::union is the smallest rectangle around both.
Hull(S) == { c \in Cells : \E lo, hi \in S : lo <= c /\ c <= hi }

\* compute_scissor; empty stands for None.  The margin of two pixels for
\* antialiasing is left out.
Scissor(next) == Hull(DirtyCells(next))

\* Fault: a native view forces a full redraw by being present.
FaultyFullForNative(next) ==
  \/ sticky
  \/ next.full
  \/ "native" \in UsedPools /\ next.pools["native"] # << >>
  \/ \E p \in UsedPools \cap Counted : Len(next.pools[p]) # Len(bounds[p])

\* needs_full_redraw_this_frame, with the digest of the native batches.
NeedsFullRedraw(next) ==
  \/ sticky
  \/ next.full
  \/ "native" \in UsedPools /\ next.pools["native"] # batches
  \/ \E p \in UsedPools \cap Counted : Len(next.pools[p]) # Len(bounds[p])

\* Fault: the older bounds are not cleared first.
FaultyBookkeeping(next) ==
  [ p \in UsedPools |->
      bounds[p] \o [ i \in DOMAIN next.pools[p] |-> next.pools[p][i].base ] ]

\* update_frame_bookkeeping: a text's bounds without its wrapping, a
\* decorated box's rectangle without its shadow.
Bookkeeping(next) ==
  [ p \in UsedPools |->
      [ i \in DOMAIN next.pools[p] |-> next.pools[p][i].base ] ]

(***************************************************************************)
(* Where the rules above leave old ink (or no new ink) behind:             *)
(*   - a primitive gone from the end of a pool whose length is not watched *)
(*   - what a changed primitive paints outside its bounds, or painted      *)
(*     outside those recorded for it                                       *)
(*   - a vector glyph, a filled path or the fading of a group, which have  *)
(*     neither bits nor bounds                                             *)
(*   - a native view whose change an encode that failed had noticed: its   *)
(*     digest is already the one to compare with                           *)
(***************************************************************************)
PaintOf(items) == UNION { items[i].paint : i \in DOMAIN items }

Unwatched(next) ==
  UNION { UNION { frame.pools[p][i].paint :
                  i \in DOMAIN frame.pools[p] \ DOMAIN next.pools[p] } :
          p \in (UsedPools \cap Measured) \ Counted }

Unbounded(next) ==
  UNION { UNION { (next.pools[p][i].paint \ next.pools[p][i].reach) \cup
                  (IF i \in DOMAIN frame.pools[p]
                   THEN frame.pools[p][i].paint \ frame.pools[p][i].base
                   ELSE {}) :
                  i \in { j \in DOMAIN next.pools[p] :
                            \/ j \notin DOMAIN frame.pools[p]
                            \/ frame.pools[p][j] # next.pools[p][j] } } :
          p \in UsedPools \cap Measured }

Unmarked(next) ==
  UNION { PaintOf(frame.pools[p]) \cup PaintOf(next.pools[p]) :
          p \in { q \in UsedPools \cap Unnoticed :
                    frame.pools[q] # next.pools[q] } }

Forgotten(next) ==
  IF /\ "native" \in UsedPools
     /\ frame.pools["native"] \notin { batches, next.pools["native"] }
  THEN PaintOf(frame.pools["native"]) \cup PaintOf(next.pools["native"])
  ELSE {}

Gaps(next) ==
  Unwatched(next) \cup Unbounded(next) \cup Unmarked(next) \cup Forgotten(next)

(***************************************************************************)
(* encode_frame_from_relay and draw_ui_pass.                               *)
(***************************************************************************)

RedrawFull(next) ==
  /\ NeedsFullRedraw(next)
  /\ texture' = [ c \in Cells |-> Inks(next.pools, c) ]
  /\ pass' = "full"
  /\ excused' = {}

RedrawScissored(next) ==
  /\ ~NeedsFullRedraw(next) /\ Scissor(next) # {}
  /\ texture' = [ c \in Cells |->
                   IF c \in Scissor(next) THEN Inks(next.pools, c)
                   ELSE texture[c] ]
  /\ pass' = "scissored"
  /\ excused' = (excused \cup Gaps(next)) \ Scissor(next)

\* A fresh atlas upload draws with no scissor, which means nothing is cleared.
RedrawUploaded(next) ==
  /\ ~NeedsFullRedraw(next) /\ Scissor(next) = {} /\ next.uploads
  /\ texture' = [ c \in Cells |-> Over(texture[c], Inks(next.pools, c)) ]
  /\ pass' = "unscissored"
  /\ excused' = { c \in Cells :
                    /\ ~Hides(Inks(next.pools, c))
                    /\ \/ c \in excused \cup Gaps(next)
                       \/ Inks(next.pools, c) # {} }

RedrawNothing(next) ==
  /\ ~NeedsFullRedraw(next) /\ Scissor(next) = {} /\ ~next.uploads
  /\ pass' = "skipped"
  /\ excused' = excused \cup Gaps(next)
  /\ UNCHANGED texture

\* What the relay may hand over.
Arriving ==
  [ pools : Contents, carried : BOOLEAN, full : BOOLEAN,
    uploads : IF "vector" \in UsedPools THEN BOOLEAN ELSE { FALSE } ]

\* native_batch_digest, stored before anything is drawn.
Digest(next) == IF "native" \in UsedPools THEN next.pools["native"] ELSE batches

EncodeFrame ==
  \E next \in Arriving :
    /\ \/ RedrawFull(next) \/ RedrawScissored(next)
       \/ RedrawUploaded(next) \/ RedrawNothing(next)
    /\ frame' = next
    /\ sticky' = FALSE
    /\ bounds' = Bookkeeping(next)
    /\ batches' = Digest(next)
    /\ failed' = FALSE

\* Preparing the text or drawing the pass failed: the commands recorded are
\* dropped and nothing is noted of the frame, but for what was stored before.
EncodeFrameFails ==
  \E next \in Arriving :
    /\ \/ NeedsFullRedraw(next) /\ pass' = "full"
       \/ ~NeedsFullRedraw(next) /\ Scissor(next) # {} /\ pass' = "scissored"
       \/ ~NeedsFullRedraw(next) /\ Scissor(next) = {} /\ next.uploads
          /\ pass' = "unscissored"
    /\ batches' = Digest(next)
    /\ failed' = TRUE
    /\ UNCHANGED << frame, texture, sticky, bounds, excused >>

\* update_viewport with another physical size: a new texture, of no contents.
UpdateViewport ==
  /\ texture' = [ c \in Cells |-> Undefined ]
  /\ sticky' = TRUE
  /\ UNCHANGED << frame, bounds, batches, pass, failed, excused >>

EncoderNext == EncodeFrame \/ EncodeFrameFails \/ UpdateViewport

EncoderSpec == EncoderInit /\ [][EncoderNext]_encoderVars

(***************************************************************************)
(* Properties.                                                             *)
(***************************************************************************)

\* Every variable has its type, and what is kept is kept for each position.
EncoderTypeOK ==
  /\ frame.pools \in Contents \cup {Empty.pools}
  /\ frame.carried \in BOOLEAN /\ frame.full \in BOOLEAN
  /\ frame.uploads \in BOOLEAN /\ sticky \in BOOLEAN
  /\ DOMAIN texture = Cells
  /\ \A p \in UsedPools : DOMAIN bounds[p] = DOMAIN frame.pools[p]
  /\ pass \in {"full", "scissored", "unscissored", "skipped"}
  /\ failed \in BOOLEAN
  /\ excused \subseteq Cells

\* Repainting one rectangle leaves the picture a full redraw would have left:
\* no primitive that moved, shrank, changed or went leaves anything behind.
\* A cell is out of date only for one of the reasons listed above Gaps, and
\* only until something repaints it; where primitives paint what is recorded
\* for them, in pools whose length is compared, there is no such cell.
OnlyKnownGapsAreStale ==
  ~sticky => \A c \in Cells \ excused : texture[c] = Inks(frame.pools, c)

\* encode_frame, "Nothing dirty: the inner pass is skipped entirely": a frame
\* equal to the one before it, with nothing restless in it, costs no draw.
\* (After an encode that failed it may: the digest kept is the failed one's.)
Quiet(f) ==
  /\ ~f.carried /\ ~f.full /\ ~f.uploads
  /\ \A p \in UsedPools \cap Restless : f.pools[p] = << >>

UnchangedFrameIsNotDrawn ==
  [][ (/\ ~sticky /\ ~sticky' /\ ~failed /\ ~failed'
       /\ frame'.pools = frame.pools /\ Quiet(frame'))
      => pass' = "skipped" ]_encoderVars

(***************************************************************************)
(* What the comments of the code say, and the code does not do.            *)
(***************************************************************************)

\* frame.rs, PaintDigest: an attribute "is covered the moment it changes a
\* pixel"; FillMesh::bounds: the box "the dirty-bounds union reads".  Whatever
\* changed, also a filled path or the fading of a container, is repainted.
EveryChangeIsRepainted ==
  ~sticky => \A c \in Cells : texture[c] = Inks(frame.pools, c)
===============================================================================
