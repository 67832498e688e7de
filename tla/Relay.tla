-------------------------------- MODULE Relay --------------------------------
(***************************************************************************)
(* The frame hand-off between the logic thread and the render thread       *)
(* (crates/byard-core/src/relay.rs, frame.rs, engine.rs).                  *)
(*                                                                         *)
(* The logic thread builds a frame, compares its primitives with those of  *)
(* the frame before (PaintDigest::apply) to say which are dirty, and       *)
(* publishes it in a single slot.  The slot is latest-wins: a slow render  *)
(* thread never sees most frames.  A publish that replaces a frame nobody  *)
(* drew therefore folds that frame's dirty bits, its full-redraw request   *)
(* and its layer writes into the new one (RenderFrame::merge_dirty_from).  *)
(*                                                                         *)
(* A publish is not atomic.  It is the steps the code performs one after   *)
(* the other while the render thread runs: stamp, read the watermark of    *)
(* rendered frames and merge, swap the slot, recycle the old buffer.       *)
(*                                                                         *)
(* When the host asks for a frame is left open, and it may never ask       *)
(* again: whether it does is the question of module LogicLoop.             *)
(***************************************************************************)
EXTENDS Naturals, Sequences

CONSTANTS
  Look,          (* What a primitive looks like: its resolved paint values. *)
  MaxPrims,      (* Most primitives in one frame's pool.                    *)
  MaxPublished,  (* Frames the logic thread computes: bounds the model.     *)
  Requests,      (* Full-redraw requests a frame may carry.                 *)
  Writes         (* Layer writes the views of one frame may issue.          *)

ASSUME RelayAssumption ==
  /\ MaxPrims \in Nat
  /\ MaxPublished \in Nat
  /\ Requests \subseteq BOOLEAN
  /\ Writes \subseteq Seq(Look)

VARIABLES
  logic,      (* Where the logic thread is in its tick.                     *)
  next,       (* The frame it is building: its own until it is swapped in.  *)
  digest,     (* PaintDigest: the looks of the last frame it built.         *)
  latest,     (* The slot both threads share.                               *)
  replaced,   (* The frame the swap took out, until it is recycled.         *)
  recycled,   (* The bounded pool of frames given back for reuse.           *)
  rendered,   (* Relay::rendered_version.                                   *)
  render,     (* Where the render thread is in Engine::render_latest.       *)
  held,       (* The frame it cloned out of the slot.                       *)
  screen,     (* The look retained on the GPU at each pool position.        *)
  layer,      (* The pixels retained in a package shader's texture layer.   *)
  shown,      (* History: version of the last frame drawn.                  *)
  history,    (* History: what each version's own evaluation asked for.     *)
  settled     (* History: newest version a publish saw as already rendered. *)

logicVars  == << logic, next, digest, replaced, recycled, history, settled >>
renderVars == << render, held, screen, layer, shown >>
vars == << logic, next, digest, latest, replaced, recycled, rendered,
           render, held, screen, layer, shown, history, settled >>

RECYCLE_POOL_SIZE == 2

Pools == UNION { [1..n -> Look] : n \in 0..MaxPrims }
Flags == UNION { [1..n -> BOOLEAN] : n \in 0..MaxPrims }

Frames ==
  [ version : Nat, pool : Pools, dirty : Flags, full : BOOLEAN,
    layers : Seq(Look) ]

(* A cleared frame; version 0 in the slot or in a hand stands for "none",   *)
(* since a published frame is stamped from 1.                               *)
NoFrame ==
  [ version |-> 0, pool |-> << >>, dirty |-> << >>, full |-> FALSE,
    layers |-> << >> ]

(* Never the look of a primitive: what a position holds that nobody drew.   *)
Undrawn == "undrawn"

(***************************************************************************)
(* Operators on frames.  An operator named Faulty... is used by no action: *)
(* it is a plausible mistake in the operator after it, kept to show that   *)
(* the properties below would notice it.                                   *)
(***************************************************************************)

\* PaintDigest::apply: a primitive is dirty when its hash differs from the
\* one retained at its position, where a position that did not exist holds 0.
Compare(pool, before) ==
  [ i \in DOMAIN pool |-> i \notin DOMAIN before \/ before[i] # pool[i] ]

\* Fault: the flags become as many as the older frame's.
FaultyFlagsLength(current, previous) ==
  [ i \in DOMAIN previous |-> previous[i] \/ (i \in DOMAIN current /\ current[i]) ]

\* Fault: the older frame's flags are forgotten.
FaultyFlagsDropped(current, previous) == current

\* merge_flags: position by position, or everything when the lengths differ.
MergeFlags(current, previous) ==
  [ i \in DOMAIN current |->
      DOMAIN current = DOMAIN previous => current[i] \/ previous[i] ]

\* Fault: the older layer writes land after the newer ones.
FaultyMergeOrder(frame, previous) ==
  [ frame EXCEPT !.full   = @ \/ previous.full,
                 !.layers = @ \o previous.layers,
                 !.dirty  = MergeFlags(@, previous.dirty) ]

\* RenderFrame::merge_dirty_from.
MergeDirtyFrom(frame, previous) ==
  [ frame EXCEPT !.full   = @ \/ previous.full,
                 !.layers = previous.layers \o @,
                 !.dirty  = MergeFlags(@, previous.dirty) ]

\* The encoder repaints what is dirty and keeps the rest as it was drawn.
\* (Which pixels that covers is the subject of module Encoder.)
Repaint(frame, before) ==
  [ i \in DOMAIN frame.pool |->
      IF frame.full \/ frame.dirty[i] THEN frame.pool[i]
      ELSE IF i \in DOMAIN before THEN before[i] ELSE Undrawn ]

\* The layer writes of a frame, applied in order.
Upload(frame, before) ==
  IF frame.layers = << >> THEN before ELSE frame.layers[Len(frame.layers)]

(***************************************************************************)
(* The logic thread: one tick of Relay::spawn_logic_from_view.             *)
(***************************************************************************)

Init ==
  /\ logic = "evaluate" /\ next = NoFrame /\ digest = << >>
  /\ latest = NoFrame /\ replaced = NoFrame
  /\ recycled = << NoFrame, NoFrame >>
  /\ rendered = 0
  /\ render = "idle" /\ held = NoFrame
  /\ screen = << >> /\ layer = Undrawn /\ shown = 0
  /\ history = << >> /\ settled = 0

\* acquire_recycled's frame, from the pool or allocated: cleared either way.
Clear(frame) == NoFrame

\* Take a buffer, evaluate the tree into it, mark what changed and stamp it.
\* `reset` is PaintDigest::reset, which a reload calls before the render.
Evaluate ==
  /\ logic = "evaluate"
  /\ Len(history) < MaxPublished
  /\ \E pool \in Pools, full \in Requests, layers \in Writes, reset \in BOOLEAN :
       LET buffer == IF recycled = << >> THEN NoFrame ELSE Clear(Head(recycled))
           dirty  == Compare(pool, IF reset THEN << >> ELSE digest)
       IN
       /\ next' = [ version |-> Len(history) + 1,
                    pool    |-> pool,
                    dirty   |-> dirty,
                    full    |-> buffer.full \/ full,
                    layers  |-> buffer.layers \o layers ]
       /\ history' = Append(history,
           [ pool |-> pool, dirty |-> dirty, full |-> full, layers |-> layers ])
       /\ digest' = pool
  /\ recycled' = IF recycled = << >> THEN << >> ELSE Tail(recycled)
  /\ logic' = "carry"
  /\ UNCHANGED << latest, replaced, rendered, settled >> /\ UNCHANGED renderVars

\* publish: compare the slot's version with the watermark.  Both are read with
\* Ordering::Relaxed, so the watermark seen may be one the render thread has
\* already advanced past.
CarryForward ==
  /\ logic = "carry"
  /\ \E seen \in 0..rendered :
       LET owed == latest.version # 0 /\ latest.version # seen
       IN
       /\ next' = IF owed THEN MergeDirtyFrom(next, latest) ELSE next
       /\ settled' = IF owed THEN settled ELSE latest.version
  /\ logic' = "swap"
  /\ UNCHANGED << digest, latest, replaced, recycled, rendered, history >>
  /\ UNCHANGED renderVars

\* publish: the atomic exchange.
Swap ==
  /\ logic = "swap"
  /\ latest' = next
  /\ replaced' = latest
  /\ next' = NoFrame
  /\ logic' = "recycle"
  /\ UNCHANGED << digest, recycled, rendered, history, settled >>
  /\ UNCHANGED renderVars

\* publish: Arc::try_unwrap gives the buffer back unless a reader holds it;
\* try_send drops it when the pool is full.
Recycle ==
  /\ logic = "recycle"
  /\ recycled' =
       IF /\ replaced.version # 0
          /\ held.version # replaced.version
          /\ Len(recycled) < RECYCLE_POOL_SIZE
       THEN Append(recycled, replaced) ELSE recycled
  /\ replaced' = NoFrame
  /\ logic' = "evaluate"
  /\ UNCHANGED << next, digest, latest, rendered, history, settled >>
  /\ UNCHANGED renderVars

(***************************************************************************)
(* The render thread: Engine::render_latest.                               *)
(***************************************************************************)

\* Relay::current: nothing to draw before the first publish.
Fetch ==
  /\ render = "idle" /\ latest.version # 0
  /\ held' = latest
  /\ render' = "fetched"
  /\ UNCHANGED << latest, rendered, screen, layer, shown >>
  /\ UNCHANGED logicVars

\* The surface was lost, outdated, occluded, timed out or invalid: the frame
\* is let go without being drawn or marked.
Abandon ==
  /\ render = "fetched"
  /\ held' = NoFrame
  /\ render' = "idle"
  /\ UNCHANGED << latest, rendered, screen, layer, shown >>
  /\ UNCHANGED logicVars

\* encode_frame_from_relay fails after its layer writes: the texture has them,
\* the screen does not have the frame, and the frame is not marked.
EncodeFails ==
  /\ render = "fetched"
  /\ layer' = Upload(held, layer)
  /\ held' = NoFrame
  /\ render' = "idle"
  /\ UNCHANGED << latest, rendered, screen, shown >>
  /\ UNCHANGED logicVars

\* encode_frame_from_relay and submit.
Encode ==
  /\ render = "fetched"
  /\ screen' = Repaint(held, screen)
  /\ layer' = Upload(held, layer)
  /\ shown' = held.version
  /\ render' = "encoded"
  /\ UNCHANGED << latest, rendered, held >> /\ UNCHANGED logicVars

\* Relay::mark_rendered (fetch_max), then present.
MarkRendered ==
  /\ render = "encoded"
  /\ rendered' = IF held.version > rendered THEN held.version ELSE rendered
  /\ held' = NoFrame
  /\ render' = "idle"
  /\ UNCHANGED << latest, screen, layer, shown >> /\ UNCHANGED logicVars

Next ==
  \/ Evaluate \/ CarryForward \/ Swap \/ Recycle
  \/ Fetch \/ Abandon \/ EncodeFails \/ Encode \/ MarkRendered

Spec == Init /\ [][Next]_vars

(***************************************************************************)
(* Properties.                                                             *)
(***************************************************************************)

Asked == [ pool : Pools, dirty : Flags, full : BOOLEAN, layers : Seq(Look) ]

WellFormed(f) ==
  /\ f \in Frames
  /\ DOMAIN f.dirty = DOMAIN f.pool

\* Every variable has its type; a frame's flags are as long as its pool.
TypeOK ==
  /\ logic \in {"evaluate", "carry", "swap", "recycle"}
  /\ render \in {"idle", "fetched", "encoded"}
  /\ WellFormed(next) /\ WellFormed(latest)
  /\ WellFormed(replaced) /\ WellFormed(held)
  /\ digest \in Pools
  /\ recycled \in Seq(Frames) /\ Len(recycled) <= RECYCLE_POOL_SIZE
  /\ rendered \in Nat /\ shown \in Nat /\ settled \in Nat
  /\ DOMAIN screen \in { 1..n : n \in 0..MaxPrims }
  /\ layer \in Look \cup {Undrawn}
  /\ history \in Seq(Asked)

\* The picture on the GPU is, at every position, the one the view computed
\* for the frame last drawn, however many frames were skipped, abandoned or
\* drawn twice on the way: no dirty bit is ever lost (encoder/mod.rs,
\* "Skipped frames").
ScreenShowsItsFrame == shown # 0 => screen = history[shown].pool

\* A full redraw some frame asked for is still asked for by the frame that
\* will be drawn, until one that old has been drawn (RFC-0006 overlays).
Owes(frame) ==
  (\E v \in (shown + 1)..frame.version : history[v].full) => frame.full

NoLostFullRedraw == Owes(latest) /\ (render = "fetched" => Owes(held))

\* After a draw the layer holds the last write issued up to that frame, so a
\* write carried over from a skipped frame never overtakes a newer one.
Writers(v) == { w \in 1..v : history[w].layers # << >> }

Newest(versions) == CHOOSE w \in versions : \A u \in versions : u <= w

LayerAt(v) ==
  IF Writers(v) = {} THEN Undrawn
  ELSE LET w == Newest(Writers(v)) IN history[w].layers[Len(history[w].layers)]

LayerShowsLastWrite == render = "encoded" => layer = LayerAt(shown)

\* Carrying forward is not redrawing everything for ever: what a published
\* frame asks the encoder to redo was asked for by a version newer than the
\* last one a publish saw rendered, or the pool changed length since.
OnlyOwedIsCarried ==
  LET since == (settled + 1)..latest.version
  IN  logic # "swap" =>
        /\ latest.full => \E v \in since : history[v].full
        /\ \A i \in DOMAIN latest.pool : latest.dirty[i] =>
             \/ \E v \in since : /\ i \in DOMAIN history[v].pool
                                 /\ history[v].dirty[i]
             \/ \E v, w \in since :
                   DOMAIN history[v].pool # DOMAIN history[w].pool

\* What a frame asks for once is done, though nobody draws that frame, and is
\* asked for only until it is done.
CarriesWhatIsOwed == NoLostFullRedraw /\ LayerShowsLastWrite /\ OnlyOwedIsCarried

\* The hand-off implements Display: the screen only ever shows a whole
\* published picture, and never goes back to an older one.
D == INSTANCE Display WITH
       Picture   <- Pools,
       published <- [ v \in 1..latest.version |-> history[v].pool ],
       visible   <- shown,
       picture   <- screen

ImplementsDisplay == D!Spec

(***************************************************************************)
(* Why no dirty bit is lost: the inductive invariant behind                *)
(* ScreenShowsItsFrame, proved in FrameProofs.                             *)
(***************************************************************************)

Building == logic \in {"carry", "swap"}
Drawing  == render # "idle"

\* Versions are handed out in order and never claimed before they are drawn.
Versions ==
  /\ Len(history) = IF Building THEN latest.version + 1 ELSE latest.version
  /\ Building => next.version = Len(history)
  /\ rendered <= shown /\ shown <= latest.version
  /\ Drawing => /\ 1 <= held.version /\ shown <= held.version
                /\ held.version <= latest.version
  /\ render = "encoded" => shown = held.version

\* A frame in anybody's hand is the picture its version was evaluated to.
Pictures ==
  /\ history = << >> => digest = << >>
  /\ history # << >> => digest = history[Len(history)].pool
  /\ latest.version = 0 => latest.pool = << >>
  /\ latest.version # 0 => latest.pool = history[latest.version].pool
  /\ Drawing => held.pool = history[held.version].pool
  /\ Building => next.pool = history[next.version].pool
  /\ shown = 0 => screen = << >>
  /\ ScreenShowsItsFrame

\* Drawing frame f over picture s repaints every position where they differ.
Covers(f, s) ==
  \A i \in DOMAIN f.pool :
    (i \notin DOMAIN s \/ s[i] # f.pool[i]) => f.dirty[i]

Coverage ==
  /\ Covers(latest, screen)
  /\ Drawing => Covers(latest, held.pool) /\ Covers(held, screen)
  /\ Building => Covers(next, latest.pool)
  /\ logic = "swap" => /\ Covers(next, screen)
                       /\ Drawing => Covers(next, held.pool)

Handoff == TypeOK /\ Versions /\ Pictures /\ Coverage
===============================================================================
