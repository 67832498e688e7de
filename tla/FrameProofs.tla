----------------------------- MODULE FrameProofs -----------------------------
(***************************************************************************)
(* Proofs about the way of a frame to the screen.  First the hand-off, for *)
(* every set of looks, every pool size, every number of published frames   *)
(* and every set of requests and layer writes; then, from "What a frame    *)
(* repaints" on, the encoder, for every screen, every set of contents and  *)
(* every set of opaque looks.  Relay has which flags reach the encoder,    *)
(* Encoder what they do; they share no variable.                           *)
(***************************************************************************)
EXTENDS Relay, Encoder, WellFoundedInduction, TLAPS

(***************************************************************************)
(* Lemmas about the operators on frames.                                   *)
(***************************************************************************)

\* The flags PaintDigest computes against a picture cover that picture.
LEMMA CompareCovers ==
  ASSUME NEW f, NEW before, f.dirty = Compare(f.pool, before)
  PROVE  Covers(f, before)
BY DEF Compare, Covers

\* Comparing with nothing, as after PaintDigest::reset, covers any picture.
LEMMA ResetCovers ==
  ASSUME NEW f, NEW s, f.dirty = Compare(f.pool, << >>)
  PROVE  Covers(f, s)
<1>1. \A i : i \notin DOMAIN << >>
  OBVIOUS
<1> QED  BY <1>1 DEF Compare, Covers

\* The flags of a pool are as long as the pool.
LEMMA CompareWellFormed ==
  ASSUME NEW pool \in Pools, NEW before
  PROVE  /\ Compare(pool, before) \in Flags
         /\ DOMAIN Compare(pool, before) = DOMAIN pool
BY DEF Compare, Pools, Flags

\* Merging keeps the flags of the new frame well formed.
LEMMA MergeWellFormed ==
  ASSUME NEW f, NEW g, WellFormed(f), WellFormed(g)
  PROVE  /\ WellFormed(MergeDirtyFrom(f, g))
         /\ MergeDirtyFrom(f, g).version = f.version
         /\ MergeDirtyFrom(f, g).pool = f.pool
         /\ MergeDirtyFrom(f, g).dirty = MergeFlags(f.dirty, g.dirty)
<1>1. /\ MergeFlags(f.dirty, g.dirty) \in Flags
      /\ DOMAIN MergeFlags(f.dirty, g.dirty) = DOMAIN f.dirty
  <2>1. PICK n \in 0..MaxPrims : f.dirty \in [1..n -> BOOLEAN]
    BY DEF WellFormed, Frames, Flags
  <2>2. \A i \in DOMAIN f.dirty : DOMAIN f.dirty = DOMAIN g.dirty => g.dirty[i] \in BOOLEAN
    BY DEF WellFormed, Frames, Flags
  <2>3. MergeFlags(f.dirty, g.dirty) \in [1..n -> BOOLEAN]
    BY <2>1, <2>2 DEF MergeFlags
  <2> QED  BY <2>1, <2>3 DEF Flags
<1>2. g.layers \o f.layers \in Seq(Look)
  BY DEF WellFormed, Frames
<1> QED  BY <1>1, <1>2 DEF MergeDirtyFrom, WellFormed, Frames

\* If f covers the frame g it replaces and g covers a picture, then f with
\* g's flags folded in covers that picture: dirtiness composes.
LEMMA MergeCovers ==
  ASSUME NEW f, NEW g, NEW s, WellFormed(f), WellFormed(g),
         Covers(f, g.pool), Covers(g, s)
  PROVE  Covers(MergeDirtyFrom(f, g), s)
<1> DEFINE h == MergeDirtyFrom(f, g)
<1>1. /\ h.pool = f.pool
      /\ h.dirty = MergeFlags(f.dirty, g.dirty)
  BY MergeWellFormed
<1>2. /\ DOMAIN f.dirty = DOMAIN f.pool
      /\ DOMAIN g.dirty = DOMAIN g.pool
  BY DEF WellFormed
<1>3. SUFFICES ASSUME NEW i \in DOMAIN f.pool, i \notin DOMAIN s \/ s[i] # f.pool[i]
               PROVE  MergeFlags(f.dirty, g.dirty)[i]
  BY <1>1 DEF Covers
<1>4. CASE DOMAIN f.dirty # DOMAIN g.dirty
  BY <1>2, <1>3, <1>4 DEF MergeFlags
<1>5. CASE DOMAIN f.dirty = DOMAIN g.dirty
  <2>1. f.dirty[i] \/ g.dirty[i]
    BY <1>2, <1>3, <1>5 DEF Covers
  <2> QED  BY <1>2, <1>3, <1>5, <2>1 DEF MergeFlags
<1> QED  BY <1>4, <1>5

\* Repainting what is dirty, over a picture the frame covers, draws exactly
\* the frame.
LEMMA RepaintExact ==
  ASSUME NEW f, NEW s, WellFormed(f), Covers(f, s)
  PROVE  Repaint(f, s) = f.pool
<1>1. PICK n \in 0..MaxPrims : f.pool \in [1..n -> Look]
  BY DEF WellFormed, Frames, Pools
<1>2. \A i \in DOMAIN f.pool : Repaint(f, s)[i] = f.pool[i]
  BY DEF Repaint, Covers
<1>3. /\ DOMAIN Repaint(f, s) = DOMAIN f.pool
      /\ Repaint(f, s) = [ i \in DOMAIN f.pool |-> Repaint(f, s)[i] ]
  BY DEF Repaint
<1> QED  BY <1>1, <1>2, <1>3

\* A cleared frame is well formed and covers nothing but the empty pool.
LEMMA NoFrameFacts ==
  /\ WellFormed(NoFrame)
  /\ NoFrame.version = 0 /\ NoFrame.pool = << >>
  /\ << >> \in Pools
  /\ \A s : Covers(NoFrame, s)
<1>1. << >> \in [1..0 -> Look] /\ << >> \in [1..0 -> BOOLEAN] /\ DOMAIN << >> = {}
  OBVIOUS
<1>2. 0 \in 0..MaxPrims
  BY RelayAssumption
<1>3. << >> \in Pools /\ << >> \in Flags
  BY <1>1, <1>2 DEF Pools, Flags
<1>4. << >> \in Seq(Look)
  OBVIOUS
<1> QED  BY <1>1, <1>3, <1>4 DEF WellFormed, NoFrame, Frames, Covers

(***************************************************************************)
(* Type correctness.                                                       *)
(***************************************************************************)

\* The looks of a frame are bounded by MaxPrims positions.
LEMMA PoolDomains ==
  ASSUME NEW pool \in Pools
  PROVE  DOMAIN pool \in { 1..n : n \in 0..MaxPrims }
BY DEF Pools

LEMMA InitType == Init => TypeOK
<1> SUFFICES ASSUME Init PROVE TypeOK
  OBVIOUS
<1>1. DOMAIN screen \in { 1..n : n \in 0..MaxPrims }
  BY NoFrameFacts, PoolDomains DEF Init
<1>2. recycled \in Seq(Frames) /\ Len(recycled) <= RECYCLE_POOL_SIZE
  <2>1. NoFrame \in Frames
    BY NoFrameFacts DEF WellFormed
  <2>2. recycled = << NoFrame, NoFrame >>
    BY DEF Init
  <2>3. << NoFrame, NoFrame >> \in Seq(Frames) /\ Len(<< NoFrame, NoFrame >>) = 2
    BY <2>1
  <2> QED  BY <2>2, <2>3 DEF RECYCLE_POOL_SIZE
<1> QED  BY <1>1, <1>2, NoFrameFacts DEF Init, TypeOK

LEMMA NextType == TypeOK /\ [Next]_vars => TypeOK'
<1> SUFFICES ASSUME TypeOK, [Next]_vars PROVE TypeOK'
  OBVIOUS
<1> USE NoFrameFacts
<1>1. CASE Evaluate
  <2>1. PICK pool \in Pools, full \in Requests, layers \in Writes, reset \in BOOLEAN :
          LET dirty == Compare(pool, IF reset THEN << >> ELSE digest)
          IN  /\ next' = [ version |-> Len(history) + 1, pool |-> pool,
                           dirty |-> dirty, full |-> FALSE \/ full,
                           layers |-> << >> \o layers ]
              /\ history' = Append(history,
                   [ pool |-> pool, dirty |-> dirty, full |-> full,
                     layers |-> layers ])
              /\ digest' = pool
    BY <1>1 DEF Evaluate, Clear, NoFrame
  <2> DEFINE dirty == Compare(pool, IF reset THEN << >> ELSE digest)
  <2>2. dirty \in Flags /\ DOMAIN dirty = DOMAIN pool
    BY CompareWellFormed
  <2>3. full \in BOOLEAN /\ layers \in Seq(Look) /\ << >> \o layers \in Seq(Look)
    BY RelayAssumption
  <2>4. Len(history) + 1 \in Nat
    BY DEF TypeOK
  <2> HIDE DEF dirty
  <2>5. WellFormed(next')
    <3>1. next' = [ version |-> Len(history) + 1, pool |-> pool, dirty |-> dirty,
                    full |-> full, layers |-> << >> \o layers ]
      BY <2>1, <2>3 DEF dirty
    <3> QED  BY <3>1, <2>2, <2>3, <2>4 DEF WellFormed, Frames
  <2>6. history' \in Seq(Asked)
    <3>1. [ pool |-> pool, dirty |-> dirty, full |-> full, layers |-> layers ]
            \in Asked
      BY <2>2, <2>3 DEF Asked
    <3> QED  BY <2>1, <3>1 DEF TypeOK, dirty
  <2>7. recycled' \in Seq(Frames) /\ Len(recycled') <= RECYCLE_POOL_SIZE
    BY <1>1 DEF Evaluate, TypeOK, RECYCLE_POOL_SIZE
  <2> QED  BY <1>1, <2>1, <2>5, <2>6, <2>7 DEF Evaluate, renderVars, TypeOK
<1>2. CASE CarryForward
  <2>1. WellFormed(next')
    BY <1>2, MergeWellFormed DEF CarryForward, TypeOK
  <2>2. settled' \in Nat
    BY <1>2 DEF CarryForward, TypeOK, WellFormed, Frames
  <2> QED  BY <1>2, <2>1, <2>2 DEF CarryForward, renderVars, TypeOK
<1>3. CASE Swap
  BY <1>3 DEF Swap, renderVars, TypeOK
<1>4. CASE Recycle
  <2>1. replaced \in Frames
    BY DEF TypeOK, WellFormed
  <2>2. recycled' \in Seq(Frames) /\ Len(recycled') <= RECYCLE_POOL_SIZE
    BY <1>4, <2>1 DEF Recycle, TypeOK, RECYCLE_POOL_SIZE
  <2> QED  BY <1>4, <2>2 DEF Recycle, renderVars, TypeOK
<1>5. CASE Fetch
  BY <1>5 DEF Fetch, logicVars, TypeOK
<1>6. CASE Abandon
  BY <1>6 DEF Abandon, logicVars, TypeOK
<1>7. ASSUME NEW before \in Look \cup {Undrawn}
      PROVE  Upload(held, before) \in Look \cup {Undrawn}
  BY DEF Upload, TypeOK, WellFormed, Frames
<1>8. CASE EncodeFails
  BY <1>7, <1>8 DEF EncodeFails, logicVars, TypeOK
<1>9. CASE Encode
  <2>1. DOMAIN screen' \in { 1..n : n \in 0..MaxPrims }
    <3>1. DOMAIN screen' = DOMAIN held.pool
      BY <1>9 DEF Encode, Repaint
    <3> QED  BY <3>1, PoolDomains DEF TypeOK, WellFormed, Frames
  <2>2. shown' \in Nat
    BY <1>9 DEF Encode, TypeOK, WellFormed, Frames
  <2> QED  BY <1>7, <1>9, <2>1, <2>2 DEF Encode, logicVars, TypeOK
<1>10. CASE MarkRendered
  <2>1. rendered' \in Nat
    BY <1>10 DEF MarkRendered, TypeOK, WellFormed, Frames
  <2> QED  BY <1>10, <2>1 DEF MarkRendered, logicVars, TypeOK
<1>11. CASE UNCHANGED vars
  BY <1>11 DEF vars, TypeOK
<1> QED
  BY <1>1, <1>2, <1>3, <1>4, <1>5, <1>6, <1>8, <1>9, <1>10, <1>11 DEF Next

\* Every variable of the hand-off keeps its type, and every frame in it has
\* exactly one dirty flag per primitive.
THEOREM TypeCorrect == Spec => []TypeOK
BY InitType, NextType, PTL DEF Spec

(***************************************************************************)
(* No dirty bit is lost.                                                   *)
(***************************************************************************)

LEMMA InitHandoff == Init => Handoff
<1> SUFFICES ASSUME Init PROVE Handoff
  OBVIOUS
<1> USE NoFrameFacts
<1>1. TypeOK
  BY InitType
<1>2. Versions
  BY DEF Init, Versions, Building, Drawing
<1>3. Pictures
  BY DEF Init, Pictures, Building, Drawing, ScreenShowsItsFrame
<1>4. Coverage
  BY DEF Init, Coverage, Building, Drawing
<1> QED  BY <1>1, <1>2, <1>3, <1>4 DEF Handoff

\* The logic thread appends a version to the history; what is already there
\* stays.
LEMMA EvaluateKeepsHandoff == Handoff /\ TypeOK' /\ Evaluate => Handoff'
<1> SUFFICES ASSUME Handoff, TypeOK', Evaluate PROVE Handoff'
  OBVIOUS
<1> USE DEF Handoff
<1>1. PICK pool \in Pools, full \in Requests, layers \in Writes, reset \in BOOLEAN :
        LET buffer == IF recycled = << >> THEN NoFrame ELSE Clear(Head(recycled))
            dirty  == Compare(pool, IF reset THEN << >> ELSE digest)
        IN  /\ next' = [ version |-> Len(history) + 1, pool |-> pool,
                         dirty |-> dirty, full |-> buffer.full \/ full,
                         layers |-> buffer.layers \o layers ]
            /\ history' = Append(history,
                 [ pool |-> pool, dirty |-> dirty, full |-> full,
                   layers |-> layers ])
            /\ digest' = pool
  BY DEF Evaluate
<1>2. /\ logic = "evaluate" /\ logic' = "carry"
      /\ UNCHANGED << latest, rendered, render, held, screen, shown >>
  BY DEF Evaluate, renderVars
<1>3. /\ next'.version = Len(history) + 1 /\ next'.pool = pool
      /\ next'.dirty = Compare(pool, IF reset THEN << >> ELSE digest)
      /\ digest' = pool
  BY <1>1
<1>4. /\ Len(history) \in Nat /\ Len(history') = Len(history) + 1
      /\ history' # << >>
      /\ history'[Len(history) + 1].pool = pool
      /\ \A v \in 1..Len(history) : history'[v] = history[v]
  BY <1>1 DEF TypeOK
<1>5. Len(history) = latest.version
  BY <1>2 DEF Versions, Building
<1>6. /\ latest.version \in Nat /\ held.version \in Nat
      /\ shown \in Nat /\ rendered \in Nat
  BY DEF TypeOK, WellFormed, Frames
<1>7. Versions'
  BY <1>2, <1>3, <1>4, <1>5, <1>6 DEF Versions, Building, Drawing
<1>8. Pictures'
  <2>1. latest.version # 0 => history'[latest.version] = history[latest.version]
    BY <1>4, <1>5, <1>6
  <2>2. Drawing => history'[held.version] = history[held.version]
    BY <1>4, <1>5, <1>6 DEF Versions
  <2>3. shown # 0 => history'[shown] = history[shown]
    BY <1>4, <1>5, <1>6 DEF Versions
  <2>4. Drawing' = Drawing
    BY <1>2 DEF Drawing
  <2>5. next'.pool = history'[next'.version].pool
    BY <1>3, <1>4
  <2> QED
    BY <1>2, <1>3, <1>4, <2>1, <2>2, <2>3, <2>4, <2>5
    DEF Pictures, ScreenShowsItsFrame
<1>9. Coverage'
  <2>1. Covers(next', latest.pool)
    <3>1. CASE reset
      BY <1>3, <3>1, ResetCovers
    <3>2. CASE ~reset
      <4>1. digest = latest.pool
        BY <1>4, <1>5, <1>6 DEF Pictures, TypeOK
      <4> QED  BY <1>3, <3>2, <4>1, CompareCovers
    <3> QED  BY <3>1, <3>2
  <2> QED  BY <1>2, <2>1 DEF Coverage, Building, Drawing, Covers
<1> QED  BY <1>7, <1>8, <1>9

\* The publish decides whether to fold the replaced frame in.  When it does
\* not, that frame is the one on the screen and in the render thread's hand.
LEMMA CarryKeepsHandoff == Handoff /\ TypeOK' /\ CarryForward => Handoff'
<1> SUFFICES ASSUME Handoff, TypeOK', CarryForward PROVE Handoff'
  OBVIOUS
<1> USE DEF Handoff
<1>1. PICK seen \in 0..rendered :
        next' = IF latest.version # 0 /\ latest.version # seen
                THEN MergeDirtyFrom(next, latest) ELSE next
  BY DEF CarryForward
<1>2. /\ logic = "carry" /\ logic' = "swap"
      /\ UNCHANGED << digest, latest, rendered, render, held, screen, shown,
                      history >>
  BY DEF CarryForward, renderVars
<1>3. WellFormed(next) /\ WellFormed(latest) /\ WellFormed(held)
  BY DEF TypeOK
<1>4. next'.version = next.version /\ next'.pool = next.pool
  BY <1>1, <1>3, MergeWellFormed
<1>5. /\ latest.version \in Nat /\ held.version \in Nat
      /\ shown \in Nat /\ rendered \in Nat
  BY DEF TypeOK, WellFormed, Frames
<1>6. Versions'
  BY <1>2, <1>4 DEF Versions, Building, Drawing
<1>7. Pictures'
  BY <1>2, <1>4 DEF Pictures, Building, Drawing, ScreenShowsItsFrame
<1>8. Covers(next, latest.pool)
  BY <1>2 DEF Coverage, Building
<1>9. Coverage'
  <2>1. CASE latest.version # 0 /\ latest.version # seen
    <3>1. next' = MergeDirtyFrom(next, latest)
      BY <1>1, <2>1
    <3>2. Covers(latest, screen)
      BY DEF Coverage
    <3>3. Covers(next', screen)
      BY <1>3, <1>8, <3>1, <3>2, MergeCovers
    <3>4. ASSUME Drawing PROVE Covers(next', held.pool)
      BY <1>3, <1>8, <3>1, <3>4, MergeCovers DEF Coverage
    <3>5. Covers(latest, latest.pool)
      BY DEF Covers
    <3>6. Covers(next', latest.pool)
      BY <1>3, <1>8, <3>1, <3>5, MergeCovers
    <3> QED
      BY <1>2, <3>2, <3>3, <3>4, <3>6 DEF Coverage, Building, Drawing, Covers
  <2>2. CASE latest.version = 0
    <3>1. shown = 0 /\ ~Drawing
      BY <1>5, <2>2 DEF Versions
    <3>2. next' = next /\ latest.pool = screen
      BY <1>1, <2>2, <3>1 DEF Pictures
    <3> QED
      BY <1>2, <1>8, <3>1, <3>2 DEF Coverage, Building, Drawing
  <2>3. CASE latest.version # 0 /\ latest.version = seen
    <3>1. next' = next
      BY <1>1, <2>3
    <3>2. shown = latest.version /\ shown # 0
      BY <1>5, <2>3 DEF Versions
    <3>3. screen = latest.pool
      BY <3>2 DEF Pictures, ScreenShowsItsFrame
    <3>4. ASSUME Drawing PROVE held.pool = latest.pool
      <4>1. held.version = latest.version
        BY <1>5, <3>2, <3>4 DEF Versions
      <4> QED  BY <3>2, <3>4, <4>1 DEF Pictures
    <3>5. Covers(next', screen) /\ (Drawing => Covers(next', held.pool))
      BY <1>8, <3>1, <3>3, <3>4
    <3> QED
      BY <1>2, <1>8, <3>1, <3>5 DEF Coverage, Building, Drawing, Covers
  <2> QED  BY <2>1, <2>2, <2>3
<1> QED  BY <1>6, <1>7, <1>9

\* The exchange makes the frame built the frame both threads see.
LEMMA SwapKeepsHandoff == Handoff /\ TypeOK' /\ Swap => Handoff'
<1> SUFFICES ASSUME Handoff, TypeOK', Swap PROVE Handoff'
  OBVIOUS
<1> USE DEF Handoff
<1>1. /\ logic = "swap" /\ logic' = "recycle" /\ latest' = next
      /\ UNCHANGED << digest, rendered, render, held, screen, shown, history >>
  BY DEF Swap, renderVars
<1>2. /\ latest.version \in Nat /\ held.version \in Nat
      /\ shown \in Nat /\ rendered \in Nat
  BY DEF TypeOK, WellFormed, Frames
<1>3. next.version = latest.version + 1 /\ Len(history) = next.version
  BY <1>1 DEF Versions, Building
<1>4. Versions'
  BY <1>1, <1>2, <1>3 DEF Versions, Building, Drawing
<1>5. Pictures'
  BY <1>1, <1>2, <1>3 DEF Pictures, Building, Drawing, ScreenShowsItsFrame
<1>6. Coverage'
  BY <1>1 DEF Coverage, Building, Drawing, Covers
<1> QED  BY <1>4, <1>5, <1>6

\* The render thread draws what it holds, which covers what is on the screen.
LEMMA EncodeKeepsHandoff == Handoff /\ TypeOK' /\ Encode => Handoff'
<1> SUFFICES ASSUME Handoff, TypeOK', Encode PROVE Handoff'
  OBVIOUS
<1> USE DEF Handoff
<1>1. /\ render = "fetched" /\ render' = "encoded"
      /\ screen' = Repaint(held, screen) /\ shown' = held.version
      /\ UNCHANGED << logic, next, digest, latest, rendered, held, history >>
  BY DEF Encode, logicVars
<1>2. Drawing /\ Drawing'
  BY <1>1 DEF Drawing
<1>3. WellFormed(held) /\ Covers(held, screen)
  BY <1>2 DEF TypeOK, Coverage
<1>4. screen' = held.pool
  BY <1>1, <1>3, RepaintExact
<1>5. /\ latest.version \in Nat /\ held.version \in Nat
      /\ shown \in Nat /\ rendered \in Nat
  BY DEF TypeOK, WellFormed, Frames
<1>6. Versions'
  BY <1>1, <1>2, <1>5 DEF Versions, Building
<1>7. Pictures'
  BY <1>1, <1>2, <1>4, <1>5
  DEF Pictures, Versions, Building, ScreenShowsItsFrame
<1>8. Covers(held, held.pool)
  BY DEF Covers
<1>9. Coverage'
  BY <1>1, <1>2, <1>4, <1>8 DEF Coverage, Building, Covers
<1> QED  BY <1>6, <1>7, <1>9

LEMMA NextHandoff == Handoff /\ [Next]_vars => Handoff'
<1> SUFFICES ASSUME Handoff, [Next]_vars PROVE Handoff'
  OBVIOUS
<1>1. TypeOK'
  BY NextType DEF Handoff
<1>2. CASE Evaluate
  BY <1>1, <1>2, EvaluateKeepsHandoff
<1>3. CASE CarryForward
  BY <1>1, <1>3, CarryKeepsHandoff
<1>4. CASE Swap
  BY <1>1, <1>4, SwapKeepsHandoff
<1>5. CASE Recycle
  BY <1>1, <1>5 DEF Handoff, Recycle, renderVars, Versions, Pictures, Coverage,
       Building, Drawing, Covers, ScreenShowsItsFrame
<1>6. CASE Fetch
  <2>1. /\ render = "idle" /\ render' = "fetched" /\ held' = latest
        /\ latest.version # 0
        /\ UNCHANGED << logic, next, digest, latest, rendered, screen, shown,
                        history >>
    BY <1>6 DEF Fetch, logicVars
  <2>2. latest.version \in Nat
    BY DEF Handoff, TypeOK, WellFormed, Frames
  <2>3. Versions'
    BY <2>1, <2>2 DEF Handoff, Versions, Building, Drawing
  <2>4. Pictures'
    BY <2>1 DEF Handoff, Pictures, Building, Drawing, ScreenShowsItsFrame
  <2>5. Coverage'
    BY <2>1 DEF Handoff, Coverage, Building, Drawing, Covers
  <2> QED  BY <1>1, <2>3, <2>4, <2>5 DEF Handoff
<1>7. CASE Abandon \/ EncodeFails
  <2>1. /\ render' = "idle"
        /\ UNCHANGED << logic, next, digest, latest, rendered, screen, shown,
                        history >>
    BY <1>7 DEF Abandon, EncodeFails, logicVars
  <2> QED
    BY <1>1, <2>1 DEF Handoff, Versions, Pictures, Coverage, Building, Drawing,
         Covers, ScreenShowsItsFrame
<1>8. CASE Encode
  BY <1>1, <1>8, EncodeKeepsHandoff
<1>9. CASE MarkRendered
  <2>1. /\ render = "encoded" /\ render' = "idle"
        /\ rendered' = IF held.version > rendered THEN held.version ELSE rendered
        /\ UNCHANGED << logic, next, digest, latest, screen, shown, history >>
    BY <1>9 DEF MarkRendered, logicVars
  <2>2. shown = held.version
    BY <2>1 DEF Handoff, Versions
  <2>3. Versions'
    BY <2>1, <2>2 DEF Handoff, Versions, Building, Drawing
  <2>4. Pictures' /\ Coverage'
    BY <2>1 DEF Handoff, Pictures, Coverage, Building, Drawing, Covers,
         ScreenShowsItsFrame
  <2> QED  BY <1>1, <2>3, <2>4 DEF Handoff
<1>10. CASE UNCHANGED vars
  BY <1>1, <1>10 DEF Handoff, vars, Versions, Pictures, Coverage, Building,
       Drawing, Covers, ScreenShowsItsFrame
<1> QED
  BY <1>2, <1>3, <1>4, <1>5, <1>6, <1>7, <1>8, <1>9, <1>10 DEF Next

\* However the two threads interleave, and whatever frames are skipped,
\* abandoned or fail to encode, the picture retained on the GPU is exactly the
\* picture of the frame last drawn: publish loses no dirty bit.
THEOREM NoDirtyBitIsLost == Spec => []ScreenShowsItsFrame
<1>1. Spec => []Handoff
  BY InitHandoff, NextHandoff, PTL DEF Spec
<1>2. Handoff => ScreenShowsItsFrame
  BY DEF Handoff, Pictures
<1> QED  BY <1>1, <1>2, PTL

(***************************************************************************)
(* The hand-off implements Display.                                        *)
(***************************************************************************)

LEMMA HandoffInvariant == Spec => []Handoff
BY InitHandoff, NextHandoff, PTL DEF Spec

\* What Display calls published: the pictures of the versions swapped in.
LEMMA PublishedIsASequence ==
  ASSUME NEW n \in Nat, NEW h, NEW S, \A v \in 1..n : h[v].pool \in S
  PROVE  /\ [ v \in 1..n |-> h[v].pool ] \in Seq(S)
         /\ Len([ v \in 1..n |-> h[v].pool ]) = n
OBVIOUS

\* A version that goes into the slot is one more picture published; a draw is
\* a Draw of the version held; every other step of the two threads changes
\* nothing that Display speaks of.
LEMMA StepImplementsDisplay ==
  Handoff /\ Handoff' /\ [Next]_vars => [D!Next]_(D!vars)
<1> SUFFICES ASSUME Handoff, Handoff', [Next]_vars PROVE [D!Next]_(D!vars)
  OBVIOUS
<1> DEFINE published == [ v \in 1..latest.version |-> history[v].pool ]
<1>1. /\ latest.version \in Nat /\ latest'.version \in Nat
      /\ held.version \in Nat /\ shown \in Nat /\ Len(history) \in Nat
  BY DEF Handoff, TypeOK, WellFormed, Frames
<1>2. latest.version <= Len(history)
  BY <1>1 DEF Handoff, Versions
<1>3. \A v \in 1..Len(history) : history[v].pool \in Pools
  <2>1. \A v \in 1..Len(history) : history[v] \in Asked
    BY DEF Handoff, TypeOK
  <2>2. \A asked \in Asked : asked.pool \in Pools
    BY DEF Asked
  <2> QED  BY <2>1, <2>2
<1>4. published \in Seq(Pools) /\ Len(published) = latest.version
  <2>1. \A v \in 1..latest.version : history[v].pool \in Pools
    BY <1>1, <1>2, <1>3
  <2> QED  BY <1>1, <2>1, PublishedIsASequence
<1>5. CASE Evaluate
  <2>1. /\ UNCHANGED << latest, screen, shown >>
        /\ \A v \in 1..Len(history) : history'[v] = history[v]
    BY <1>5 DEF Evaluate, renderVars, Handoff, TypeOK
  <2>2. published' = published
    BY <1>1, <1>2, <2>1
  <2> QED  BY <2>1, <2>2 DEF D!vars
<1>6. CASE Swap
  <2>1. /\ latest'.version = latest.version + 1
        /\ latest'.version = Len(history)
        /\ UNCHANGED << history, screen, shown >>
    BY <1>6 DEF Swap, renderVars, Handoff, Versions, Building
  <2>2. published' = Append(published, history[latest'.version].pool)
    <3>1. published' = [ v \in 1..(latest.version + 1) |-> history[v].pool ]
      BY <2>1
    <3> QED  BY <1>1, <1>4, <2>1, <3>1
  <2>3. history[latest'.version].pool \in Pools
    BY <1>1, <1>3, <2>1
  <2>4. D!Publish
    BY <2>1, <2>2, <2>3 DEF D!Publish
  <2> QED  BY <2>4 DEF D!Next
<1>7. CASE Encode
  <2>1. /\ render = "fetched" /\ shown' = held.version
        /\ screen' = Repaint(held, screen) /\ UNCHANGED << latest, history >>
    BY <1>7 DEF Encode, logicVars
  <2>2. Drawing
    BY <2>1 DEF Drawing
  <2>3. held.version \in 1..Len(published) /\ held.version >= shown
    BY <1>1, <1>4, <2>2 DEF Handoff, Versions
  <2>4. screen' = published[held.version]
    <3>1. screen' = held.pool
      BY <2>1, <2>2, RepaintExact DEF Handoff, TypeOK, Coverage
    <3> QED  BY <1>1, <1>4, <2>2, <2>3, <3>1 DEF Handoff, Pictures
  <2>5. published' = published
    BY <2>1
  <2>6. D!Draw
    BY <2>1, <2>3, <2>4, <2>5 DEF D!Draw
  <2> QED  BY <2>6 DEF D!Next
<1>8. CASE CarryForward \/ Recycle \/ Fetch \/ Abandon \/ EncodeFails
           \/ MarkRendered \/ UNCHANGED vars
  <2>1. UNCHANGED << latest, history, screen, shown >>
    BY <1>8 DEF CarryForward, Recycle, Fetch, Abandon, EncodeFails, MarkRendered,
         vars, renderVars, logicVars
  <2>2. published' = published
    BY <2>1
  <2> QED  BY <2>1, <2>2 DEF D!vars
<1> QED  BY <1>5, <1>6, <1>7, <1>8 DEF Next

\* However frames are skipped, abandoned or fail to encode, the screen only
\* ever goes from one whole published picture to another that is not older.
THEOREM HandoffImplementsDisplay == Spec => ImplementsDisplay
<1>1. Init => D!Init
  <2> SUFFICES ASSUME Init PROVE D!Init
    OBVIOUS
  <2>1. [ v \in 1..latest.version |-> history[v].pool ] = << >>
    BY DEF Init, NoFrame
  <2> QED  BY <2>1 DEF Init, D!Init
<1> QED
  BY <1>1, HandoffInvariant, StepImplementsDisplay, PTL
  DEF Spec, ImplementsDisplay, D!Spec

(***************************************************************************)
(* What is asked for once is carried until it is done, and no longer.      *)
(***************************************************************************)

\* A frame just evaluated asks for what its own evaluation asked for.
Evaluated ==
  logic = "carry" =>
    /\ next.full   = history[next.version].full
    /\ next.dirty  = history[next.version].dirty
    /\ next.layers = history[next.version].layers

\* What OnlyOwedIsCarried says of the slot, of any frame.
OnlyAsked(f) ==
  LET since == (settled + 1)..f.version
  IN  /\ f.full => \E v \in since : history[v].full
      /\ \A i \in DOMAIN f.pool : f.dirty[i] =>
           \/ \E v \in since : i \in DOMAIN history[v].pool /\ history[v].dirty[i]
           \/ \E v, w \in since : DOMAIN history[v].pool # DOMAIN history[w].pool

\* The last layer write of a frame is the newest one issued up to it; a frame
\* without any stands for versions that wrote nothing since the last draw.
LastWritten(f) ==
  /\ f.layers # << >> => f.layers[Len(f.layers)] = LayerAt(f.version)
  /\ f.layers = << >> =>
       \A v \in (shown + 1)..f.version : history[v].layers = << >>

RedrawsOwed ==
  /\ Owes(latest)
  /\ Drawing => Owes(held)
  /\ logic = "swap" => Owes(next)

OnlyOwed ==
  /\ settled <= latest.version
  /\ logic # "swap" => settled < latest.version \/ latest.version = 0
  /\ logic # "swap" => OnlyAsked(latest)
  /\ logic = "swap" => OnlyAsked(next)

\* A draw that failed after its uploads may leave the layer ahead of the
\* screen, at the version it was drawing.
WritesOwed ==
  /\ LastWritten(latest)
  /\ Drawing => LastWritten(held)
  /\ logic = "swap" => LastWritten(next)
  /\ \E v \in shown..latest.version :
       layer = LayerAt(v) /\ (Drawing => v <= held.version)
  /\ LayerShowsLastWrite

Debts == Evaluated /\ RedrawsOwed /\ OnlyOwed /\ WritesOwed

\* A bounded set of naturals that is not empty has a greatest element.
LEMMA NewestIsAWriter ==
  ASSUME NEW v \in Nat, Writers(v) # {}
  PROVE  Newest(Writers(v)) \in Writers(v)
<1> DEFINE age == { v - w : w \in Writers(v) }
<1>1. Writers(v) \subseteq 1..v
  BY DEF Writers
<1>2. age \subseteq Nat /\ age # {}
  BY <1>1
<1>3. \A w \in Writers(v) : v - w \in age
  OBVIOUS
<1>4. \A a \in age : \E w \in Writers(v) : a = v - w
  OBVIOUS
<1> HIDE DEF age
<1>5. PICK a \in age : \A o \in age : ~ (<< o, a >> \in OpToRel(<, Nat))
  BY <1>2, NatLessThanWellFounded, WFMin
<1>6. \A o \in age : ~ (o < a)
  BY <1>2, <1>5 DEF OpToRel
<1>7. PICK w \in Writers(v) : a = v - w
  BY <1>4
<1>8. \A u \in Writers(v) : u <= w
  BY <1>1, <1>3, <1>6, <1>7
<1> QED  BY <1>8 DEF Newest

\* The layer of a version that wrote is its own last write.
LEMMA LayerOfAWriter ==
  ASSUME NEW v \in Nat \ {0}, history[v].layers # << >>
  PROVE  LayerAt(v) = history[v].layers[Len(history[v].layers)]
<1>1. v \in Writers(v) /\ \A u \in Writers(v) : u \in Nat /\ u <= v
  BY DEF Writers
<1>2. Newest(Writers(v)) = v
  BY <1>1 DEF Newest
<1> QED  BY <1>1, <1>2 DEF LayerAt

\* Versions that write nothing leave the layer as it was.
LEMMA LayerOfSilence ==
  ASSUME NEW u \in Nat, NEW v \in Nat, u <= v,
         \A w \in (u + 1)..v : history[w].layers = << >>
  PROVE  LayerAt(u) = LayerAt(v)
<1>1. Writers(u) = Writers(v)
  BY DEF Writers
<1> QED  BY <1>1 DEF LayerAt

\* The layer of a version is settled once it is evaluated.
LEMMA LayerIsSettled ==
  ASSUME NEW v \in Nat, \A w \in 1..v : history'[w] = history[w]
  PROVE  LayerAt(v)' = LayerAt(v)
<1>1. Writers(v)' = Writers(v)
  BY DEF Writers
<1>2. CASE Writers(v) = {}
  BY <1>1, <1>2 DEF LayerAt
<1>3. CASE Writers(v) # {}
  <2>1. Newest(Writers(v)) \in 1..v
    BY <1>3, NewestIsAWriter DEF Writers
  <2>2. Newest(Writers(v))' = Newest(Writers(v))
    BY <1>1
  <2> QED  BY <1>1, <1>3, <2>1, <2>2 DEF LayerAt
<1> QED  BY <1>2, <1>3

LEMMA InitDebts == Init => Debts
<1> SUFFICES ASSUME Init PROVE Debts
  OBVIOUS
<1> USE NoFrameFacts
<1>1. /\ logic = "evaluate" /\ render = "idle" /\ shown = 0 /\ settled = 0
      /\ latest.version = 0 /\ latest.layers = << >> /\ latest.full = FALSE
      /\ latest.pool = << >> /\ layer = Undrawn
  BY DEF Init, NoFrame
<1>2. LayerAt(0) = Undrawn
  BY DEF LayerAt, Writers
<1>3. DOMAIN latest.pool = {}
  BY <1>1
<1> QED
  BY <1>1, <1>2, <1>3 DEF Debts, Evaluated, RedrawsOwed, OnlyOwed, WritesOwed, Owes,
       OnlyAsked, LastWritten, LayerShowsLastWrite, Drawing

\* Numbers the steps below keep needing.
LEMMA VersionFacts ==
  ASSUME Handoff
  PROVE  /\ latest.version \in Nat /\ held.version \in Nat /\ next.version \in Nat
         /\ shown \in Nat /\ rendered \in Nat /\ settled \in Nat
         /\ Len(history) \in Nat /\ latest.version <= Len(history)
         /\ rendered <= shown /\ shown <= latest.version
         /\ Drawing => shown <= held.version /\ held.version <= latest.version
         /\ Building => next.version = latest.version + 1
BY DEF Handoff, Versions, TypeOK, WellFormed, Frames, Building

\* A new version changes nothing of what is owed up to an older one.
LEMMA OlderDebtsStay ==
  ASSUME NEW f, f.version \in Nat, shown \in Nat, settled \in Nat,
         \A v \in 1..f.version : history'[v] = history[v],
         UNCHANGED << shown, settled >>
  PROVE  /\ Owes(f) => Owes(f)'
         /\ OnlyAsked(f) => OnlyAsked(f)'
         /\ LastWritten(f) => LastWritten(f)'
<1>1. \A v \in (shown + 1)..f.version : history'[v] = history[v]
  OBVIOUS
<1>2. Owes(f) => Owes(f)'
  BY <1>1 DEF Owes
<1>3. OnlyAsked(f) => OnlyAsked(f)'
  <2> DEFINE since == (settled + 1)..f.version
  <2>1. \A v \in since : history'[v] = history[v]
    OBVIOUS
  <2>2. SUFFICES ASSUME OnlyAsked(f)
                 PROVE  /\ f.full => \E v \in since : history'[v].full
                        /\ \A i \in DOMAIN f.pool : f.dirty[i] =>
                             \/ \E v \in since : /\ i \in DOMAIN history'[v].pool
                                                 /\ history'[v].dirty[i]
                             \/ \E v, w \in since : DOMAIN history'[v].pool
                                                      # DOMAIN history'[w].pool
    BY DEF OnlyAsked
  <2> QED  BY <2>1, <2>2 DEF OnlyAsked
<1>4. LastWritten(f) => LastWritten(f)'
  BY <1>1, LayerIsSettled DEF LastWritten
<1> QED  BY <1>2, <1>3, <1>4

LEMMA EvaluateKeepsDebts == Handoff /\ Debts /\ Evaluate => Debts'
<1> SUFFICES ASSUME Handoff, Debts, Evaluate PROVE Debts'
  OBVIOUS
<1>1. PICK asked :
        /\ history' = Append(history, asked)
        /\ next'.version = Len(history) + 1
        /\ next'.full = asked.full /\ next'.dirty = asked.dirty
        /\ next'.layers = asked.layers
  <2>1. PICK pool \in Pools, full \in Requests, layers \in Writes, reset \in BOOLEAN :
          LET dirty == Compare(pool, IF reset THEN << >> ELSE digest)
          IN  /\ next' = [ version |-> Len(history) + 1, pool |-> pool,
                           dirty |-> dirty, full |-> FALSE \/ full,
                           layers |-> << >> \o layers ]
              /\ history' = Append(history,
                   [ pool |-> pool, dirty |-> dirty, full |-> full,
                     layers |-> layers ])
    BY DEF Evaluate, Clear, NoFrame
  <2>2. (FALSE \/ full) = full /\ << >> \o layers = layers
    BY RelayAssumption
  <2> QED  BY <2>1, <2>2
<1>2. /\ logic = "evaluate" /\ logic' = "carry"
      /\ UNCHANGED << latest, rendered, render, held, layer, shown, settled >>
  BY DEF Evaluate, renderVars
<1>3. /\ \A v \in 1..Len(history) : history'[v] = history[v]
      /\ history'[Len(history) + 1] = asked
  BY <1>1 DEF Handoff, TypeOK
<1>4. Evaluated'
  BY <1>1, <1>3 DEF Evaluated
<1>5. \A v \in 1..latest.version : history'[v] = history[v]
  BY <1>3, VersionFacts
<1>6. Owes(latest)' /\ OnlyAsked(latest)' /\ LastWritten(latest)'
  BY <1>2, <1>5, VersionFacts, OlderDebtsStay
     DEF Debts, RedrawsOwed, OnlyOwed, WritesOwed
<1>7. Drawing => Owes(held)' /\ LastWritten(held)'
  BY <1>2, <1>5, VersionFacts, OlderDebtsStay DEF Debts, RedrawsOwed, WritesOwed
<1>8. \A v \in 0..latest.version : LayerAt(v)' = LayerAt(v)
  BY <1>5, VersionFacts, LayerIsSettled
<1>9. Drawing' = Drawing
  BY <1>2 DEF Drawing
<1>10. WritesOwed'
  <2>1. PICK v \in shown..latest.version :
          layer = LayerAt(v) /\ (Drawing => v <= held.version)
    BY DEF Debts, WritesOwed
  <2>2. LayerAt(v)' = LayerAt(v) /\ LayerAt(shown)' = LayerAt(shown)
    <3>1. v \in 0..latest.version /\ shown \in 0..latest.version
      BY VersionFacts
    <3> QED  BY <1>2, <1>8, <3>1
  <2>3. LayerShowsLastWrite'
    BY <1>2, <2>2 DEF Debts, WritesOwed, LayerShowsLastWrite
  <2> QED  BY <1>2, <1>6, <1>7, <1>9, <2>1, <2>2, <2>3 DEF WritesOwed
<1> QED
  BY <1>2, <1>4, <1>6, <1>7, <1>9, <1>10 DEF Debts, RedrawsOwed, OnlyOwed

LEMMA LastOfConcat ==
  ASSUME NEW S, NEW r \in Seq(S), NEW t \in Seq(S), t # << >>
  PROVE  r \o t # << >> /\ (r \o t)[Len(r \o t)] = t[Len(t)]
<1>1. Len(r) \in Nat /\ Len(t) \in Nat \ {0}
  OBVIOUS
<1>2. Len(r \o t) = Len(r) + Len(t)
  OBVIOUS
<1>3. \A i \in 1..Len(t) : (r \o t)[Len(r) + i] = t[i]
  OBVIOUS
<1>4. r \o t # << >>
  BY <1>1, <1>2
<1> QED  BY <1>1, <1>2, <1>3, <1>4

\* What a frame takes over from the one it replaces, or that nothing of the
\* one it replaces is owed any more.
LEMMA CarryKeepsDebts == Handoff /\ Debts /\ CarryForward => Debts'
<1> SUFFICES ASSUME Handoff, Debts, CarryForward PROVE Debts'
  OBVIOUS
<1>1. /\ logic = "carry" /\ logic' = "swap" /\ Building
      /\ UNCHANGED << latest, rendered, render, held, layer, shown, history >>
  BY DEF CarryForward, renderVars, Building
<1>2. /\ next.full = history[next.version].full
      /\ next.dirty = history[next.version].dirty
      /\ next.layers = history[next.version].layers
      /\ next.pool = history[next.version].pool
  BY <1>1 DEF Debts, Evaluated, Handoff, Pictures
<1>3. /\ latest.version \in Nat /\ shown \in Nat /\ settled \in Nat
      /\ shown <= latest.version /\ next.version = latest.version + 1
  BY <1>1, VersionFacts
<1>4. /\ WellFormed(next) /\ WellFormed(latest)
      /\ DOMAIN next.dirty = DOMAIN next.pool
      /\ DOMAIN latest.dirty = DOMAIN latest.pool
      /\ next.layers \in Seq(Look) /\ latest.layers \in Seq(Look)
  BY DEF Handoff, TypeOK, WellFormed, Frames
<1>5. Owes(latest) /\ OnlyAsked(latest) /\ LastWritten(latest)
  BY <1>1 DEF Debts, RedrawsOwed, OnlyOwed, WritesOwed
<1>6. next.layers # << >> => LayerAt(next.version) = next.layers[Len(next.layers)]
  BY <1>2, <1>3, LayerOfAWriter
<1>7. next.layers = << >> => LayerAt(next.version) = LayerAt(latest.version)
  BY <1>2, <1>3, LayerOfSilence
<1>8. /\ next'.version = next.version
      /\ Owes(next)' /\ OnlyAsked(next)' /\ LastWritten(next)'
      /\ settled' <= latest.version
  <2>1. CASE \E seen \in 0..rendered : latest.version # 0 /\ latest.version # seen
               /\ next' = MergeDirtyFrom(next, latest) /\ settled' = settled
    <3>1. /\ next'.version = next.version /\ next'.pool = next.pool
          /\ next'.full = (next.full \/ latest.full)
          /\ next'.layers = latest.layers \o next.layers
          /\ next'.dirty = MergeFlags(next.dirty, latest.dirty)
          /\ settled' = settled
      BY <2>1, <1>4, MergeWellFormed DEF MergeDirtyFrom, WellFormed, Frames
    <3>2. settled < latest.version
      BY <1>1, <2>1 DEF Debts, OnlyOwed
    <3>3. Owes(next)'
      <4>1. SUFFICES ASSUME NEW v \in (shown + 1)..next.version, history[v].full
                     PROVE  next.full \/ latest.full
        BY <1>1, <3>1 DEF Owes
      <4>2. CASE v = next.version
        BY <1>2, <4>1, <4>2
      <4>3. CASE v \in (shown + 1)..latest.version
        BY <1>5, <4>1, <4>3 DEF Owes
      <4> QED  BY <1>3, <4>2, <4>3
    <3>4. OnlyAsked(next)'
      <4> DEFINE since == (settled + 1)..next.version
      <4>1. /\ latest.version \in since /\ next.version \in since
            /\ (settled + 1)..latest.version \subseteq since
        BY <1>3, <3>2
      <4>2. next'.full => \E v \in since : history[v].full
        BY <1>2, <1>5, <3>1, <4>1 DEF OnlyAsked
      <4>3. ASSUME NEW i \in DOMAIN next.pool, MergeFlags(next.dirty, latest.dirty)[i]
            PROVE  \/ \E v \in since : /\ i \in DOMAIN history[v].pool
                                       /\ history[v].dirty[i]
                   \/ \E v, w \in since :
                        DOMAIN history[v].pool # DOMAIN history[w].pool
        <5>1. CASE DOMAIN next.pool # DOMAIN latest.pool
          <6>1. latest.pool = history[latest.version].pool
            BY <1>3, <3>2 DEF Handoff, Pictures
          <6> QED  BY <1>2, <4>1, <5>1, <6>1
        <5>2. CASE DOMAIN next.pool = DOMAIN latest.pool /\ next.dirty[i]
          BY <1>2, <4>1, <5>2
        <5>3. CASE DOMAIN next.pool = DOMAIN latest.pool /\ latest.dirty[i]
          BY <1>5, <4>1, <5>3 DEF OnlyAsked
        <5> QED  BY <1>4, <4>3, <5>1, <5>2, <5>3 DEF MergeFlags
      <4> QED  BY <1>1, <3>1, <4>2, <4>3 DEF OnlyAsked
    <3>5. LastWritten(next)'
      <4>1. CASE next.layers # << >>
        <5>1. /\ next'.layers # << >>
              /\ next'.layers[Len(next'.layers)] = next.layers[Len(next.layers)]
          BY <1>4, <3>1, <4>1, LastOfConcat
        <5> QED  BY <1>1, <1>6, <3>1, <4>1, <5>1 DEF LastWritten, LayerAt, Writers
      <4>2. CASE next.layers = << >>
        <5>1. next'.layers = latest.layers
          BY <1>4, <3>1, <4>2
        <5>2. history[next.version].layers = << >>
          BY <1>2, <4>2
        <5>3. latest.layers = << >> =>
                \A v \in (shown + 1)..next.version : history[v].layers = << >>
          BY <1>3, <1>5, <5>2 DEF LastWritten
        <5> QED
          BY <1>1, <1>5, <1>7, <3>1, <4>2, <5>1, <5>3 DEF LastWritten, LayerAt, Writers
      <4> QED  BY <4>1, <4>2
    <3> QED  BY <1>3, <3>1, <3>2, <3>3, <3>4, <3>5
  <2>2. CASE \E seen \in 0..rendered : (latest.version = 0 \/ latest.version = seen)
               /\ next' = next /\ settled' = latest.version
    <3>1. shown = latest.version
      BY <2>2, VersionFacts
    <3>2. /\ (settled' + 1)..next.version = {next.version}
          /\ (shown + 1)..next.version = {next.version}
      BY <1>3, <2>2, <3>1
    <3>3. Owes(next)'
      BY <1>1, <1>2, <2>2, <3>2 DEF Owes
    <3>4. OnlyAsked(next)'
      BY <1>1, <1>2, <2>2, <3>2 DEF OnlyAsked
    <3>5. LastWritten(next)'
      BY <1>1, <1>2, <1>6, <2>2, <3>2 DEF LastWritten, LayerAt, Writers
    <3> QED  BY <1>3, <2>2, <3>3, <3>4, <3>5
  <2> QED  BY <2>1, <2>2 DEF CarryForward
<1>9. /\ Drawing' = Drawing /\ Owes(latest)' = Owes(latest)
      /\ Owes(held)' = Owes(held)
  BY <1>1 DEF Drawing, Owes
<1>10. /\ \A v : LayerAt(v)' = LayerAt(v)
       /\ LastWritten(latest)' = LastWritten(latest)
       /\ LastWritten(held)' = LastWritten(held)
       /\ LayerShowsLastWrite' = LayerShowsLastWrite
  BY <1>1 DEF LayerAt, Writers, LastWritten, LayerShowsLastWrite
<1>11. WritesOwed'
  BY <1>1, <1>8, <1>9, <1>10 DEF Debts, WritesOwed
<1> QED
  BY <1>1, <1>8, <1>9, <1>11 DEF Debts, Evaluated, RedrawsOwed, OnlyOwed

\* A draw, or one that fails after its uploads, brings the layer to the
\* version it drew.
LEMMA UploadReaches ==
  ASSUME Handoff, Debts, Drawing
  PROVE  Upload(held, layer) = LayerAt(held.version)
<1>1. PICK v \in shown..held.version : layer = LayerAt(v)
  BY VersionFacts DEF Debts, WritesOwed
<1>2. LastWritten(held)
  BY DEF Debts, WritesOwed
<1>3. CASE held.layers = << >>
  <2>1. v \in Nat /\ held.version \in Nat /\ v <= held.version
    BY VersionFacts
  <2>2. \A w \in (v + 1)..held.version : history[w].layers = << >>
    BY <1>2, <1>3, <2>1, VersionFacts DEF LastWritten
  <2>3. LayerAt(v) = LayerAt(held.version)
    BY <2>1, <2>2, LayerOfSilence
  <2> QED  BY <1>1, <1>3, <2>3 DEF Upload
<1>4. CASE held.layers # << >>
  BY <1>2, <1>4 DEF Upload, LastWritten
<1> QED  BY <1>3, <1>4

LEMMA EncodeKeepsDebts == Handoff /\ Debts /\ Encode => Debts'
<1> SUFFICES ASSUME Handoff, Debts, Encode PROVE Debts'
  OBVIOUS
<1>1. /\ render = "fetched" /\ render' = "encoded" /\ shown' = held.version
      /\ layer' = Upload(held, layer) /\ Drawing /\ Drawing'
      /\ UNCHANGED << logic, next, latest, held, history, settled >>
  BY DEF Encode, logicVars, Drawing
<1>2. /\ shown \in Nat /\ held.version \in Nat /\ latest.version \in Nat
      /\ shown <= held.version /\ held.version <= latest.version
  BY <1>1, VersionFacts
<1>3. layer' = LayerAt(held.version)
  BY <1>1, UploadReaches
<1>4. \A v : LayerAt(v)' = LayerAt(v)
  BY <1>1 DEF LayerAt, Writers
<1>5. \A v : v \in (shown' + 1)..held.version => v \in (shown + 1)..held.version
  BY <1>1, <1>2
<1>6. \A n : \A v \in (shown' + 1)..n : n \in Nat => v \in (shown + 1)..n
  BY <1>1, <1>2
<1>7. RedrawsOwed'
  <2>1. logic = "swap" => next.version \in Nat
    BY VersionFacts
  <2> QED  BY <1>1, <1>2, <1>6, <2>1 DEF Debts, RedrawsOwed, Owes
<1>8. LastWritten(latest)' /\ LastWritten(held)'
  BY <1>1, <1>2, <1>4, <1>6 DEF Debts, WritesOwed, LastWritten
<1>9. logic = "swap" => LastWritten(next)'
  <2>1. logic = "swap" => next.version \in Nat
    BY VersionFacts
  <2> QED  BY <1>1, <1>4, <1>6, <2>1 DEF Debts, WritesOwed, LastWritten
<1>10. WritesOwed'
  <2>1. shown' \in shown'..latest'.version /\ shown' <= held'.version
    BY <1>1, <1>2
  <2>2. (layer = LayerAt(shown))'
    BY <1>1, <1>3, <1>4
  <2> QED
    BY <1>1, <1>8, <1>9, <2>1, <2>2 DEF WritesOwed, LayerShowsLastWrite
<1>11. Evaluated' /\ OnlyOwed'
  BY <1>1 DEF Debts, Evaluated, OnlyOwed, OnlyAsked
<1> QED  BY <1>7, <1>10, <1>11 DEF Debts

\* The uploads of a draw that failed put the layer ahead of the screen, which
\* the next draw does not notice.
LEMMA EncodeFailsKeepsDebts == Handoff /\ Debts /\ EncodeFails => Debts'
<1> SUFFICES ASSUME Handoff, Debts, EncodeFails PROVE Debts'
  OBVIOUS
<1>1. /\ Drawing /\ ~Drawing' /\ render' = "idle"
      /\ layer' = Upload(held, layer)
      /\ UNCHANGED << logic, next, latest, history, settled, shown >>
  BY DEF EncodeFails, logicVars, Drawing
<1>2. held.version \in shown..latest.version
  BY <1>1, VersionFacts
<1>3. layer' = LayerAt(held.version)
  BY <1>1, UploadReaches
<1>4. \A v : LayerAt(v)' = LayerAt(v)
  BY <1>1 DEF LayerAt, Writers
<1>5. \E v \in shown'..latest'.version : layer' = LayerAt(v)'
  BY <1>1, <1>2, <1>3, <1>4
<1>6. WritesOwed'
  BY <1>1, <1>4, <1>5 DEF Debts, WritesOwed, LastWritten, LayerShowsLastWrite
<1> QED
  BY <1>1, <1>6 DEF Debts, Evaluated, RedrawsOwed, Owes, OnlyOwed, OnlyAsked

LEMMA NextDebts == Handoff /\ Debts /\ [Next]_vars => Debts'
<1> SUFFICES ASSUME Handoff, Debts, [Next]_vars PROVE Debts'
  OBVIOUS
<1>1. CASE Swap
  <2>1. /\ logic = "swap" /\ logic' = "recycle" /\ latest' = next
        /\ next.version = latest.version + 1
        /\ UNCHANGED << render, held, layer, shown, history, settled >>
    BY <1>1, VersionFacts DEF Swap, renderVars, Building
  <2>2. \A v : LayerAt(v)' = LayerAt(v)
    BY <2>1 DEF LayerAt, Writers
  <2>3. OnlyOwed'
    BY <2>1, VersionFacts DEF Debts, OnlyOwed, OnlyAsked
  <2>4. RedrawsOwed'
    BY <2>1 DEF Debts, RedrawsOwed, Owes, Drawing
  <2>5. PICK v \in shown..latest.version :
          layer = LayerAt(v) /\ (Drawing => v <= held.version)
    BY DEF Debts, WritesOwed
  <2>6. v \in shown'..latest'.version
    BY <2>1, <2>5, VersionFacts
  <2>7. WritesOwed'
    BY <2>1, <2>2, <2>5, <2>6
       DEF Debts, WritesOwed, LastWritten, LayerShowsLastWrite, Drawing
  <2> QED  BY <2>1, <2>3, <2>4, <2>7 DEF Debts, Evaluated
<1>2. CASE Fetch
  <2>1. /\ render = "idle" /\ render' = "fetched" /\ held' = latest
        /\ UNCHANGED << logic, next, latest, layer, shown, history, settled >>
    BY <1>2 DEF Fetch, logicVars
  <2>2. \A v : LayerAt(v)' = LayerAt(v)
    BY <2>1 DEF LayerAt, Writers
  <2>3. \A v \in shown..latest.version : v <= latest.version
    BY VersionFacts
  <2>4. WritesOwed'
    BY <2>1, <2>2, <2>3
       DEF Debts, WritesOwed, LastWritten, LayerShowsLastWrite, Drawing
  <2> QED
    BY <2>1, <2>4 DEF Debts, Evaluated, RedrawsOwed, Owes, OnlyOwed, OnlyAsked, Drawing
<1>3. CASE Recycle \/ Abandon \/ MarkRendered \/ UNCHANGED vars
  <2>1. /\ logic' = logic \/ (logic = "recycle" /\ logic' = "evaluate")
        /\ Drawing' => Drawing /\ held' = held
        /\ render' = "encoded" => render = "encoded"
        /\ UNCHANGED << next, latest, layer, shown, history, settled >>
    BY <1>3 DEF Recycle, Abandon, MarkRendered, vars, logicVars, renderVars, Drawing
  <2>2. \A v : LayerAt(v)' = LayerAt(v)
    BY <2>1 DEF LayerAt, Writers
  <2>3. WritesOwed'
    BY <2>1, <2>2 DEF Debts, WritesOwed, LastWritten, LayerShowsLastWrite
  <2> QED
    BY <2>1, <2>3 DEF Debts, Evaluated, RedrawsOwed, Owes, OnlyOwed, OnlyAsked
<1> QED
  BY <1>1, <1>2, <1>3, EvaluateKeepsDebts, CarryKeepsDebts, EncodeKeepsDebts,
     EncodeFailsKeepsDebts DEF Next

\* What a frame nobody draws asked for, a full redraw or a layer write, is
\* done by the frame drawn in its place, in its order, and is not asked for
\* again once it is done.
THEOREM OwedIsCarried == Spec => []CarriesWhatIsOwed
<1>1. Spec => []Debts
  BY HandoffInvariant, InitDebts, NextDebts, PTL DEF Spec
<1>2. Debts => CarriesWhatIsOwed
  <2> SUFFICES ASSUME Debts PROVE CarriesWhatIsOwed
    OBVIOUS
  <2>1. NoLostFullRedraw
    BY DEF Debts, RedrawsOwed, NoLostFullRedraw, Drawing
  <2>2. OnlyOwedIsCarried
    BY DEF Debts, OnlyOwed, OnlyAsked, OnlyOwedIsCarried
  <2> QED  BY <2>1, <2>2 DEF Debts, WritesOwed, CarriesWhatIsOwed
<1> QED  BY <1>1, <1>2, PTL

(***************************************************************************)
(* What a frame repaints.                                                  *)
(***************************************************************************)

Encodable == [ pools : Contents, carried : BOOLEAN, full : BOOLEAN, uploads : BOOLEAN ]

LEMMA ArrivingIsEncodable == Arriving \subseteq Encodable
BY DEF Arriving, Encodable

\* Contents, and the frame before the first.
Drawn == Contents \cup {Empty.pools}

\* What is kept of a frame is kept of the last one, in a new texture too; but
\* the digest may be that of a frame whose encode failed.
Bookkept ==
  /\ bounds = Bookkeeping(frame)
  /\ "native" \in UsedPools /\ ~failed => batches = frame.pools["native"]

EncInv == EncoderTypeOK /\ Bookkept /\ OnlyKnownGapsAreStale

LEMMA DrawnFacts ==
  ASSUME NEW pools \in Drawn
  PROVE  /\ DOMAIN pools = UsedPools
         /\ \A p \in UsedPools :
              /\ Len(pools[p]) \in Nat /\ DOMAIN pools[p] = 1..Len(pools[p])
              /\ \A i \in DOMAIN pools[p] : pools[p][i].paint \subseteq Cells
<1>1. CASE pools \in Contents
  <2>1. ASSUME NEW p \in UsedPools
        PROVE  /\ Len(pools[p]) \in Nat /\ DOMAIN pools[p] = 1..Len(pools[p])
               /\ \A i \in DOMAIN pools[p] : pools[p][i].paint \subseteq Cells
    <3> DEFINE S == { pools[p][i] : i \in DOMAIN pools[p] }
    <3>1. pools[p] \in Seq(S) /\ \A i \in DOMAIN pools[p] : pools[p][i].paint \subseteq Cells
      BY <1>1, EncoderAssumption
    <3> HIDE DEF S
    <3> QED  BY <3>1
  <2> QED  BY <1>1, <2>1, EncoderAssumption
<1>2. CASE pools = Empty.pools
  BY <1>2 DEF Empty
<1> QED  BY <1>1, <1>2 DEF Drawn

LEMMA EmptyFacts ==
  /\ Empty.pools \in Drawn
  /\ \A p \in UsedPools : Empty.pools[p] = << >> /\ DOMAIN Empty.pools[p] = {}
BY DEF Empty, Drawn

\* The bounds kept are as many as the primitives.
LEMMA BookkeepingFacts ==
  ASSUME NEW f, f.pools \in Drawn, NEW p \in UsedPools
  PROVE  /\ DOMAIN Bookkeeping(f)[p] = DOMAIN f.pools[p]
         /\ Len(Bookkeeping(f)[p]) = Len(f.pools[p])
         /\ \A i \in DOMAIN f.pools[p] : Bookkeeping(f)[p][i] = f.pools[p][i].base
<1> DEFINE n == Len(f.pools[p])
<1> DEFINE base == [ i \in 1..n |-> f.pools[p][i].base ]
<1>1. n \in Nat /\ DOMAIN f.pools[p] = 1..n
  BY DrawnFacts
<1>2. Bookkeeping(f)[p] = base
  BY <1>1 DEF Bookkeeping
<1> HIDE DEF n
<1>3. base \in Seq({ base[i] : i \in 1..n }) /\ Len(base) = n
  BY <1>1
<1> QED  BY <1>1, <1>2, <1>3 DEF n

\* The ink of one pool in a cell.
InksOf(pools, p, c) ==
  { << p, pools[p][i].look >> : i \in { j \in DOMAIN pools[p] : c \in pools[p][j].paint } }

LEMMA InksByPool ==
  ASSUME NEW old, NEW new, NEW c, \A p \in UsedPools : InksOf(old, p, c) = InksOf(new, p, c)
  PROVE  Inks(old, c) = Inks(new, c)
<1>1. Inks(old, c) = UNION { InksOf(old, p, c) : p \in UsedPools }
  BY DEF Inks, InksOf
<1>2. Inks(new, c) = UNION { InksOf(new, p, c) : p \in UsedPools }
  BY DEF Inks, InksOf
<1> QED  BY <1>1, <1>2

\* A cell of what is dirty is in the scissor, which is around it.
LEMMA HullCovers ==
  ASSUME NEW S, NEW c \in Cells, c \in S
  PROVE  c \in Hull(S)
<1>1. c <= c
  BY EncoderAssumption DEF Cells
<1> QED  BY <1>1 DEF Hull

LEMMA HullOfNothing == Hull({}) = {}
BY DEF Hull

\* Outside the scissor a changed primitive of a measured pool neither shows
\* nor showed, but for the gaps.
LEMMA MeasuredKeepsInk ==
  ASSUME EncoderTypeOK, Bookkept,
         NEW coming \in Encodable, ~NeedsFullRedraw(coming),
         NEW p \in UsedPools \cap Measured,
         NEW c \in Cells, c \notin Scissor(coming), c \notin Gaps(coming)
  PROVE  InksOf(coming.pools, p, c) = InksOf(frame.pools, p, c)
<1> DEFINE new == coming.pools[p]
           old == frame.pools[p]
<1>1. frame.pools \in Drawn /\ coming.pools \in Drawn
  BY DEF EncoderTypeOK, Encodable, Drawn
<1>2. c \notin DirtyCells(coming)
  BY HullCovers DEF Scissor
<1>3. \A i \in DOMAIN new :
        Dirty(coming, p, i) =>
          /\ c \notin new[i].reach
          /\ i \in DOMAIN bounds[p] => c \notin bounds[p][i]
  BY <1>2 DEF DirtyCells
<1>4. c \notin Unwatched(coming) /\ c \notin Unbounded(coming)
  BY DEF Gaps
<1>5. \A i \in DOMAIN new :
        (i \notin DOMAIN old \/ old[i] # new[i]) =>
          /\ c \in new[i].paint => c \in new[i].reach
          /\ i \in DOMAIN old /\ c \in old[i].paint => c \in old[i].base
  BY <1>4 DEF Unbounded
<1>6. \A i \in DOMAIN old : i \in DOMAIN bounds[p] /\ bounds[p][i] = old[i].base
  BY <1>1, BookkeepingFacts DEF Bookkept
<1>7. \A i \in DOMAIN new : i \notin DOMAIN old \/ old[i] # new[i] => Dirty(coming, p, i)
  BY DEF Dirty
<1>8. ASSUME NEW i \in DOMAIN new, c \in new[i].paint
      PROVE  i \in DOMAIN old /\ old[i] = new[i]
  BY <1>3, <1>5, <1>7, <1>8
<1>9. ASSUME NEW i \in DOMAIN old, c \in old[i].paint
      PROVE  i \in DOMAIN new /\ old[i] = new[i]
  <2>1. i \in DOMAIN new
    <3>1. CASE p \in Counted
      <4>1. Len(coming.pools[p]) = Len(bounds[p])
        BY <3>1 DEF NeedsFullRedraw
      <4>2. DOMAIN new = DOMAIN old
        BY <4>1, <1>1, DrawnFacts, BookkeepingFacts DEF Bookkept
      <4> QED  BY <4>2
    <3>2. CASE p \notin Counted
      BY <3>2, <1>4, <1>9 DEF Unwatched
    <3> QED  BY <3>1, <3>2
  <2> QED  BY <2>1, <1>3, <1>5, <1>6, <1>7, <1>9
<1> HIDE DEF new, old
<1>10. InksOf(coming.pools, p, c) = { << p, new[i].look >> : i \in { j \in DOMAIN new : c \in new[j].paint } }
  BY DEF InksOf, new
<1>11. InksOf(frame.pools, p, c) = { << p, old[i].look >> : i \in { j \in DOMAIN old : c \in old[j].paint } }
  BY DEF InksOf, old
<1>12. \A ink : ink \in InksOf(coming.pools, p, c) <=> ink \in InksOf(frame.pools, p, c)
  BY <1>8, <1>9, <1>10, <1>11
<1> QED  BY <1>12

\* What a frame that is not drawn in full leaves alone is as it would draw it.
LEMMA KeptInkIsCurrent ==
  ASSUME EncoderTypeOK, Bookkept,
         NEW coming \in Encodable, ~NeedsFullRedraw(coming),
         NEW c \in Cells, c \notin Scissor(coming), c \notin Gaps(coming)
  PROVE  Inks(coming.pools, c) = Inks(frame.pools, c)
<1> SUFFICES ASSUME NEW p \in UsedPools
             PROVE  InksOf(coming.pools, p, c) = InksOf(frame.pools, p, c)
  BY InksByPool
<1>1. CASE p \in Measured
  BY <1>1, MeasuredKeepsInk
<1>2. CASE frame.pools[p] = coming.pools[p]
  BY <1>2 DEF InksOf
<1>3. CASE frame.pools[p] # coming.pools[p] /\ p \notin Measured
  <2>1. c \notin PaintOf(frame.pools[p]) /\ c \notin PaintOf(coming.pools[p])
    <3>1. CASE p = "native"
      \* The digests compare equal, so it is the failed encode that noticed.
      <4>1. coming.pools[p] = batches
        BY <3>1 DEF NeedsFullRedraw
      <4> QED  BY <1>3, <3>1, <4>1 DEF Gaps, Forgotten
    <3>2. CASE p \in Unnoticed
      <4>1. c \notin Unmarked(coming)
        BY DEF Gaps
      <4> QED  BY <1>3, <3>2, <4>1 DEF Unmarked
    <3> QED
      BY <1>3, <3>1, <3>2, EncoderAssumption
      DEF AllPools, Measured, Compared, Restless, Unnoticed
  <2> QED  BY <2>1 DEF InksOf, PaintOf
<1> QED  BY <1>1, <1>2, <1>3

\* What a gap leaves behind is ink of either frame.
LEMMA GapsAreCells ==
  ASSUME EncoderTypeOK, NEW coming \in Encodable
  PROVE  Gaps(coming) \subseteq Cells
<1>1. frame.pools \in Drawn /\ coming.pools \in Drawn
  BY DEF EncoderTypeOK, Encodable, Drawn
<1>2. /\ \A p \in UsedPools : \A i \in DOMAIN frame.pools[p] : frame.pools[p][i].paint \subseteq Cells
      /\ \A p \in UsedPools : \A i \in DOMAIN coming.pools[p] : coming.pools[p][i].paint \subseteq Cells
  BY <1>1, DrawnFacts
<1>3. Unwatched(coming) \subseteq Cells
  BY <1>2 DEF Unwatched
<1>4. Unbounded(coming) \subseteq Cells
  BY <1>2 DEF Unbounded
<1>5. Unmarked(coming) \subseteq Cells
  BY <1>2 DEF Unmarked, PaintOf
<1>6. Forgotten(coming) \subseteq Cells
  BY <1>2 DEF Forgotten, PaintOf
<1> QED  BY <1>3, <1>4, <1>5, <1>6 DEF Gaps

(***************************************************************************)
(* The steps.                                                              *)
(***************************************************************************)

\* The texture and what is excused of it, after each of the four.
LEMMA ScreenAfterEncode ==
  ASSUME EncoderTypeOK, Bookkept, OnlyKnownGapsAreStale, NEW coming \in Encodable,
         RedrawFull(coming) \/ RedrawScissored(coming)
         \/ RedrawUploaded(coming) \/ RedrawNothing(coming)
  PROVE  /\ DOMAIN texture' = Cells
         /\ pass' \in {"full", "scissored", "unscissored", "skipped"}
         /\ excused' \subseteq Cells
         /\ \A c \in Cells \ excused' : texture'[c] = Inks(coming.pools, c)
<1>1. CASE RedrawFull(coming)
  BY <1>1 DEF RedrawFull
<1>2. CASE ~NeedsFullRedraw(coming)
  <2>1. \A c \in Cells \ (excused \cup Gaps(coming) \cup Scissor(coming)) :
          texture[c] = Inks(coming.pools, c) /\ Inks(frame.pools, c) = Inks(coming.pools, c)
    BY <1>2, KeptInkIsCurrent DEF NeedsFullRedraw, OnlyKnownGapsAreStale
  <2>2. Gaps(coming) \subseteq Cells /\ excused \subseteq Cells /\ DOMAIN texture = Cells
    BY GapsAreCells DEF EncoderTypeOK
  <2>3. CASE RedrawScissored(coming)
    BY <2>1, <2>2, <2>3 DEF RedrawScissored
  <2>4. CASE RedrawNothing(coming)
    BY <2>1, <2>2, <2>4 DEF RedrawNothing
  <2>5. CASE RedrawUploaded(coming)
    <3>1. /\ DOMAIN texture' = Cells /\ pass' = "unscissored" /\ excused' \subseteq Cells
          /\ Scissor(coming) = {}
      BY <2>5 DEF RedrawUploaded
    <3>2. ASSUME NEW c \in Cells \ excused'
          PROVE  texture'[c] = Inks(coming.pools, c)
      <4> DEFINE new == Inks(coming.pools, c)
      <4>1. texture'[c] = Over(texture[c], new)
        BY <2>5 DEF RedrawUploaded
      <4>2. CASE Hides(new)
        BY <4>1, <4>2 DEF Over
      <4>3. CASE ~Hides(new)
        <5>1. c \notin excused \cup Gaps(coming) /\ new = {}
          BY <2>5, <4>3 DEF RedrawUploaded
        <5>2. texture[c] = new
          BY <2>1, <3>1, <5>1
        <5> QED  BY <4>1, <4>3, <5>1, <5>2 DEF Over
      <4> QED  BY <4>2, <4>3
    <3> QED  BY <3>1, <3>2
  <2> QED  BY <1>2, <2>3, <2>4, <2>5 DEF RedrawFull
<1> QED  BY <1>1, <1>2 DEF RedrawFull, RedrawScissored, RedrawUploaded, RedrawNothing

LEMMA EncodeFrameInvariant == EncInv /\ EncodeFrame => EncInv'
<1> SUFFICES ASSUME EncInv, EncodeFrame PROVE EncInv'
  OBVIOUS
<1>1. PICK coming \in Encodable :
        /\ RedrawFull(coming) \/ RedrawScissored(coming)
           \/ RedrawUploaded(coming) \/ RedrawNothing(coming)
        /\ frame' = coming /\ sticky' = FALSE
        /\ bounds' = Bookkeeping(coming) /\ batches' = Digest(coming)
        /\ failed' = FALSE
  BY ArrivingIsEncodable DEF EncodeFrame
<1>2. /\ DOMAIN texture' = Cells
      /\ pass' \in {"full", "scissored", "unscissored", "skipped"}
      /\ excused' \subseteq Cells
      /\ \A c \in Cells \ excused' : texture'[c] = Inks(coming.pools, c)
  BY <1>1, ScreenAfterEncode DEF EncInv
<1>3. coming.pools \in Contents /\ coming.pools \in Drawn
  BY DEF Encodable, Drawn
<1>4. \A p \in UsedPools : DOMAIN Bookkeeping(coming)[p] = DOMAIN coming.pools[p]
  BY <1>3, BookkeepingFacts
<1>5. EncoderTypeOK'
  BY <1>1, <1>2, <1>3, <1>4 DEF EncoderTypeOK, Encodable
<1>6. Bookkept'
  <2>1. Bookkeeping(frame)' = Bookkeeping(coming)
    BY <1>1 DEF Bookkeeping
  <2> QED  BY <1>1, <2>1 DEF Bookkept, Digest
<1>7. OnlyKnownGapsAreStale'
  BY <1>1, <1>2 DEF OnlyKnownGapsAreStale, Inks
<1> QED  BY <1>5, <1>6, <1>7 DEF EncInv

\* An encode that fails leaves the picture, and what is kept of it, alone.
LEMMA EncodeFrameFailsInvariant == EncInv /\ EncodeFrameFails => EncInv'
<1> SUFFICES ASSUME EncInv, EncodeFrameFails PROVE EncInv'
  OBVIOUS
<1>1. /\ UNCHANGED << frame, texture, sticky, bounds, excused >>
      /\ failed' = TRUE
      /\ pass' \in {"full", "scissored", "unscissored"}
  BY DEF EncodeFrameFails
<1>2. EncoderTypeOK'
  BY <1>1 DEF EncInv, EncoderTypeOK
<1>3. Bookkept'
  BY <1>1 DEF EncInv, Bookkept, Bookkeeping
<1>4. OnlyKnownGapsAreStale'
  BY <1>1 DEF EncInv, OnlyKnownGapsAreStale, Inks
<1> QED  BY <1>2, <1>3, <1>4 DEF EncInv

LEMMA EncoderInitInvariant == EncoderInit => EncInv
<1> SUFFICES ASSUME EncoderInit PROVE EncInv
  OBVIOUS
<1>1. EncoderTypeOK
  BY EmptyFacts DEF EncoderInit, EncoderTypeOK, Empty
<1>2. Bookkept
  <2>1. ASSUME NEW p \in UsedPools
        PROVE  [ i \in DOMAIN Empty.pools[p] |-> Empty.pools[p][i].base ] = << >>
    BY EmptyFacts
  <2>2. Bookkeeping(Empty) = [ p \in UsedPools |-> << >> ]
    BY <2>1 DEF Bookkeeping
  <2> QED  BY <2>2, EmptyFacts DEF EncoderInit, Bookkept
<1>3. OnlyKnownGapsAreStale
  BY DEF EncoderInit, OnlyKnownGapsAreStale
<1> QED  BY <1>1, <1>2, <1>3 DEF EncInv

LEMMA EncoderNextInvariant == EncInv /\ [EncoderNext]_encoderVars => EncInv'
<1>1. EncInv /\ UpdateViewport => EncInv'
  BY DEF EncInv, UpdateViewport, EncoderTypeOK, Bookkept, Bookkeeping, OnlyKnownGapsAreStale
<1>2. EncInv /\ UNCHANGED encoderVars => EncInv'
  BY DEF EncInv, encoderVars, EncoderTypeOK, Bookkept, Bookkeeping, OnlyKnownGapsAreStale, Inks
<1> QED
  BY <1>1, <1>2, EncodeFrameInvariant, EncodeFrameFailsInvariant DEF EncoderNext

LEMMA EncoderInvariant == EncoderSpec => []EncInv
BY EncoderInitInvariant, EncoderNextInvariant, PTL DEF EncoderSpec

\* Every variable of the encoder keeps its type.
THEOREM EncoderTypeCorrect == EncoderSpec => []EncoderTypeOK
BY EncoderInvariant, PTL DEF EncInv

\* A repainted rectangle leaves the picture a full redraw would.
THEOREM PictureIsCurrent == EncoderSpec => []OnlyKnownGapsAreStale
BY EncoderInvariant, PTL DEF EncInv

(***************************************************************************)
(* The frame that costs nothing.                                           *)
(***************************************************************************)
Repeated ==
  (/\ ~sticky /\ ~sticky' /\ ~failed /\ ~failed'
   /\ frame'.pools = frame.pools /\ Quiet(frame'))
    => pass' = "skipped"

LEMMA QuietIsClean ==
  ASSUME EncoderTypeOK, Bookkept, ~sticky, ~failed,
         NEW coming \in Encodable, coming.pools = frame.pools, Quiet(coming)
  PROVE  ~NeedsFullRedraw(coming) /\ Scissor(coming) = {}
<1>1. frame.pools \in Drawn
  BY DEF EncoderTypeOK, Drawn
<1>2. ~NeedsFullRedraw(coming)
  BY <1>1, BookkeepingFacts DEF NeedsFullRedraw, Quiet, Bookkept
<1>3. ASSUME NEW p \in UsedPools, NEW i \in DOMAIN coming.pools[p] PROVE ~Dirty(coming, p, i)
  <2>1. p \notin Restless
    <3>1. \A q \in UsedPools \cap Restless : DOMAIN coming.pools[q] = {}
      BY DEF Quiet
    <3> QED  BY <3>1, <1>3
  <2> QED  BY <2>1 DEF Dirty, Quiet
<1>4. DirtyCells(coming) = {}
  BY <1>3 DEF DirtyCells
<1> QED  BY <1>2, <1>4, HullOfNothing DEF Scissor

LEMMA RepeatedStep == EncInv /\ [EncoderNext]_encoderVars => [Repeated]_encoderVars
<1> SUFFICES ASSUME EncInv, EncoderNext, ~sticky, ~sticky', ~failed, ~failed',
                    frame'.pools = frame.pools, Quiet(frame')
             PROVE  pass' = "skipped"
  BY DEF Repeated
<1>1. EncodeFrame
  BY DEF EncoderNext, UpdateViewport, EncodeFrameFails
<1>2. PICK coming \in Encodable :
        /\ RedrawFull(coming) \/ RedrawScissored(coming)
           \/ RedrawUploaded(coming) \/ RedrawNothing(coming)
        /\ frame' = coming
  BY <1>1, ArrivingIsEncodable DEF EncodeFrame
<1>3. ~NeedsFullRedraw(coming) /\ Scissor(coming) = {} /\ ~coming.uploads
  <2>1. Quiet(coming) /\ coming.pools = frame.pools
    BY <1>2
  <2> QED  BY <2>1, QuietIsClean DEF EncInv, Quiet
<1> QED  BY <1>2, <1>3 DEF RedrawFull, RedrawScissored, RedrawUploaded, RedrawNothing

\* A frame equal to the one before it, with nothing restless in it, costs no draw.
THEOREM RepeatedFrameIsSkipped == EncoderSpec => UnchangedFrameIsNotDrawn
BY EncoderInvariant, RepeatedStep, PTL DEF EncoderSpec, UnchangedFrameIsNotDrawn, Repeated
===============================================================================
