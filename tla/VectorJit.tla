----------------------------- MODULE VectorJit -----------------------------
(***************************************************************************)
(* The cache of vector icons of a running program.  An icon's field is      *)
(* generated by a one-shot worker thread; the logic thread gives it a cell   *)
(* of the atlas and attaches its texels to the frames it publishes until    *)
(* the render thread has acknowledged them; the render thread sees only the  *)
(* latest frame, applies its uploads and draws.  A full atlas gives up the   *)
(* least recently drawn icon, an edited file is generated again.            *)
(*                                                                         *)
(* The drain, the walk of the tree and the publication are steps of the     *)
(* logic thread, between which workers and the render thread go on.         *)
(***************************************************************************)
EXTENDS Naturals, Sequences, FiniteSets, Functions

CONSTANTS Handles,        \* icons, by the path of their file
          Cells,          \* of the atlas
          None,           \* no cell, no frame, nothing read yet
          MaxEdits,       \* bound: how often files are saved
          MaxDispatches,  \* bound: how many workers are started
          MaxAge          \* bound: ticks since the last use, counted no further

Contents == [version : 0 .. MaxEdits, good : BOOLEAN]
Fields   == [handle : Handles, version : 0 .. MaxEdits]

ASSUME VectorAssumption ==
  /\ IsFiniteSet(Cells) /\ None \notin Handles \cup Cells /\ None \notin Fields
  /\ {MaxEdits, MaxDispatches, MaxAge} \subseteq Nat

Uploads  == [cell : Cells, field : Fields, id : 1 .. MaxDispatches]
Draws    == [handle : Handles, cell : Cells, sent : BOOLEAN]
Frames   == [uploads : SUBSET Uploads, draws : SUBSET Draws]
Entries  == [state : {"absent", "pending", "resident", "regenerating", "failed"},
             cell : Cells \cup {None}, version : 0 .. MaxEdits, upload : 0 .. MaxDispatches,
             acked : BOOLEAN, age : 0 .. MaxAge]

VARIABLES file,        \* per icon: what its file holds
          edits, dispatches,
          changed,     \* asset_changes: saved files the watcher reported
          entry,       \* per icon: its cache entry
          free,        \* free_cells
          workers,     \* generations under way: the icon, and what was read
          results,     \* the channel from the workers
          uploadId,    \* next_upload_id
          phase,       \* where the logic thread is in its tick
          placed,      \* just_completed
          frame,       \* the frame being built
          slot,        \* the latest published frame
          acks,        \* the channel from the render thread
          texels,      \* per cell: the field the texture holds
          screen,      \* history: the icons of the frame last drawn, with their texels
          passedOver   \* history: icons edited while a worker was on them
vars == <<file, edits, dispatches, changed, entry, free, workers, results, uploadId, phase,
          placed, frame, slot, acks, texels, screen, passedOver>>
-----------------------------------------------------------------------------
Absent  == [state |-> "absent", cell |-> None, version |-> 0, upload |-> 0, acked |-> FALSE,
            age |-> 0]
Failed  == [Absent EXCEPT !.state = "failed"]
In(s)   == {h \in Handles : entry[h].state = s}
Empty   == [uploads |-> {}, draws |-> {}]
Worker(h) == [handle |-> h, read |-> None]

\* The candidates of alloc_cell_or_evict, and those used least recently.
Evictable == {h \in In("resident") : entry[h].acked}
Victims   == {h \in Evictable : \A o \in Evictable : entry[o].age <= entry[h].age}

Init ==
  /\ file = [h \in Handles |-> [version |-> 0, good |-> TRUE]]
  /\ edits = 0 /\ dispatches = 0 /\ changed = {}
  /\ entry = [h \in Handles |-> Absent]
  /\ free \in {s \in [1 .. Cardinality(Cells) -> Cells] : IsInjective(s)}
  /\ workers = {} /\ results = << >> /\ uploadId = 1
  /\ phase = "idle" /\ placed = {} /\ frame = Empty
  /\ slot = None /\ acks = {}
  /\ texels = [c \in Cells |-> None]
  /\ screen = {} /\ passedOver = {}

Save(h, good) ==
  /\ edits < MaxEdits
  /\ edits' = edits + 1
  /\ file' = [file EXCEPT ![h] = [version |-> edits + 1, good |-> good]]
  /\ changed' = changed \cup {h}
  /\ UNCHANGED <<dispatches, entry, free, workers, results, uploadId, phase, placed, frame, slot,
                 acks, texels, screen, passedOver>>

\* A worker reads the file, then generates and sends.
Read(w) ==
  /\ w.read = None
  /\ workers' = (workers \ {w}) \cup {[w EXCEPT !.read = file[w.handle]]}
  /\ UNCHANGED <<file, edits, dispatches, changed, entry, free, results, uploadId, phase, placed,
                 frame, slot, acks, texels, screen, passedOver>>

Deliver(w) ==
  /\ w.read # None
  /\ workers' = workers \ {w}
  /\ results' = Append(results, [handle |-> w.handle, content |-> w.read])
  /\ UNCHANGED <<file, edits, dispatches, changed, entry, free, uploadId, phase, placed, frame,
                 slot, acks, texels, screen, passedOver>>

\* A regeneration is started over a generation that is under way.
FaultyInvalidate(h) ==
  /\ phase = "idle" /\ h \in changed
  /\ changed' = changed \ {h}
  /\ \/ /\ entry[h].state \in {"resident", "pending"} /\ dispatches < MaxDispatches
        /\ entry' = [entry EXCEPT ![h].state = "regenerating"]
        /\ workers' = workers \cup {Worker(h)}
        /\ dispatches' = dispatches + 1
        /\ passedOver' = passedOver \ {h}
     \/ /\ entry[h].state = "failed"
        /\ entry' = [entry EXCEPT ![h] = Absent]
        /\ UNCHANGED <<workers, dispatches, passedOver>>
     \/ /\ entry[h].state = "regenerating"
        /\ passedOver' = passedOver \cup {h}
        /\ UNCHANGED <<entry, workers, dispatches>>
     \/ /\ entry[h].state = "absent"
        /\ UNCHANGED <<entry, workers, dispatches, passedOver>>
  /\ UNCHANGED <<file, edits, free, results, uploadId, phase, placed, frame, slot, acks, texels,
                 screen>>

(* A resident icon keeps its cell and is generated again; a failed one is   *)
(* forgotten; one that a worker is on is left alone.                        *)
Invalidate(h) ==
  /\ phase = "idle" /\ h \in changed
  /\ changed' = changed \ {h}
  /\ \/ /\ entry[h].state = "resident" /\ dispatches < MaxDispatches
        /\ entry' = [entry EXCEPT ![h].state = "regenerating"]
        /\ workers' = workers \cup {Worker(h)}
        /\ dispatches' = dispatches + 1
        /\ passedOver' = passedOver \ {h}
     \/ /\ entry[h].state = "failed"
        /\ entry' = [entry EXCEPT ![h] = Absent]
        /\ UNCHANGED <<workers, dispatches, passedOver>>
     \/ /\ entry[h].state \in {"pending", "regenerating"}
        /\ passedOver' = passedOver \cup {h}
        /\ UNCHANGED <<entry, workers, dispatches>>
     \/ /\ entry[h].state = "absent"
        /\ UNCHANGED <<entry, workers, dispatches, passedOver>>
  /\ UNCHANGED <<file, edits, free, results, uploadId, phase, placed, frame, slot, acks, texels,
                 screen>>

\* The tick goes up, and what was acknowledged since the last one is marked.
BeginDrain ==
  /\ phase = "idle"
  /\ phase' = "draining" /\ placed' = {} /\ frame' = Empty
  /\ acks' = {}
  /\ entry' = [h \in Handles |->
                 IF entry[h].state # "resident" THEN entry[h]
                 ELSE [entry[h] EXCEPT !.acked = @ \/ entry[h].upload \in acks,
                                       !.age = IF @ < MaxAge THEN @ + 1 ELSE @]]
  /\ UNCHANGED <<file, edits, dispatches, changed, free, workers, results, uploadId, slot, texels,
                 screen, passedOver>>

UploadOf(h, e) == [cell |-> e.cell, field |-> [handle |-> h, version |-> e.version],
                   id |-> e.upload]

\* Every upload has the same identity.
FaultyPlace(h, content, c, entries) ==
  LET e == [state |-> "resident", cell |-> c, version |-> content.version, upload |-> uploadId,
            acked |-> FALSE, age |-> 0]
  IN /\ entry' = [entries EXCEPT ![h] = e]
     /\ frame' = [frame EXCEPT !.uploads = @ \cup {UploadOf(h, e)}]
     /\ placed' = placed \cup {h}
     /\ uploadId' = uploadId

\* place_glyph
Place(h, content, c, entries) ==
  LET e == [state |-> "resident", cell |-> c, version |-> content.version, upload |-> uploadId,
            acked |-> FALSE, age |-> 0]
  IN /\ entry' = [entries EXCEPT ![h] = e]
     /\ frame' = [frame EXCEPT !.uploads = @ \cup {UploadOf(h, e)}]
     /\ placed' = placed \cup {h}
     /\ uploadId' = uploadId + 1

\* Every result goes where its entry is, whether it has a cell or not.
FaultyPlaceRegenerated ==
  LET r == Head(results)
  IN /\ r.content.good
     /\ Place(r.handle, r.content, entry[r.handle].cell, entry)
     /\ UNCHANGED free

PlaceRegenerated ==
  LET r == Head(results)
  IN /\ r.content.good /\ entry[r.handle].state = "regenerating"
     /\ Place(r.handle, r.content, entry[r.handle].cell, entry)
     /\ UNCHANGED free

PlaceInFreeCell ==
  LET r == Head(results)
  IN /\ r.content.good /\ entry[r.handle].state # "regenerating" /\ free # << >>
     /\ Place(r.handle, r.content, free[Len(free)], entry)
     /\ free' = SubSeq(free, 1, Len(free) - 1)

\* The least recently drawn icon whose texels are in the texture makes room.
PlaceOverVictim ==
  LET r == Head(results)
  IN /\ r.content.good /\ entry[r.handle].state # "regenerating" /\ free = << >>
     /\ \E h \in Victims : Place(r.handle, r.content, entry[h].cell, [entry EXCEPT ![h] = Absent])
     /\ UNCHANGED free

NoRoom ==
  LET r == Head(results)
  IN /\ r.content.good /\ entry[r.handle].state # "regenerating" /\ free = << >> /\ Victims = {}
     /\ entry' = [entry EXCEPT ![r.handle] = Failed]
     /\ UNCHANGED <<free, placed, frame, uploadId>>

GenerationFailed ==
  LET r == Head(results)
  IN /\ ~r.content.good
     /\ entry' = [entry EXCEPT ![r.handle] = Failed]
     /\ UNCHANGED <<free, placed, frame, uploadId>>

TakeResult ==
  /\ phase = "draining" /\ results # << >>
  /\ PlaceRegenerated \/ PlaceInFreeCell \/ PlaceOverVictim \/ NoRoom \/ GenerationFailed
  /\ results' = Tail(results)
  /\ UNCHANGED <<file, edits, dispatches, changed, workers, phase, slot, acks, texels, screen,
                 passedOver>>

\* An upload is sent once.
FaultyEndDrain ==
  /\ phase = "draining" /\ results = << >>
  /\ phase' = "painting"
  /\ UNCHANGED <<file, edits, dispatches, changed, entry, free, workers, results, uploadId,
                 placed, frame, slot, acks, texels, screen, passedOver>>

\* What was not acknowledged is sent again, unless it was first sent just now.
EndDrain ==
  /\ phase = "draining" /\ results = << >>
  /\ phase' = "painting"
  /\ frame' = [frame EXCEPT !.uploads = @ \cup
                 {UploadOf(h, entry[h]) : h \in {o \in In("resident") \ placed : ~entry[o].acked}}]
  /\ UNCHANGED <<file, edits, dispatches, changed, entry, free, workers, results, uploadId,
                 placed, slot, acks, texels, screen, passedOver>>

(* The walk of the tree comes to an icon: lookup_or_dispatch.  `sent` is     *)
(* history: whether the texels it is drawn with are known to be on their way *)
(* or in the texture.                                                        *)
DrawResident(h) ==
  /\ entry[h].state \in {"resident", "regenerating"}
  /\ entry' = [entry EXCEPT ![h].age = IF entry[h].state = "resident" THEN 0 ELSE @]
  /\ frame' = [frame EXCEPT !.draws = @ \cup
                 {[handle |-> h, cell |-> entry[h].cell,
                   sent |-> entry[h].state = "resident" \/ entry[h].acked]}]
  /\ UNCHANGED <<workers, dispatches, passedOver>>

Dispatch(h) ==
  /\ entry[h].state = "absent" /\ dispatches < MaxDispatches
  /\ entry' = [entry EXCEPT ![h] = [Absent EXCEPT !.state = "pending"]]
  /\ workers' = workers \cup {Worker(h)}
  /\ dispatches' = dispatches + 1
  /\ passedOver' = passedOver \ {h}
  /\ UNCHANGED frame

Lookup(h) ==
  /\ phase = "painting"
  /\ DrawResident(h) \/ Dispatch(h)
  /\ UNCHANGED <<file, edits, changed, free, results, uploadId, phase, placed, slot, acks, texels,
                 screen>>

\* The frame replaces one the render thread did not get to.
Publish ==
  /\ phase = "painting"
  /\ phase' = "idle"
  /\ slot' = frame
  /\ frame' = Empty /\ placed' = {}
  /\ UNCHANGED <<file, edits, dispatches, changed, entry, free, workers, results, uploadId, acks,
                 texels, screen, passedOver>>

\* The render thread: apply_uploads, the acknowledgements, the draw.
Present ==
  /\ slot # None
  /\ LET after == [c \in Cells |-> IF \E u \in slot.uploads : u.cell = c
                                     THEN (CHOOSE u \in slot.uploads : u.cell = c).field
                                     ELSE texels[c]]
     IN /\ texels' = after
        /\ screen' = {[draw |-> d, texels |-> after[d.cell]] : d \in slot.draws}
  /\ acks' = acks \cup {u.id : u \in slot.uploads}
  /\ slot' = None
  /\ UNCHANGED <<file, edits, dispatches, changed, entry, free, workers, results, uploadId, phase,
                 placed, frame, passedOver>>

Next ==
  \/ \E h \in Handles, good \in BOOLEAN : Save(h, good)
  \/ \E w \in workers : Read(w) \/ Deliver(w)
  \/ \E h \in Handles : Invalidate(h) \/ Lookup(h)
  \/ BeginDrain \/ TakeResult \/ EndDrain \/ Publish \/ Present

Spec == Init /\ [][Next]_vars
-----------------------------------------------------------------------------
TypeOK ==
  /\ file \in [Handles -> Contents] /\ changed \subseteq Handles
  /\ edits \in 0 .. MaxEdits /\ dispatches \in 0 .. MaxDispatches
  /\ entry \in [Handles -> Entries]
  /\ free \in Seq(Cells) /\ IsInjective(free)
  /\ workers \subseteq [handle : Handles, read : Contents \cup {None}]
  /\ results \in Seq([handle : Handles, content : Contents])
  /\ uploadId \in 1 .. MaxDispatches + 1
  /\ phase \in {"idle", "draining", "painting"} /\ placed \subseteq Handles
  /\ frame \in Frames /\ slot \in Frames \cup {None} /\ acks \subseteq 1 .. MaxDispatches
  /\ texels \in [Cells -> Fields \cup {None}]
  /\ passedOver \subseteq Handles

Holders == {h \in Handles : entry[h].cell # None}

(* No two icons are drawn from one cell, none from a cell that is free, and  *)
(* no frame writes a cell twice: through placements, evictions and           *)
(* regenerations that keep their cell.                                       *)
CellsAreHeldOnce ==
  /\ \A h, o \in Holders : entry[h].cell = entry[o].cell => h = o
  /\ \A h \in Holders : entry[h].cell \notin Range(free)
  /\ \A u, v \in frame.uploads : u.cell = v.cell => u = v

(* An icon has one worker, or one result in the channel, exactly while its   *)
(* entry waits for it: no two results race for one cell.                     *)
OneGenerationEach ==
  \A h \in Handles :
    Cardinality({w \in workers : w.handle = h})
      + Cardinality({n \in 1 .. Len(results) : results[n].handle = h})
    = IF entry[h].state \in {"pending", "regenerating"} THEN 1 ELSE 0

(* A cell has one icon, and an icon one generation.                          *)
OneOwnerEach == CellsAreHeldOnce /\ OneGenerationEach

(* What is drawn is the icon that was asked for, though frames are skipped   *)
(* and cells change hands.  Known gap, in `sent`: an icon edited before its  *)
(* texels were acknowledged is drawn from its cell and no longer sent.       *)
DrawnIsTheIcon ==
  \A s \in screen : s.draw.sent =>
    s.texels # None /\ s.texels.handle = s.draw.handle

(* An acknowledged icon is in the texture as it was generated last, and stays *)
(* there until its cell is given away.                                       *)
AcknowledgedIsInTexture ==
  \A h \in In("resident") : entry[h].acked =>
    texels[entry[h].cell] = [handle |-> h, version |-> entry[h].version]

(* An icon whose file was saved shows the saved field once nothing is left   *)
(* to be noticed, save for one that was saved while a worker was on it.      *)
ResidentIsCurrent ==
  \A h \in In("resident") \ (changed \cup passedOver) : entry[h].version = file[h].version

(* The texture holds the field that was saved last, once the render thread   *)
(* has said that it has it and nothing is left to be noticed.               *)
TextureIsCurrent == AcknowledgedIsInTexture /\ ResidentIsCurrent
=============================================================================
