--------------------------- MODULE VectorJitProofs ---------------------------
(***************************************************************************)
(* Proofs about the vector glyph JIT for every set of icons, every atlas    *)
(* and every number of saves, workers and ticks.                            *)
(***************************************************************************)
EXTENDS VectorJit, FiniteSetTheorems, TLAPS

(***************************************************************************)
(* The inductive invariant, in the parts the proofs below need together.    *)
(***************************************************************************)

Waits(h)   == entry[h].state \in {"pending", "regenerating"}
HasCell(h) == entry[h].state \in {"resident", "regenerating"}
Field(h)   == [handle |-> h, version |-> entry[h].version]

\* Workers under way, results in the channel and cells given are all paid for
\* by a dispatch: what keeps the identity of an upload within its bound.
Counted ==
  /\ IsFiniteSet(workers)
  /\ uploadId + Cardinality(workers) + Len(results) <= dispatches + 1

\* OneGenerationEach without counting.
OneGeneration ==
  /\ \A w, x \in workers : w.handle = x.handle => w = x
  /\ \A n, m \in 1 .. Len(results) : results[n].handle = results[m].handle => n = m
  /\ \A w \in workers, n \in 1 .. Len(results) : w.handle # results[n].handle
  /\ \A h \in Handles :
       Waits(h) <=> \/ \E w \in workers : w.handle = h
                    \/ \E n \in 1 .. Len(results) : results[n].handle = h

\* A cell is given with an upload's identity, and taken back with its entry.
Given ==
  \A h \in Handles : /\ entry[h].cell # None <=> HasCell(h)
                     /\ HasCell(h) => entry[h].upload # 0

Owners ==
  /\ \A h, o \in Holders : entry[h].cell = entry[o].cell => h = o
  /\ \A h \in Holders : entry[h].cell \notin Range(free)

\* The frame being built uploads icons that wait for an acknowledgement, all
\* of them once the drain is over, and draws those that have a cell.
Building ==
  /\ phase = "idle" => frame = Empty
  /\ \A u \in frame.uploads : \E h \in In("resident") :
       ~entry[h].acked /\ u = UploadOf(h, entry[h])
  /\ \A h \in In("resident") :
       \/ phase = "draining" /\ h \in placed
       \/ phase = "painting" /\ ~entry[h].acked
       => UploadOf(h, entry[h]) \in frame.uploads
  /\ phase = "draining" => frame.draws = {}
  /\ \A d \in frame.draws : d.sent =>
       /\ entry[d.handle].cell = d.cell
       /\ entry[d.handle].state = "resident" \/ (HasCell(d.handle) /\ entry[d.handle].acked)

\* An upload has one identity, which names one icon and one cell.
Identities ==
  /\ \A h \in Handles : HasCell(h) => entry[h].upload \in 1 .. uploadId - 1
  /\ \A h, o \in Handles :
       HasCell(h) /\ HasCell(o) /\ entry[h].upload = entry[o].upload => h = o
  /\ \A i \in acks : i < uploadId

\* An icon's upload is in the slot as it is, or not at all.
SlotIsIdentified ==
  slot # None =>
    /\ \A u, v \in slot.uploads : u.cell = v.cell => u = v
    /\ \A u \in slot.uploads : u.id < uploadId
    /\ \A u \in slot.uploads, h \in Handles :
         HasCell(h) /\ u.id = entry[h].upload => u = UploadOf(h, entry[h])

\* The texture has the field of the icon, and the frame waiting in the slot
\* would write no other over it.
Settled(h) ==
  /\ texels[entry[h].cell] = Field(h)
  /\ slot # None => \A u \in slot.uploads : u.cell = entry[h].cell => u.field = Field(h)

AckedIsSettled ==
  \A h \in Handles : HasCell(h) /\ (entry[h].acked \/ entry[h].upload \in acks) => Settled(h)

\* A published frame brings the texels of what it draws, or they are there.
SlotIsDrawable ==
  slot # None => \A d \in slot.draws : d.sent =>
    \/ \E u \in slot.uploads : u.cell = d.cell /\ u.field.handle = d.handle
    \/ /\ texels[d.cell] # None /\ texels[d.cell].handle = d.handle
       /\ \A u \in slot.uploads : u.cell # d.cell

\* Only an icon saved since, or while a worker was on it, is out of date.
UpToDate ==
  LET noticed == Handles \ (changed \cup passedOver)
  IN  /\ \A w \in workers : w.handle \in noticed /\ w.read # None => w.read = file[w.handle]
      /\ \A n \in 1 .. Len(results) :
           results[n].handle \in noticed => results[n].content = file[results[n].handle]
      /\ \A h \in noticed \cap In("resident") : entry[h].version = file[h].version

(***************************************************************************)
(* Type correctness, with the count that bounds the identities.             *)
(***************************************************************************)

LEMMA ConstantFacts ==
  /\ MaxEdits \in Nat /\ MaxDispatches \in Nat /\ MaxAge \in Nat
  /\ None \notin Handles /\ None \notin Cells /\ None \notin Fields /\ IsFiniteSet(Cells)
BY VectorAssumption

LEMMA EntryFacts ==
  /\ Absent \in Entries /\ Failed \in Entries
  /\ Absent.state = "absent" /\ Absent.cell = None
  /\ Failed.state = "failed" /\ Failed.cell = None
  /\ Empty \in Frames /\ Empty.uploads = {} /\ Empty.draws = {}
<1>1. Absent \in Entries /\ Absent.state = "absent" /\ Absent.cell = None
  BY ConstantFacts DEF Absent, Entries
<1>3. Failed \in Entries /\ Failed.state = "failed" /\ Failed.cell = None
  BY <1>1 DEF Failed, Entries
<1>4. Empty \in Frames /\ Empty.uploads = {} /\ Empty.draws = {}
  BY DEF Empty, Frames
<1> QED  BY <1>1, <1>3, <1>4

LEMMA UploadTypes ==
  ASSUME NEW h \in Handles, NEW e \in Entries, e.cell # None, e.upload # 0
  PROVE  UploadOf(h, e) \in Uploads
BY ConstantFacts DEF UploadOf, Uploads, Entries, Fields

\* place_glyph keeps the types while identities are left.
LEMMA PlaceTypes ==
  ASSUME TypeOK, NEW h \in Handles, NEW content \in Contents, NEW c \in Cells,
         NEW entries \in [Handles -> Entries], uploadId <= MaxDispatches,
         Place(h, content, c, entries)
  PROVE  /\ entry' \in [Handles -> Entries] /\ frame' \in Frames
         /\ placed' \subseteq Handles /\ uploadId' \in 1 .. MaxDispatches + 1
<1> DEFINE e == [state |-> "resident", cell |-> c, version |-> content.version,
                 upload |-> uploadId, acked |-> FALSE, age |-> 0]
<1>1. uploadId \in 1 .. MaxDispatches
  BY ConstantFacts DEF TypeOK
<1>2. e \in Entries
  BY <1>1, ConstantFacts DEF Entries, Contents
<1>3. e.cell # None /\ e.upload # 0
  BY <1>1, ConstantFacts
<1>4. UploadOf(h, e) \in Uploads
  BY <1>2, <1>3, UploadTypes
<1>5. /\ entry' = [entries EXCEPT ![h] = e]
      /\ frame' = [frame EXCEPT !.uploads = @ \cup {UploadOf(h, e)}]
      /\ placed' = placed \cup {h} /\ uploadId' = uploadId + 1
  BY DEF Place
<1> HIDE DEF e
<1>6. frame' \in Frames
  BY <1>4, <1>5 DEF TypeOK, Frames
<1> QED  BY <1>1, <1>2, <1>5, <1>6, ConstantFacts DEF TypeOK

LEMMA HeadTailFacts ==
  ASSUME NEW S, NEW q \in Seq(S), q # << >>
  PROVE  /\ Head(q) = q[1] /\ Head(q) \in S /\ Tail(q) \in Seq(S)
         /\ Len(q) \in Nat /\ Len(q) >= 1 /\ Len(Tail(q)) = Len(q) - 1
         /\ \A n \in 1 .. Len(Tail(q)) : Tail(q)[n] = q[n + 1]
OBVIOUS

\* Reading a result and leaving the rest.
LEMMA ResultFacts ==
  ASSUME TypeOK, results # << >>
  PROVE  /\ Head(results) = results[1] /\ Head(results).handle \in Handles
         /\ Head(results).content \in Contents
         /\ Tail(results) \in Seq([handle : Handles, content : Contents])
         /\ Len(results) \in Nat /\ Len(Tail(results)) = Len(results) - 1
         /\ \A n \in 1 .. Len(Tail(results)) : Tail(results)[n] = results[n + 1]
<1>1. results \in Seq([handle : Handles, content : Contents])
  BY DEF TypeOK
<1>2. Head(results) \in [handle : Handles, content : Contents]
  BY <1>1, HeadTailFacts
<1> QED  BY <1>1, <1>2, HeadTailFacts

LEMMA WorkerSetFacts ==
  ASSUME TypeOK, Counted
  PROVE  /\ Cardinality(workers) \in Nat /\ Len(results) \in Nat
         /\ uploadId \in Nat /\ dispatches \in Nat
         /\ \A w : /\ IsFiniteSet(workers \cup {w}) /\ IsFiniteSet(workers \ {w})
                   /\ Cardinality(workers \cup {w}) <= Cardinality(workers) + 1
                   /\ w \in workers => Cardinality(workers \ {w}) = Cardinality(workers) - 1
<1>1. IsFiniteSet(workers) /\ Cardinality(workers) \in Nat
  BY FS_CardinalityType DEF Counted
<1>2. Len(results) \in Nat /\ uploadId \in Nat /\ dispatches \in Nat
  BY ConstantFacts DEF TypeOK
<1>3. ASSUME NEW w
      PROVE  /\ IsFiniteSet(workers \cup {w})
             /\ Cardinality(workers \cup {w}) <= Cardinality(workers) + 1
  BY <1>1, FS_AddElement
<1>4. ASSUME NEW w
      PROVE  /\ IsFiniteSet(workers \ {w})
             /\ w \in workers => Cardinality(workers \ {w}) = Cardinality(workers) - 1
  BY <1>1, FS_RemoveElement
<1> QED  BY <1>1, <1>2, <1>3, <1>4

\* A result in the channel leaves an identity for its upload.
LEMMA IdentityLeft ==
  ASSUME TypeOK, Counted, results # << >>
  PROVE  uploadId <= MaxDispatches
<1>1. Len(results) >= 1
  <2>1. results \in Seq([handle : Handles, content : Contents])
    BY DEF TypeOK
  <2> QED  BY <2>1, HeadTailFacts
<1> QED  BY <1>1, WorkerSetFacts, ConstantFacts DEF TypeOK, Counted

LEMMA InitTypes == Init => TypeOK /\ Counted /\ Given
<1> SUFFICES ASSUME Init PROVE TypeOK /\ Counted /\ Given
  OBVIOUS
<1> USE ConstantFacts, EntryFacts DEF Init
<1>1. free \in Seq(Cells) /\ IsInjective(free)
  <2>1. Cardinality(Cells) \in Nat
    BY FS_CardinalityType
  <2> QED  BY <2>1
<1>2. TypeOK
  BY <1>1 DEF TypeOK, Contents
<1>3. Counted
  BY FS_EmptySet DEF Counted
<1>4. Given
  BY DEF Given, HasCell
<1> QED  BY <1>2, <1>3, <1>4

\* The cells and the results TakeResult may meet.
LEMMA TakeCases ==
  ASSUME TypeOK, Counted, Given, TakeResult
  PROVE  /\ results # << >> /\ phase = "draining" /\ results' = Tail(results)
         /\ uploadId \in 1 .. MaxDispatches
         /\ UNCHANGED <<file, edits, dispatches, changed, workers, phase, slot, acks,
                        texels, screen, passedOver>>
         /\ LET r == Head(results)
            IN  \/ /\ entry[r.handle].state = "regenerating" /\ entry[r.handle].cell \in Cells
                   /\ Place(r.handle, r.content, entry[r.handle].cell, entry)
                   /\ free' = free
                \/ /\ entry[r.handle].state # "regenerating"
                   /\ free # << >> /\ free[Len(free)] \in Cells
                   /\ Place(r.handle, r.content, free[Len(free)], entry)
                   /\ free' = SubSeq(free, 1, Len(free) - 1)
                \/ /\ entry[r.handle].state # "regenerating" /\ free' = free
                   /\ \E h \in In("resident") :
                        /\ entry[h].acked /\ entry[h].cell \in Cells
                        /\ Place(r.handle, r.content, entry[h].cell,
                                 [entry EXCEPT ![h] = Absent])
                \/ /\ entry' = [entry EXCEPT ![r.handle] = Failed]
                   /\ UNCHANGED <<free, placed, frame, uploadId>>
<1> DEFINE r == Head(results)
<1>1. /\ results # << >> /\ phase = "draining" /\ results' = Tail(results)
      /\ UNCHANGED <<file, edits, dispatches, changed, workers, phase, slot, acks,
                     texels, screen, passedOver>>
      /\ PlaceRegenerated \/ PlaceInFreeCell \/ PlaceOverVictim \/ NoRoom \/ GenerationFailed
  BY DEF TakeResult
<1>2. uploadId \in 1 .. MaxDispatches
  BY <1>1, IdentityLeft, ConstantFacts DEF TypeOK
<1>3. r.handle \in Handles
  BY <1>1, ResultFacts
<1>4. \A h \in Handles : HasCell(h) => entry[h].cell \in Cells
  BY DEF TypeOK, Given, Entries
<1>5. CASE PlaceRegenerated
  BY <1>1, <1>2, <1>3, <1>4, <1>5 DEF PlaceRegenerated, HasCell
<1>6. CASE PlaceInFreeCell
  <2>1. free[Len(free)] \in Cells
    BY <1>6 DEF PlaceInFreeCell, TypeOK
  <2> QED  BY <1>1, <1>2, <1>6, <2>1 DEF PlaceInFreeCell
<1>7. CASE PlaceOverVictim
  <2>1. PICK h \in Victims : Place(r.handle, r.content, entry[h].cell, [entry EXCEPT ![h] = Absent])
    BY <1>7 DEF PlaceOverVictim
  <2>2. h \in In("resident") /\ entry[h].acked /\ entry[h].cell \in Cells
    BY <1>4 DEF Victims, Evictable, In, HasCell
  <2> QED  BY <1>1, <1>2, <1>7, <2>1, <2>2 DEF PlaceOverVictim
<1>8. CASE NoRoom \/ GenerationFailed
  BY <1>1, <1>2, <1>8 DEF NoRoom, GenerationFailed
<1> QED  BY <1>1, <1>5, <1>6, <1>7, <1>8

LEMMA TakeTypes ==
  ASSUME TypeOK, Counted, Given, TakeResult
  PROVE  TypeOK' /\ Counted' /\ Given'
<1> DEFINE r == Head(results)
<1>1. r.handle \in Handles /\ r.content \in Contents /\ results # << >>
  BY TakeCases, ResultFacts
<1>2. /\ results' \in Seq([handle : Handles, content : Contents])
      /\ Len(results') = Len(results) - 1
  BY <1>1, TakeCases, ResultFacts
<1>3. uploadId \in 1 .. MaxDispatches /\ uploadId <= MaxDispatches
  BY TakeCases, ConstantFacts
<1>4. entry \in [Handles -> Entries]
  BY DEF TypeOK
<1>5. ASSUME NEW c \in Cells, NEW entries \in [Handles -> Entries],
             Place(r.handle, r.content, c, entries),
             \A h \in Handles : entries[h] = entry[h] \/ entries[h] = Absent
      PROVE  /\ entry' \in [Handles -> Entries] /\ frame' \in Frames
             /\ placed' \subseteq Handles /\ uploadId' \in 1 .. MaxDispatches + 1
             /\ uploadId' = uploadId + 1 /\ Given'
  <2>1. /\ entry' \in [Handles -> Entries] /\ frame' \in Frames
        /\ placed' \subseteq Handles /\ uploadId' \in 1 .. MaxDispatches + 1
    BY <1>1, <1>3, <1>5, PlaceTypes
  <2>2. uploadId' = uploadId + 1
    BY <1>5 DEF Place
  <2>3. /\ \A h \in Handles \ {r.handle} : entry'[h] = entries[h]
        /\ entry'[r.handle].state = "resident" /\ entry'[r.handle].cell = c
        /\ entry'[r.handle].upload = uploadId
    BY <1>1, <1>5 DEF Place
  <2>4. Given'
    BY <1>3, <1>5, <2>3, EntryFacts, ConstantFacts DEF Given, HasCell
  <2> QED  BY <2>1, <2>2, <2>4
<1>6. free' \in Seq(Cells) /\ IsInjective(free')
  <2>1. CASE free' = free
    BY <2>1 DEF TypeOK
  <2>2. CASE free # << >> /\ free' = SubSeq(free, 1, Len(free) - 1)
    BY <2>2 DEF TypeOK, IsInjective
  <2> QED  BY <2>1, <2>2, TakeCases
<1>7. /\ entry' \in [Handles -> Entries] /\ frame' \in Frames
      /\ placed' \subseteq Handles /\ uploadId' \in 1 .. MaxDispatches + 1
      /\ uploadId' = uploadId \/ uploadId' = uploadId + 1
      /\ Given'
  <2>1. CASE \E c \in Cells : Place(r.handle, r.content, c, entry)
    BY <1>4, <1>5, <2>1
  <2>2. CASE \E h \in In("resident"), c \in Cells :
               Place(r.handle, r.content, c, [entry EXCEPT ![h] = Absent])
    <3>1. PICK h \in In("resident"), c \in Cells :
                 Place(r.handle, r.content, c, [entry EXCEPT ![h] = Absent])
      BY <2>2
    <3>2. [entry EXCEPT ![h] = Absent] \in [Handles -> Entries]
      BY <1>4, EntryFacts
    <3>3. \A o \in Handles : [entry EXCEPT ![h] = Absent][o] \in {entry[o], Absent}
      BY <1>4
    <3> QED  BY <1>5, <3>1, <3>2, <3>3
  <2>3. CASE /\ entry' = [entry EXCEPT ![r.handle] = Failed]
             /\ UNCHANGED <<free, placed, frame, uploadId>>
    <3>1. entry' \in [Handles -> Entries]
      BY <1>4, <2>3, EntryFacts
    <3>2. Given'
      BY <1>4, <2>3, EntryFacts DEF Given, HasCell
    <3> QED  BY <2>3, <3>1, <3>2 DEF TypeOK
  <2> QED  BY <2>1, <2>2, <2>3, TakeCases
<1>8. TypeOK'
  BY <1>2, <1>6, <1>7, TakeCases DEF TypeOK
<1>9. Counted'
  <2>1. workers' = workers /\ dispatches' = dispatches
    BY TakeCases
  <2> QED  BY <1>2, <1>7, <2>1, WorkerSetFacts DEF Counted
<1> QED  BY <1>7, <1>8, <1>9

\* A drain marks what was acknowledged and lets time pass, and no more.
LEMMA DrainedEntry ==
  ASSUME TypeOK, BeginDrain, NEW h \in Handles
  PROVE  /\ entry'[h] \in Entries /\ entry'[h].state = entry[h].state
         /\ entry'[h].cell = entry[h].cell /\ entry'[h].upload = entry[h].upload
         /\ entry'[h].version = entry[h].version
         /\ entry'[h].acked =
              (entry[h].acked \/ (entry[h].state = "resident" /\ entry[h].upload \in acks))
<1> DEFINE e == entry[h]
<1> DEFINE acked == e.acked \/ e.upload \in acks
<1> DEFINE age == IF e.age < MaxAge THEN e.age + 1 ELSE e.age
<1>1. e \in Entries
  BY DEF TypeOK
<1>2. CASE e.state # "resident"
  <2>1. entry'[h] = e
    BY <1>2 DEF BeginDrain
  <2> QED  BY <1>1, <1>2, <2>1 DEF Entries
<1>3. CASE e.state = "resident"
  <2>1. entry'[h] = [e EXCEPT !.acked = acked, !.age = age]
    BY <1>3 DEF BeginDrain
  <2>2. acked \in BOOLEAN /\ age \in 0 .. MaxAge
    BY <1>1, ConstantFacts DEF Entries
  <2> HIDE DEF acked, age
  <2>3. /\ entry'[h] \in Entries /\ entry'[h].acked = acked
        /\ entry'[h].state = e.state /\ entry'[h].cell = e.cell
        /\ entry'[h].upload = e.upload /\ entry'[h].version = e.version
    BY <1>1, <2>1, <2>2 DEF Entries
  <2> QED  BY <1>3, <2>3 DEF acked
<1> QED  BY <1>2, <1>3

LEMMA NextTypes ==
  TypeOK /\ Counted /\ Given /\ [Next]_vars => TypeOK' /\ Counted' /\ Given'
<1> SUFFICES ASSUME TypeOK, Counted, Given, [Next]_vars
             PROVE  TypeOK' /\ Counted' /\ Given'
  OBVIOUS
<1> USE ConstantFacts
<1>0. entry \in [Handles -> Entries]
  BY DEF TypeOK
<1>1. ASSUME NEW h \in Handles, NEW good \in BOOLEAN, Save(h, good)
      PROVE  TypeOK' /\ Counted' /\ Given'
  <2>1. [version |-> edits + 1, good |-> good] \in Contents /\ edits' \in 0 .. MaxEdits
    BY <1>1 DEF Save, TypeOK, Contents
  <2>2. TypeOK'
    BY <1>1, <2>1 DEF Save, TypeOK
  <2> QED  BY <1>1, <2>2 DEF Save, Counted, Given, HasCell
<1>2. ASSUME NEW w \in workers, Read(w)
      PROVE  TypeOK' /\ Counted' /\ Given'
  <2> DEFINE x == [w EXCEPT !.read = file[w.handle]]
  <2>1. w \in [handle : Handles, read : Contents \cup {None}]
    BY DEF TypeOK
  <2>2. x \in [handle : Handles, read : Contents \cup {None}]
    BY <2>1 DEF TypeOK
  <2>3. workers' = (workers \ {w}) \cup {x}
    BY <1>2 DEF Read
  <2> HIDE DEF x
  <2>4. IsFiniteSet(workers') /\ Cardinality(workers') <= Cardinality(workers)
    <3>1. /\ IsFiniteSet(workers \ {w})
          /\ Cardinality(workers \ {w}) = Cardinality(workers) - 1
      BY WorkerSetFacts
    <3>2. /\ IsFiniteSet((workers \ {w}) \cup {x})
          /\ Cardinality((workers \ {w}) \cup {x}) <= Cardinality(workers \ {w}) + 1
      <4>1. Cardinality(workers \ {w}) \in Nat
        BY <3>1, FS_CardinalityType
      <4>2. /\ IsFiniteSet((workers \ {w}) \cup {x})
            /\ Cardinality((workers \ {w}) \cup {x})
                 = IF x \in workers \ {w} THEN Cardinality(workers \ {w})
                                          ELSE Cardinality(workers \ {w}) + 1
        BY <3>1, FS_AddElement
      <4> QED  BY <4>1, <4>2
    <3>3. Cardinality((workers \ {w}) \cup {x}) \in Nat
      BY <3>2, FS_CardinalityType
    <3> QED  BY <2>3, <3>1, <3>2, <3>3, WorkerSetFacts
  <2>5. Cardinality(workers') \in Nat
    BY <2>4, FS_CardinalityType
  <2>6. Counted'
    BY <1>2, <2>4, <2>5, WorkerSetFacts DEF Read, Counted
  <2>7. TypeOK'
    BY <1>2, <2>2, <2>3 DEF Read, TypeOK
  <2> QED  BY <1>2, <2>6, <2>7 DEF Read, Given, HasCell
<1>3. ASSUME NEW w \in workers, Deliver(w)
      PROVE  TypeOK' /\ Counted' /\ Given'
  <2>1. w \in [handle : Handles, read : Contents \cup {None}] /\ w.read # None
    BY <1>3 DEF TypeOK, Deliver
  <2>2. [handle |-> w.handle, content |-> w.read] \in [handle : Handles, content : Contents]
    BY <2>1
  <2>3. /\ results' \in Seq([handle : Handles, content : Contents])
        /\ Len(results') = Len(results) + 1
    BY <1>3, <2>2 DEF Deliver, TypeOK
  <2>4. TypeOK'
    BY <1>3, <2>3 DEF Deliver, TypeOK
  <2>5. Counted'
    <3>1. /\ IsFiniteSet(workers') /\ Cardinality(workers') = Cardinality(workers) - 1
          /\ UNCHANGED <<uploadId, dispatches>>
      BY <1>3, WorkerSetFacts DEF Deliver
    <3> QED  BY <2>3, <3>1, WorkerSetFacts DEF Counted
  <2> QED  BY <1>3, <2>4, <2>5 DEF Deliver, Given, HasCell
<1>4. ASSUME NEW h \in Handles, Worker(h) \in [handle : Handles, read : Contents \cup {None}]
      PROVE  Invalidate(h) \/ Lookup(h) => TypeOK' /\ Counted' /\ Given'
  <2>1. \A s \in {"pending", "regenerating"} :
          /\ [entry[h] EXCEPT !.state = s] \in Entries
          /\ [Absent EXCEPT !.state = s] \in Entries
    BY <1>0, EntryFacts DEF Entries
  <2>2. CASE /\ workers' = workers \cup {Worker(h)} /\ dispatches < MaxDispatches
             /\ dispatches' = dispatches + 1 /\ UNCHANGED <<results, uploadId>>
    <3>1. Counted'
      <4>1. /\ IsFiniteSet(workers') /\ Cardinality(workers') <= Cardinality(workers) + 1
            /\ Cardinality(workers') \in Nat
        BY <2>2, WorkerSetFacts, FS_CardinalityType
      <4> QED  BY <2>2, <4>1, WorkerSetFacts DEF Counted
    <3>2. ASSUME Invalidate(h)
          PROVE  entry' \in [Handles -> Entries] /\ Given' /\ TypeOK'
      <4>1. entry[h].state = "resident" /\ entry' = [entry EXCEPT ![h].state = "regenerating"]
        <5>1. dispatches' # dispatches
          BY <2>2, WorkerSetFacts
        <5> QED  BY <3>2, <5>1 DEF Invalidate
      <4>2. entry' \in [Handles -> Entries]
        BY <1>0, <2>1, <4>1
      <4>3. Given'
        BY <1>0, <4>1 DEF Given, HasCell, Entries
      <4>4. TypeOK'
        BY <1>4, <2>2, <3>2, <4>2 DEF Invalidate, TypeOK
      <4> QED  BY <4>2, <4>3, <4>4
    <3>3. ASSUME Lookup(h)
          PROVE  entry' \in [Handles -> Entries] /\ Given' /\ TypeOK'
      <4>1. /\ entry[h].state = "absent" /\ frame' = frame
            /\ entry' = [entry EXCEPT ![h] = [Absent EXCEPT !.state = "pending"]]
            /\ passedOver' = passedOver \ {h}
        <5>1. dispatches' # dispatches
          BY <2>2, WorkerSetFacts
        <5> QED  BY <3>3, <5>1 DEF Lookup, DrawResident, Dispatch
      <4>2. entry' \in [Handles -> Entries]
        BY <1>0, <2>1, <4>1
      <4>3. Given'
        BY <1>0, <4>1 DEF Given, HasCell, Absent
      <4>4. TypeOK'
        BY <1>4, <2>2, <3>3, <4>1, <4>2 DEF Lookup, TypeOK
      <4> QED  BY <4>2, <4>3, <4>4
    <3> QED  BY <3>1, <3>2, <3>3
  <2>3. ASSUME Invalidate(h), UNCHANGED <<workers, dispatches>>
        PROVE  TypeOK' /\ Counted' /\ Given'
    <3>1. entry' = entry \/ (entry[h].state = "failed" /\ entry' = [entry EXCEPT ![h] = Absent])
      BY <2>3, WorkerSetFacts DEF Invalidate
    <3>2. entry' \in [Handles -> Entries] /\ Given'
      BY <1>0, <3>1, EntryFacts DEF Given, HasCell
    <3> QED  BY <2>3, <3>2 DEF Invalidate, TypeOK, Counted
  <2>4. ASSUME Lookup(h), DrawResident(h)
        PROVE  TypeOK' /\ Counted' /\ Given'
    <3> DEFINE d == [handle |-> h, cell |-> entry[h].cell,
                     sent |-> entry[h].state = "resident" \/ entry[h].acked]
    <3>1. entry[h].cell \in Cells
      BY <1>0, <2>4 DEF DrawResident, Given, HasCell, Entries
    <3>2. d \in Draws
      BY <1>0, <3>1 DEF Draws, Entries
    <3>3. frame' = [frame EXCEPT !.draws = @ \cup {d}]
      BY <2>4 DEF DrawResident
    <3> HIDE DEF d
    <3>4. frame' \in Frames
      BY <3>2, <3>3 DEF TypeOK, Frames
    <3>5. entry' \in [Handles -> Entries] /\ Given'
      BY <1>0, <2>4 DEF DrawResident, Given, HasCell, Entries
    <3> QED  BY <2>4, <3>4, <3>5 DEF Lookup, DrawResident, TypeOK, Counted
  <2> QED  BY <2>2, <2>3, <2>4 DEF Invalidate, Lookup, Dispatch
<1>5. \A h \in Handles : Worker(h) \in [handle : Handles, read : Contents \cup {None}]
  BY DEF Worker
<1>6. CASE BeginDrain
  <2>1. \A h \in Handles :
          /\ entry'[h] \in Entries /\ entry'[h].state = entry[h].state
          /\ entry'[h].cell = entry[h].cell /\ entry'[h].upload = entry[h].upload
    BY <1>6, DrainedEntry
  <2>2. entry' = [h \in Handles |-> entry'[h]]
    BY <1>6 DEF BeginDrain
  <2>3. entry' \in [Handles -> Entries] /\ Given'
    BY <2>1, <2>2 DEF Given, HasCell
  <2> QED  BY <1>6, <2>3, EntryFacts DEF BeginDrain, TypeOK, Counted
<1>7. CASE EndDrain
  <2> DEFINE again == {UploadOf(h, entry[h]) : h \in {o \in In("resident") \ placed : ~entry[o].acked}}
  <2>1. \A h \in In("resident") : UploadOf(h, entry[h]) \in Uploads
    BY <1>0, UploadTypes DEF In, Given, HasCell
  <2>2. again \subseteq Uploads
    BY <2>1
  <2>3. frame' = [frame EXCEPT !.uploads = @ \cup again]
    BY <1>7 DEF EndDrain
  <2> HIDE DEF again
  <2>4. frame' \in Frames
    BY <2>2, <2>3 DEF TypeOK, Frames
  <2> QED  BY <1>7, <2>4 DEF EndDrain, TypeOK, Counted, Given, HasCell
<1>8. CASE Publish
  BY <1>8, EntryFacts DEF Publish, TypeOK, Counted, Given, HasCell
<1>9. CASE Present
  <2>1. slot \in Frames /\ slot.uploads \subseteq Uploads
    BY <1>9 DEF Present, TypeOK, Frames
  <2>2. acks' \subseteq 1 .. MaxDispatches
    BY <1>9, <2>1 DEF Present, TypeOK, Uploads
  <2>3. texels' \in [Cells -> Fields \cup {None}]
    <3>1. ASSUME NEW c \in Cells, \E u \in slot.uploads : u.cell = c
          PROVE  (CHOOSE u \in slot.uploads : u.cell = c).field \in Fields
      <4>1. (CHOOSE u \in slot.uploads : u.cell = c) \in slot.uploads
        BY <3>1
      <4> QED  BY <2>1, <4>1 DEF Uploads
    <3> QED  BY <1>9, <3>1 DEF Present, TypeOK
  <2> QED  BY <1>9, <2>2, <2>3 DEF Present, TypeOK, Counted, Given, HasCell
<1>10. CASE UNCHANGED vars
  BY <1>10 DEF vars, TypeOK, Counted, Given, HasCell
<1> QED
  BY <1>1, <1>2, <1>3, <1>4, <1>5, <1>6, <1>7, <1>8, <1>9, <1>10, TakeTypes DEF Next

LEMMA Typed == Spec => [](TypeOK /\ Counted /\ Given)
BY InitTypes, NextTypes, PTL DEF Spec

\* Every variable of the JIT keeps its type; in particular no upload's
\* identity goes beyond the number of workers started.
THEOREM TypeCorrect == Spec => []TypeOK
BY Typed, PTL

(***************************************************************************)
(* One generation of an icon at a time.                                    *)
(***************************************************************************)

\* What a result does to the entries: its own stops waiting, a victim's is
\* dropped, the others stay.
LEMMA TakenEntries ==
  ASSUME TypeOK, Counted, Given, TakeResult
  PROVE  LET r == Head(results)
         IN  /\ r = results[1] /\ r.handle \in Handles
             /\ entry'[r.handle].state \in {"resident", "failed"}
             /\ \A h \in Handles \ {r.handle} :
                  entry'[h] = entry[h] \/ (entry[h].state = "resident" /\ entry'[h] = Absent)
<1> DEFINE r == Head(results)
<1>1. r = results[1] /\ r.handle \in Handles
  BY TakeCases, ResultFacts
<1>2. entry \in [Handles -> Entries]
  BY DEF TypeOK
<1>3. CASE \E c : Place(r.handle, r.content, c, entry)
  BY <1>1, <1>2, <1>3 DEF Place
<1>4. CASE \E c : \E h \in In("resident") : Place(r.handle, r.content, c, [entry EXCEPT ![h] = Absent])
  BY <1>1, <1>2, <1>4 DEF Place, In
<1>5. CASE entry' = [entry EXCEPT ![r.handle] = Failed]
  BY <1>1, <1>2, <1>5, EntryFacts
<1> QED  BY <1>1, <1>3, <1>4, <1>5, TakeCases

LEMMA QuietGeneration ==
  ASSUME OneGeneration, UNCHANGED <<workers, results>>,
         \A h \in Handles : Waits(h)' <=> Waits(h)
  PROVE  OneGeneration'
BY DEF OneGeneration

\* A generation starts only where none is under way.
LEMMA StartGeneration ==
  ASSUME OneGeneration, NEW h \in Handles, ~Waits(h), Waits(h)',
         workers' = workers \cup {Worker(h)}, results' = results,
         \A o \in Handles \ {h} : Waits(o)' <=> Waits(o)
  PROVE  OneGeneration'
<1>1. Worker(h).handle = h
  BY DEF Worker
<1>2. /\ \A w \in workers : w.handle # h
      /\ \A n \in 1 .. Len(results) : results[n].handle # h
  BY DEF OneGeneration
<1> QED  BY <1>1, <1>2 DEF OneGeneration

LEMMA ReadGeneration ==
  ASSUME TypeOK, OneGeneration, NEW w \in workers, Read(w)
  PROVE  OneGeneration'
<1> DEFINE x == [w EXCEPT !.read = file[w.handle]]
<1>1. w \in [handle : Handles, read : Contents \cup {None}]
  BY DEF TypeOK
<1>2. x.handle = w.handle
  BY <1>1
<1>3. workers' = (workers \ {w}) \cup {x} /\ UNCHANGED <<results, entry>>
  BY DEF Read
<1> HIDE DEF x
<1>4. \A h : (\E y \in workers' : y.handle = h) <=> (\E y \in workers : y.handle = h)
  BY <1>2, <1>3
<1>5. \A y, z \in workers' : y.handle = z.handle => y = z
  BY <1>2, <1>3 DEF OneGeneration
<1>6. \A h : Waits(h)' <=> Waits(h)
  BY <1>3 DEF Waits
<1>7. \A y \in workers', n \in 1 .. Len(results') : y.handle # results'[n].handle
  BY <1>2, <1>3 DEF OneGeneration
<1> QED  BY <1>3, <1>4, <1>5, <1>6, <1>7 DEF OneGeneration

LEMMA DeliverGeneration ==
  ASSUME TypeOK, OneGeneration, NEW w \in workers, Deliver(w)
  PROVE  OneGeneration'
<1> DEFINE r == [handle |-> w.handle, content |-> w.read]
<1>1. results \in Seq([handle : Handles, content : Contents])
  BY DEF TypeOK
<1>2. workers' = workers \ {w} /\ results' = Append(results, r) /\ entry' = entry
  BY DEF Deliver
<1>3. r.handle = w.handle
  OBVIOUS
<1> HIDE DEF r
<1>4. /\ Len(results) \in Nat /\ Len(results') = Len(results) + 1
      /\ \A n \in 1 .. Len(results) : results'[n] = results[n]
      /\ results'[Len(results) + 1] = r
  BY <1>1, <1>2
<1>5. \A n \in 1 .. Len(results') : n \in 1 .. Len(results) \/ n = Len(results) + 1
  BY <1>4
<1>6. \A h : (\E n \in 1 .. Len(results') : results'[n].handle = h)
               <=> h = w.handle \/ \E n \in 1 .. Len(results) : results[n].handle = h
  BY <1>3, <1>4, <1>5
<1>7. \A h : (\E y \in workers' : y.handle = h)
               <=> h # w.handle /\ \E y \in workers : y.handle = h
  BY <1>2 DEF OneGeneration
<1>8. \A h : Waits(h)' <=> Waits(h)
  BY <1>2 DEF Waits
<1>9. \A h \in Handles :
        Waits(h)' <=> \/ \E y \in workers' : y.handle = h
                      \/ \E n \in 1 .. Len(results') : results'[n].handle = h
  BY <1>6, <1>7, <1>8 DEF OneGeneration
<1>10. \A n, m \in 1 .. Len(results') : results'[n].handle = results'[m].handle => n = m
  BY <1>3, <1>4, <1>5 DEF OneGeneration
<1>11. \A y \in workers', n \in 1 .. Len(results') : y.handle # results'[n].handle
  BY <1>2, <1>3, <1>4, <1>5 DEF OneGeneration
<1>12. \A y, z \in workers' : y.handle = z.handle => y = z
  BY <1>2 DEF OneGeneration
<1> QED  BY <1>9, <1>10, <1>11, <1>12 DEF OneGeneration

LEMMA TakeGeneration ==
  ASSUME TypeOK, Counted, Given, OneGeneration, TakeResult
  PROVE  OneGeneration'
<1>1. PICK g \in Handles :
        /\ results[1].handle = g
        /\ entry'[g].state \in {"resident", "failed"}
        /\ \A h \in Handles \ {g} :
             entry'[h] = entry[h] \/ (entry[h].state = "resident" /\ entry'[h] = Absent)
  BY TakenEntries
<1>2. /\ workers' = workers /\ Len(results) \in Nat /\ Len(results) >= 1
      /\ Len(results') = Len(results) - 1
      /\ \A n \in 1 .. Len(results') : results'[n] = results[n + 1]
  BY TakeCases, ResultFacts, HeadTailFacts DEF TypeOK
<1>3. \A h : (\E n \in 1 .. Len(results') : results'[n].handle = h)
               <=> h # g /\ \E n \in 1 .. Len(results) : results[n].handle = h
  <2>1. \A n \in 1 .. Len(results') : n + 1 \in 1 .. Len(results) /\ n + 1 # 1
    BY <1>2
  <2>2. \A n \in 1 .. Len(results) : n = 1 \/ (n - 1 \in 1 .. Len(results') /\ (n - 1) + 1 = n)
    BY <1>2
  <2>3. 1 \in 1 .. Len(results)
    BY <1>2
  <2>4. ASSUME NEW n \in 1 .. Len(results')
        PROVE  /\ results'[n].handle # g
               /\ \E m \in 1 .. Len(results) : results[m].handle = results'[n].handle
    BY <1>1, <1>2, <2>1, <2>3 DEF OneGeneration
  <2>5. ASSUME NEW n \in 1 .. Len(results), results[n].handle # g
        PROVE  \E m \in 1 .. Len(results') : results'[m].handle = results[n].handle
    <3>1. n - 1 \in 1 .. Len(results') /\ results'[n - 1] = results[(n - 1) + 1]
      BY <1>1, <1>2, <2>2, <2>5
    <3>2. (n - 1) + 1 = n
      BY <1>2
    <3> QED  BY <3>1, <3>2
  <2> QED  BY <2>4, <2>5
<1>4. /\ ~Waits(g)'
      /\ \A h \in Handles \ {g} : Waits(h)' <=> Waits(h)
  BY <1>1, EntryFacts DEF Waits
<1>5. \A w \in workers : w.handle # g
  BY <1>1, <1>2 DEF OneGeneration
<1>6. \A h \in Handles :
        Waits(h)' <=> \/ \E y \in workers' : y.handle = h
                      \/ \E n \in 1 .. Len(results') : results'[n].handle = h
  BY <1>1, <1>2, <1>3, <1>4, <1>5 DEF OneGeneration
<1>7. \A n, m \in 1 .. Len(results') : results'[n].handle = results'[m].handle => n = m
  <2> SUFFICES ASSUME NEW n \in 1 .. Len(results'), NEW m \in 1 .. Len(results'),
                      results'[n].handle = results'[m].handle
               PROVE  n = m
    OBVIOUS
  <2>1. n + 1 \in 1 .. Len(results) /\ m + 1 \in 1 .. Len(results)
    BY <1>2
  <2>2. n + 1 = m + 1
    BY <1>2, <2>1 DEF OneGeneration
  <2> QED  BY <2>2
<1>8. \A w \in workers', n \in 1 .. Len(results') : w.handle # results'[n].handle
  <2> SUFFICES ASSUME NEW n \in 1 .. Len(results')
               PROVE  \A w \in workers : w.handle # results'[n].handle
    BY <1>2
  <2>1. n + 1 \in 1 .. Len(results)
    BY <1>2
  <2> QED  BY <1>2, <2>1 DEF OneGeneration
<1> QED  BY <1>2, <1>6, <1>7, <1>8 DEF OneGeneration

LEMMA NextGeneration ==
  TypeOK /\ Counted /\ Given /\ OneGeneration /\ [Next]_vars => OneGeneration'
<1> SUFFICES ASSUME TypeOK, Counted, Given, OneGeneration, [Next]_vars
             PROVE  OneGeneration'
  OBVIOUS
<1>0. entry \in [Handles -> Entries] /\ dispatches \in Nat
  BY ConstantFacts DEF TypeOK
<1>1. ASSUME NEW h \in Handles, Invalidate(h) PROVE OneGeneration'
  <2>1. CASE entry[h].state = "resident"
    <3>1. /\ entry' = [entry EXCEPT ![h].state = "regenerating"]
          /\ workers' = workers \cup {Worker(h)} /\ results' = results
      BY <1>1, <2>1 DEF Invalidate
    <3>2. /\ entry'[h].state = "regenerating"
          /\ \A o \in Handles \ {h} : entry'[o] = entry[o]
      BY <1>0, <3>1 DEF Entries
    <3> QED  BY <2>1, <3>1, <3>2, StartGeneration DEF Waits
  <2>2. CASE entry[h].state # "resident"
    BY <1>0, <1>1, <2>2, QuietGeneration, EntryFacts DEF Invalidate, Waits
  <2> QED  BY <2>1, <2>2
<1>2. ASSUME NEW h \in Handles, Lookup(h) PROVE OneGeneration'
  <2>1. CASE DrawResident(h)
    BY <1>0, <1>2, <2>1, QuietGeneration DEF Lookup, DrawResident, Waits, Entries
  <2>2. CASE Dispatch(h)
    <3>1. entry'[h].state = "pending" /\ entry[h].state = "absent"
      BY <1>0, <2>2 DEF Dispatch, Absent
    <3> QED  BY <1>0, <1>2, <2>2, <3>1, StartGeneration DEF Lookup, Dispatch, Waits
  <2> QED  BY <1>2, <2>1, <2>2 DEF Lookup
<1>3. CASE BeginDrain
  BY <1>3, DrainedEntry, QuietGeneration DEF BeginDrain, Waits
<1>4. CASE (\E h \in Handles, good \in BOOLEAN : Save(h, good))
             \/ EndDrain \/ Publish \/ Present \/ UNCHANGED vars
  BY <1>4, QuietGeneration DEF Save, EndDrain, Publish, Present, vars, Waits
<1> QED
  BY <1>1, <1>2, <1>3, <1>4, ReadGeneration, DeliverGeneration, TakeGeneration DEF Next

\* Counting comes to the same.
LEMMA OneGenerationCounts == TypeOK /\ OneGeneration => OneGenerationEach
<1> SUFFICES ASSUME TypeOK, OneGeneration, NEW h \in Handles
             PROVE  Cardinality({w \in workers : w.handle = h})
                      + Cardinality({n \in 1 .. Len(results) : results[n].handle = h})
                    = IF Waits(h) THEN 1 ELSE 0
  BY DEF OneGenerationEach, Waits
<1> DEFINE W == {w \in workers : w.handle = h}
<1> DEFINE R == {n \in 1 .. Len(results) : results[n].handle = h}
<1>1. CASE W # {}
  <2>1. PICK w : W = {w}
    BY <1>1 DEF OneGeneration
  <2>2. R = {} /\ Waits(h)
    BY <2>1 DEF OneGeneration
  <2>3. Cardinality(W) = 1 /\ Cardinality(R) = 0
    BY <2>1, <2>2, FS_Singleton, FS_EmptySet
  <2> QED  BY <2>2, <2>3
<1>2. CASE R # {}
  <2>0. PICK n \in 1 .. Len(results) : results[n].handle = h
    BY <1>2
  <2>a. \A m \in 1 .. Len(results) : results[m].handle = h => m = n
    BY <2>0 DEF OneGeneration
  <2>1. R = {n}
    BY <2>0, <2>a
  <2>2. W = {} /\ Waits(h)
    BY <2>0 DEF OneGeneration
  <2>3. Cardinality(R) = 1 /\ Cardinality(W) = 0
    BY <2>1, <2>2, FS_Singleton, FS_EmptySet
  <2> QED  BY <2>2, <2>3
<1>3. CASE W = {} /\ R = {}
  <2>1. ~Waits(h)
    BY <1>3 DEF OneGeneration
  <2>2. Cardinality(W) = 0 /\ Cardinality(R) = 0
    BY <1>3, FS_EmptySet
  <2> QED  BY <2>1, <2>2
<1> QED  BY <1>1, <1>2, <1>3

(***************************************************************************)
(* One owner of a cell.                                                    *)
(***************************************************************************)

\* The entry a placed icon gets.
Fresh(content, c) ==
  [state |-> "resident", cell |-> c, version |-> content.version, upload |-> uploadId,
   acked |-> FALSE, age |-> 0]

\* Where the cell of a placed icon comes from, and what becomes of the others.
KeepsCell(g, c) ==
  /\ HasCell(g) /\ entry[g].cell = c /\ free' = free
  /\ \A h \in Handles \ {g} : entry'[h] = entry[h]
TakesFree(g, c) ==
  /\ free # << >> /\ c = free[Len(free)] /\ free' = SubSeq(free, 1, Len(free) - 1)
  /\ \A h \in Handles \ {g} : entry'[h] = entry[h]
Evicts(g, c, v) ==
  /\ v \in In("resident") /\ entry[v].acked /\ entry[v].cell = c /\ free' = free
  /\ v # g => entry'[v] = Absent
  /\ \A h \in Handles \ {g, v} : entry'[h] = entry[h]

Placed(g, content, c) ==
  /\ entry'[g] = Fresh(content, c)
  /\ frame' = [frame EXCEPT !.uploads = @ \cup {UploadOf(g, Fresh(content, c))}]
  /\ placed' = placed \cup {g} /\ uploadId' = uploadId + 1
  /\ KeepsCell(g, c) \/ TakesFree(g, c) \/ \E v \in Handles : Evicts(g, c, v)
Refused(g) ==
  /\ entry'[g] = Failed /\ \A h \in Handles \ {g} : entry'[h] = entry[h]
  /\ UNCHANGED <<free, placed, frame, uploadId>>

LEMMA PlaceEnds ==
  ASSUME NEW g \in Handles, NEW content, NEW c, NEW entries \in [Handles -> Entries],
         Place(g, content, c, entries)
  PROVE  /\ entry'[g] = Fresh(content, c)
         /\ \A h \in Handles \ {g} : entry'[h] = entries[h]
         /\ frame' = [frame EXCEPT !.uploads = @ \cup {UploadOf(g, Fresh(content, c))}]
         /\ placed' = placed \cup {g} /\ uploadId' = uploadId + 1
BY DEF Place, Fresh

\* A result ends in a fresh entry, in a cell that is its own, the last free one
\* or an acknowledged icon's, or in a failed one.
LEMMA TakeEnds ==
  ASSUME TypeOK, Counted, Given, TakeResult
  PROVE  \E g \in Handles, content \in Contents :
           /\ results[1] = [handle |-> g, content |-> content]
           /\ Refused(g) \/ \E c \in Cells : Placed(g, content, c)
<1> DEFINE g == Head(results).handle
<1> DEFINE content == Head(results).content
<1>1. /\ results[1] = [handle |-> g, content |-> content]
      /\ g \in Handles /\ content \in Contents /\ entry \in [Handles -> Entries]
  <2>1. results # << >> /\ results \in Seq([handle : Handles, content : Contents])
    BY TakeCases DEF TypeOK
  <2>2. results[1] = Head(results) /\ Head(results) \in [handle : Handles, content : Contents]
    BY <2>1, HeadTailFacts
  <2> QED  BY <2>2 DEF TypeOK
<1>2. CASE /\ entry[g].state = "regenerating" /\ entry[g].cell \in Cells
           /\ Place(g, content, entry[g].cell, entry) /\ free' = free
  <2>1. Placed(g, content, entry[g].cell)
    BY <1>1, <1>2, PlaceEnds DEF Placed, KeepsCell, HasCell
  <2> QED  BY <1>1, <1>2, <2>1
<1>3. CASE /\ entry[g].state # "regenerating" /\ free # << >> /\ free[Len(free)] \in Cells
           /\ Place(g, content, free[Len(free)], entry)
           /\ free' = SubSeq(free, 1, Len(free) - 1)
  <2>1. Placed(g, content, free[Len(free)])
    BY <1>1, <1>3, PlaceEnds DEF Placed, TakesFree
  <2> QED  BY <1>1, <1>3, <2>1
<1>4. CASE /\ free' = free
           /\ \E v \in In("resident") :
                /\ entry[v].acked /\ entry[v].cell \in Cells
                /\ Place(g, content, entry[v].cell, [entry EXCEPT ![v] = Absent])
  <2>1. PICK v \in In("resident") :
               /\ entry[v].acked /\ entry[v].cell \in Cells
               /\ Place(g, content, entry[v].cell, [entry EXCEPT ![v] = Absent])
    BY <1>4
  <2>2. /\ v \in Handles
        /\ [entry EXCEPT ![v] = Absent] \in [Handles -> Entries]
        /\ [entry EXCEPT ![v] = Absent][v] = Absent
        /\ \A h \in Handles \ {v} : [entry EXCEPT ![v] = Absent][h] = entry[h]
    BY <1>1, EntryFacts DEF In
  <2>3. /\ entry'[g] = Fresh(content, entry[v].cell)
        /\ \A h \in Handles \ {g} : entry'[h] = [entry EXCEPT ![v] = Absent][h]
        /\ frame' = [frame EXCEPT !.uploads = @ \cup {UploadOf(g, Fresh(content, entry[v].cell))}]
        /\ placed' = placed \cup {g} /\ uploadId' = uploadId + 1
    BY <1>1, <2>1, <2>2, PlaceEnds
  <2>4. Evicts(g, entry[v].cell, v)
    BY <1>4, <2>1, <2>2, <2>3 DEF Evicts
  <2>5. Placed(g, content, entry[v].cell)
    BY <2>2, <2>3, <2>4 DEF Placed
  <2> QED  BY <1>1, <2>1, <2>5
<1>5. CASE /\ entry' = [entry EXCEPT ![g] = Failed]
           /\ UNCHANGED <<free, placed, frame, uploadId>>
  <2>1. Refused(g)
    BY <1>1, <1>5 DEF Refused
  <2> QED  BY <1>1, <2>1
<1> QED  BY <1>2, <1>3, <1>4, <1>5, TakeCases

LEMMA QuietOwners ==
  ASSUME Owners, free' = free, \A h \in Handles : entry'[h].cell = entry[h].cell
  PROVE  Owners'
BY DEF Owners, Holders

\* The last free cell is nobody's.
LEMMA FreeCellFacts ==
  ASSUME TypeOK, NEW g, NEW c, TakesFree(g, c)
  PROVE  c \in Range(free) /\ c \notin Range(free') /\ Range(free') \subseteq Range(free)
<1>1. /\ free \in Seq(Cells) /\ Len(free) \in Nat /\ Len(free) >= 1
      /\ \A i, j \in 1 .. Len(free) : free[i] = free[j] => i = j
      /\ DOMAIN free = 1 .. Len(free)
  BY DEF TypeOK, IsInjective, TakesFree
<1>2. /\ DOMAIN free' = 1 .. Len(free) - 1
      /\ \A i \in 1 .. Len(free) - 1 : free'[i] = free[i]
  BY <1>1 DEF TakesFree
<1>3. c = free[Len(free)]
  BY DEF TakesFree
<1> QED  BY <1>1, <1>2, <1>3 DEF Range

LEMMA TakeOwners ==
  ASSUME TypeOK, Counted, Given, Owners, TakeResult
  PROVE  Owners'
<1>1. PICK g \in Handles, content \in Contents :
        Refused(g) \/ \E c \in Cells : Placed(g, content, c)
  BY TakeEnds
<1>2. CASE Refused(g)
  BY <1>2, EntryFacts DEF Owners, Holders, Refused
<1>3. ASSUME NEW c \in Cells, Placed(g, content, c) PROVE Owners'
  <2>1. entry'[g].cell = c /\ c # None
    BY <1>3, ConstantFacts DEF Placed, Fresh
  <2>2. CASE KeepsCell(g, c)
    BY <2>1, <2>2, QuietOwners DEF KeepsCell
  <2>3. CASE TakesFree(g, c)
    <3>1. c \in Range(free) /\ c \notin Range(free') /\ Range(free') \subseteq Range(free)
      BY <2>3, FreeCellFacts
    <3> QED  BY <2>1, <2>3, <3>1 DEF TakesFree, Owners, Holders
  <2>4. ASSUME NEW v \in Handles, Evicts(g, c, v) PROVE Owners'
    <3>1. /\ entry[v].cell = c /\ free' = free
          /\ v # g => entry'[v].cell = None
          /\ \A h \in Handles \ {g, v} : entry'[h] = entry[h]
      BY <2>4, EntryFacts DEF Evicts
    <3>2. \A h \in Handles \ {g} : h \in Holders' => h \in Holders /\ entry'[h] = entry[h]
      BY <3>1 DEF Holders
    <3>3. \A h \in Handles \ {g} : h \in Holders' => entry'[h].cell # c
      BY <2>1, <3>1, <3>2 DEF Owners, Holders
    <3>4. c \notin Range(free)
      BY <2>1, <3>1 DEF Owners, Holders
    <3>5. ASSUME NEW h \in Holders', NEW o \in Holders', entry'[h].cell = entry'[o].cell
          PROVE  h = o
      BY <2>1, <3>2, <3>3, <3>5 DEF Owners, Holders
    <3>6. ASSUME NEW h \in Holders' PROVE entry'[h].cell \notin Range(free')
      BY <2>1, <3>1, <3>2, <3>4 DEF Owners, Holders
    <3> QED  BY <3>5, <3>6 DEF Owners
  <2> QED  BY <1>3, <2>2, <2>3, <2>4 DEF Placed
<1> QED  BY <1>1, <1>2, <1>3

\* What every step but TakeResult leaves of the entries: cells are not given or
\* taken, and only what the render thread said is marked.
Unmoved ==
  /\ free' = free /\ uploadId' = uploadId
  /\ \A h \in Handles :
       /\ entry'[h].cell = entry[h].cell
       /\ HasCell(h)' <=> HasCell(h)
       /\ HasCell(h) => /\ entry'[h].upload = entry[h].upload
                        /\ entry'[h].version = entry[h].version
                        /\ entry'[h].acked =>
                             entry[h].acked \/ entry[h].upload \in acks

LEMMA OtherSteps ==
  ASSUME TypeOK, Counted, Given, [Next]_vars
  PROVE  TakeResult \/ Unmoved
<1>0. entry \in [Handles -> Entries]
  BY DEF TypeOK
<1>1. ASSUME NEW h \in Handles, Invalidate(h) PROVE Unmoved
  <2>1. free' = free /\ uploadId' = uploadId
    BY <1>1 DEF Invalidate
  <2>2. CASE entry' = entry
    BY <2>1, <2>2 DEF Unmoved, HasCell
  <2>3. CASE entry[h].state = "resident" /\ entry' = [entry EXCEPT ![h].state = "regenerating"]
    BY <1>0, <2>1, <2>3 DEF Unmoved, HasCell, Entries
  <2>4. CASE entry[h].state = "failed" /\ entry' = [entry EXCEPT ![h] = Absent]
    BY <1>0, <2>1, <2>4, EntryFacts DEF Unmoved, HasCell, Given
  <2> QED  BY <1>1, <2>2, <2>3, <2>4 DEF Invalidate
<1>2. ASSUME NEW h \in Handles, Lookup(h) PROVE Unmoved
  <2>1. free' = free /\ uploadId' = uploadId
    BY <1>2 DEF Lookup
  <2>2. CASE DrawResident(h)
    <3> DEFINE age == IF entry[h].state = "resident" THEN 0 ELSE entry[h].age
    <3>1. entry' = [entry EXCEPT ![h].age = age]
      BY <2>2 DEF DrawResident
    <3> HIDE DEF age
    <3> QED  BY <1>0, <2>1, <3>1 DEF Unmoved, HasCell, Entries
  <2>3. CASE Dispatch(h)
    <3>1. /\ entry'[h].state = "pending" /\ entry'[h].cell = None
          /\ entry[h].state = "absent" /\ \A o \in Handles \ {h} : entry'[o] = entry[o]
      BY <1>0, <2>3 DEF Dispatch, Absent
    <3> QED  BY <2>1, <3>1 DEF Unmoved, HasCell, Given
  <2> QED  BY <1>2, <2>2, <2>3 DEF Lookup
<1>3. CASE BeginDrain
  BY <1>3, DrainedEntry DEF Unmoved, HasCell, BeginDrain
<1>4. CASE entry' = entry /\ free' = free /\ uploadId' = uploadId
  BY <1>4 DEF Unmoved, HasCell
<1> QED
  BY <1>1, <1>2, <1>3, <1>4 DEF Next, Save, Read, Deliver, EndDrain, Publish, Present, vars

LEMMA NextOwners ==
  TypeOK /\ Counted /\ Given /\ Owners /\ [Next]_vars => Owners'
BY OtherSteps, TakeOwners, QuietOwners DEF Unmoved

(***************************************************************************)
(* The frame being built, and the identities of its uploads.               *)
(***************************************************************************)

LEMMA DrawTypes ==
  ASSUME TypeOK
  PROVE  /\ \A d \in frame.draws : d.handle \in Handles /\ d.cell \in Cells
         /\ slot # None => \A d \in slot.draws : d.handle \in Handles /\ d.cell \in Cells
         /\ slot # None => \A u \in slot.uploads : u \in Uploads
BY DEF TypeOK, Frames, Draws

LEMMA QuietBuilding ==
  ASSUME TypeOK, Building, UNCHANGED <<phase, frame, placed>>, \A h \in Handles : entry'[h] = entry[h]
  PROVE  Building'
<1>1. In("resident")' = In("resident") /\ \A h \in In("resident") : entry'[h] = entry[h]
  BY DEF In
<1>2. \A u \in frame'.uploads : \E h \in In("resident")' :
        ~entry'[h].acked /\ u = UploadOf(h, entry'[h])
  BY <1>1 DEF Building
<1>3. \A h \in In("resident")' :
        \/ phase' = "draining" /\ h \in placed'
        \/ phase' = "painting" /\ ~entry'[h].acked
        => UploadOf(h, entry'[h]) \in frame'.uploads
  BY <1>1 DEF Building
<1>4. \A d \in frame'.draws : d.sent =>
        /\ entry'[d.handle].cell = d.cell
        /\ entry'[d.handle].state = "resident" \/ (HasCell(d.handle)' /\ entry'[d.handle].acked)
  <2>1. \A d \in frame.draws : d.handle \in Handles
    BY DrawTypes
  <2> QED  BY <2>1 DEF Building, HasCell
<1> QED  BY <1>2, <1>3, <1>4 DEF Building

LEMMA TakeBuilding ==
  ASSUME TypeOK, Counted, Given, OneGeneration, Building, TakeResult
  PROVE  Building'
<1>1. PICK g \in Handles, content \in Contents :
        /\ results[1] = [handle |-> g, content |-> content]
        /\ Refused(g) \/ \E c \in Cells : Placed(g, content, c)
  BY TakeEnds
<1>2. /\ phase = "draining" /\ phase' = "draining" /\ frame \in Frames
      /\ results[1].handle = g /\ 1 \in 1 .. Len(results)
  BY <1>1, TakeCases, ResultFacts, HeadTailFacts DEF TypeOK
<1>3. Waits(g) /\ g \notin In("resident")
  BY <1>1, <1>2 DEF OneGeneration, Waits, In
<1>4. \A h \in In("resident") : ~entry[h].acked => h # g /\ entry'[h] = entry[h]
  BY <1>1, <1>3 DEF Refused, Placed, KeepsCell, TakesFree, Evicts, In
<1>5. \A h \in Handles \ {g} : h \in In("resident")' => h \in In("resident") /\ entry'[h] = entry[h]
  BY <1>1, EntryFacts DEF Refused, Placed, KeepsCell, TakesFree, Evicts, In
<1>6. CASE Refused(g)
  <2>1. g \notin In("resident")' /\ frame' = frame /\ placed' = placed
    BY <1>6, EntryFacts DEF Refused, In
  <2>2. \A u \in frame'.uploads : \E h \in In("resident")' :
          ~entry'[h].acked /\ u = UploadOf(h, entry'[h])
    BY <1>4, <2>1 DEF Building, In
  <2> QED  BY <1>2, <1>5, <2>1, <2>2 DEF Building, In
<1>7. ASSUME NEW c \in Cells, Placed(g, content, c) PROVE Building'
  <2> DEFINE e == Fresh(content, c)
  <2>1. /\ entry'[g] = e /\ placed' = placed \cup {g}
        /\ frame' = [frame EXCEPT !.uploads = @ \cup {UploadOf(g, e)}]
    BY <1>7 DEF Placed
  <2>2. e.state = "resident" /\ ~e.acked
    BY DEF Fresh
  <2> HIDE DEF e
  <2>3. frame'.uploads = frame.uploads \cup {UploadOf(g, e)} /\ frame'.draws = frame.draws
    BY <1>2, <2>1 DEF Frames
  <2>4. \A u \in frame'.uploads : \E h \in In("resident")' :
          ~entry'[h].acked /\ u = UploadOf(h, entry'[h])
    <3>1. g \in In("resident")' /\ ~entry'[g].acked
      BY <2>1, <2>2 DEF In
    <3>2. \A u \in frame.uploads : \E h \in In("resident")' :
            ~entry'[h].acked /\ u = UploadOf(h, entry'[h])
      BY <1>4 DEF Building, In
    <3> QED  BY <2>1, <2>3, <3>1, <3>2
  <2>5. \A h \in In("resident")' : h \in placed' => UploadOf(h, entry'[h]) \in frame'.uploads
    BY <1>2, <1>5, <2>1, <2>3 DEF Building, In
  <2>6. frame'.draws = {}
    BY <1>2, <2>3 DEF Building
  <2> QED  BY <1>2, <2>4, <2>5, <2>6 DEF Building
<1> QED  BY <1>1, <1>6, <1>7

LEMMA EndDrainBuilding ==
  ASSUME TypeOK, Building, EndDrain
  PROVE  Building'
<1> DEFINE again == {UploadOf(h, entry[h]) : h \in {o \in In("resident") \ placed : ~entry[o].acked}}
<1>1. /\ phase = "draining" /\ phase' = "painting" /\ entry' = entry
      /\ frame' = [frame EXCEPT !.uploads = @ \cup again] /\ frame \in Frames
  BY DEF EndDrain, TypeOK
<1>2. \A u \in again : \E h \in In("resident") : ~entry[h].acked /\ u = UploadOf(h, entry[h])
  OBVIOUS
<1>3. \A h \in In("resident") : h \notin placed /\ ~entry[h].acked => UploadOf(h, entry[h]) \in again
  OBVIOUS
<1> HIDE DEF again
<1>4. frame'.uploads = frame.uploads \cup again /\ frame'.draws = frame.draws
  BY <1>1 DEF Frames
<1>5. In("resident")' = In("resident")
  BY <1>1 DEF In
<1> QED  BY <1>1, <1>2, <1>3, <1>4, <1>5 DEF Building

LEMMA LookupBuilding ==
  ASSUME TypeOK, Given, Building, NEW h \in Handles, Lookup(h)
  PROVE  Building'
<1>1. /\ entry \in [Handles -> Entries] /\ frame \in Frames
      /\ phase = "painting" /\ phase' = "painting" /\ placed' = placed
  BY DEF Lookup, TypeOK
<1>2. CASE DrawResident(h)
  <2> DEFINE age == IF entry[h].state = "resident" THEN 0 ELSE entry[h].age
  <2> DEFINE d == [handle |-> h, cell |-> entry[h].cell,
                   sent |-> entry[h].state = "resident" \/ entry[h].acked]
  <2>1. /\ entry' = [entry EXCEPT ![h].age = age]
        /\ frame' = [frame EXCEPT !.draws = @ \cup {d}]
        /\ HasCell(h)
    BY <1>2 DEF DrawResident, HasCell
  <2>2. /\ d.handle = h /\ d.cell = entry[h].cell
        /\ d.sent => entry[h].state = "resident" \/ entry[h].acked
    OBVIOUS
  <2> HIDE DEF age, d
  <2>3. \A o \in Handles :
          /\ entry'[o].state = entry[o].state /\ entry'[o].cell = entry[o].cell
          /\ entry'[o].upload = entry[o].upload /\ entry'[o].version = entry[o].version
          /\ entry'[o].acked = entry[o].acked
    BY <1>1, <2>1 DEF Entries
  <2>4. frame'.uploads = frame.uploads /\ frame'.draws = frame.draws \cup {d}
    BY <1>1, <2>1 DEF Frames
  <2>5. /\ In("resident")' = In("resident")
        /\ \A o \in In("resident") : UploadOf(o, entry'[o]) = UploadOf(o, entry[o])
                                      /\ entry'[o].acked = entry[o].acked
    BY <2>3 DEF In, UploadOf
  <2>6. \A x \in frame'.draws : x.sent =>
          /\ entry'[x.handle].cell = x.cell
          /\ entry'[x.handle].state = "resident" \/ (HasCell(x.handle)' /\ entry'[x.handle].acked)
    <3>1. \A x \in frame.draws : x.handle \in Handles
      BY DrawTypes
    <3> QED  BY <2>1, <2>2, <2>3, <2>4, <3>1 DEF Building, HasCell
  <2>7. \A u \in frame'.uploads : \E o \in In("resident")' :
          ~entry'[o].acked /\ u = UploadOf(o, entry'[o])
    BY <2>4, <2>5 DEF Building
  <2>8. \A o \in In("resident")' : ~entry'[o].acked => UploadOf(o, entry'[o]) \in frame'.uploads
    BY <1>1, <2>4, <2>5 DEF Building
  <2> QED  BY <1>1, <2>6, <2>7, <2>8 DEF Building
<1>3. CASE Dispatch(h)
  <2>1. /\ entry[h].state = "absent" /\ entry'[h].state = "pending" /\ frame' = frame
        /\ \A o \in Handles \ {h} : entry'[o] = entry[o]
    BY <1>1, <1>3 DEF Dispatch, Absent
  <2>2. /\ In("resident")' = In("resident")
        /\ \A o \in In("resident") : entry'[o] = entry[o]
    BY <2>1 DEF In
  <2>3. \A x \in frame'.draws : x.sent =>
          /\ entry'[x.handle].cell = x.cell
          /\ entry'[x.handle].state = "resident" \/ (HasCell(x.handle)' /\ entry'[x.handle].acked)
    <3>1. \A x \in frame.draws : x.handle \in Handles
      BY DrawTypes
    <3>2. \A x \in frame.draws : x.sent => x.handle # h
      BY <2>1, <3>1 DEF Building, HasCell
    <3> QED  BY <2>1, <3>1, <3>2 DEF Building, HasCell
  <2>4. \A u \in frame'.uploads : \E o \in In("resident")' :
          ~entry'[o].acked /\ u = UploadOf(o, entry'[o])
    BY <2>1, <2>2 DEF Building
  <2>5. \A o \in In("resident")' : ~entry'[o].acked => UploadOf(o, entry'[o]) \in frame'.uploads
    BY <1>1, <2>1, <2>2 DEF Building
  <2> QED  BY <1>1, <2>3, <2>4, <2>5 DEF Building
<1> QED  BY <1>2, <1>3 DEF Lookup

LEMMA NextBuilding ==
  TypeOK /\ Counted /\ Given /\ OneGeneration /\ Building /\ [Next]_vars => Building'
<1> SUFFICES ASSUME TypeOK, Counted, Given, OneGeneration, Building, [Next]_vars
             PROVE  Building'
  OBVIOUS
<1>1. ASSUME frame' = Empty, phase' \in {"idle", "draining"}, placed' = {} \/ phase' = "idle"
      PROVE  Building'
  BY <1>1, EntryFacts DEF Building
<1>2. ASSUME NEW h \in Handles, Invalidate(h) PROVE Building'
  <2>1. phase = "idle" /\ phase' = "idle" /\ frame' = frame
    BY <1>2 DEF Invalidate
  <2> QED  BY <1>1, <2>1 DEF Building
<1>3. CASE BeginDrain \/ Publish
  BY <1>1, <1>3 DEF BeginDrain, Publish
<1>4. CASE UNCHANGED <<phase, frame, placed, entry>>
  BY <1>4, QuietBuilding
<1> QED
  BY <1>2, <1>3, <1>4, LookupBuilding, TakeBuilding, EndDrainBuilding
  DEF Next, Save, Read, Deliver, Present, vars

LEMMA FrameFacts ==
  ASSUME TypeOK, Given, Owners, Building
  PROVE  \A u \in frame.uploads : \E h \in In("resident") :
           /\ u = UploadOf(h, entry[h]) /\ ~entry[h].acked /\ HasCell(h)
           /\ u.cell = entry[h].cell /\ u.id = entry[h].upload /\ u.field = Field(h)
           /\ \A o \in Handles : HasCell(o) /\ entry[o].cell = u.cell => o = h
<1> SUFFICES ASSUME NEW u \in frame.uploads
             PROVE  \E h \in In("resident") :
               /\ u = UploadOf(h, entry[h]) /\ ~entry[h].acked /\ HasCell(h)
               /\ u.cell = entry[h].cell /\ u.id = entry[h].upload /\ u.field = Field(h)
               /\ \A o \in Handles : HasCell(o) /\ entry[o].cell = u.cell => o = h
  OBVIOUS
<1>1. PICK h \in In("resident") : ~entry[h].acked /\ u = UploadOf(h, entry[h])
  BY DEF Building
<1>2. h \in Handles /\ HasCell(h)
  BY DEF In, HasCell
<1>3. u.cell = entry[h].cell /\ u.id = entry[h].upload /\ u.field = Field(h)
  BY <1>1 DEF UploadOf, Field
<1>4. \A o \in Handles : HasCell(o) /\ entry[o].cell = u.cell => o = h
  BY <1>2, <1>3 DEF Owners, Holders, Given
<1> QED  BY <1>1, <1>2, <1>3, <1>4

\* A result leaves every icon that has a cell as it was, but for the one placed,
\* whose upload has an identity of its own.
LEMMA TakeKeeps ==
  ASSUME TypeOK, Counted, Given, TakeResult
  PROVE  \E g \in Handles : \A h \in Handles : HasCell(h)' =>
           \/ h # g /\ HasCell(h) /\ entry'[h] = entry[h] /\ uploadId \in Nat
              /\ uploadId' \in {uploadId, uploadId + 1}
           \/ h = g /\ entry'[h].upload = uploadId /\ ~entry'[h].acked
              /\ uploadId \in Nat \ {0} /\ uploadId' = uploadId + 1
<1>1. PICK g \in Handles, content \in Contents :
        Refused(g) \/ \E c \in Cells : Placed(g, content, c)
  BY TakeEnds
<1>2. uploadId \in Nat \ {0}
  BY ConstantFacts DEF TypeOK
<1>3. CASE Refused(g)
  BY <1>2, <1>3, EntryFacts DEF Refused, HasCell
<1>4. ASSUME NEW c \in Cells, Placed(g, content, c)
      PROVE  \A h \in Handles : HasCell(h)' =>
           \/ h # g /\ HasCell(h) /\ entry'[h] = entry[h] /\ uploadId \in Nat
              /\ uploadId' \in {uploadId, uploadId + 1}
           \/ h = g /\ entry'[h].upload = uploadId /\ ~entry'[h].acked
              /\ uploadId \in Nat \ {0} /\ uploadId' = uploadId + 1
  <2>1. uploadId' = uploadId + 1 /\ entry'[g].upload = uploadId /\ ~entry'[g].acked
    BY <1>4 DEF Placed, Fresh
  <2>2. \A h \in Handles \ {g} : HasCell(h)' => HasCell(h) /\ entry'[h] = entry[h]
    <3>1. KeepsCell(g, c) \/ TakesFree(g, c) \/ \E v \in Handles : Evicts(g, c, v)
      BY <1>4 DEF Placed
    <3> QED  BY <3>1, EntryFacts DEF KeepsCell, TakesFree, Evicts, HasCell
  <2> QED  BY <1>2, <2>1, <2>2
<1> QED  BY <1>1, <1>3, <1>4

LEMMA NextIdentities ==
  ASSUME TypeOK, Counted, Given, Owners, Building, Identities, SlotIsIdentified, [Next]_vars
  PROVE  Identities'
<1>1. uploadId \in Nat
  BY ConstantFacts DEF TypeOK
<1>2. \A i \in acks' : i < uploadId
  <2>1. CASE Present
    BY <2>1 DEF Present, Identities, SlotIsIdentified
  <2>2. CASE ~Present
    <3>1. acks' \subseteq acks
      BY <2>2 DEF Next, Save, Read, Deliver, Invalidate, BeginDrain, TakeResult, EndDrain,
                  Lookup, Publish, vars
    <3> QED  BY <3>1 DEF Identities
  <2> QED  BY <2>1, <2>2
<1>3. CASE Unmoved
  BY <1>2, <1>3 DEF Unmoved, Identities
<1>4. CASE TakeResult
  <2>1. PICK g \in Handles : \A h \in Handles : HasCell(h)' =>
           \/ h # g /\ HasCell(h) /\ entry'[h] = entry[h] /\ uploadId \in Nat
              /\ uploadId' \in {uploadId, uploadId + 1}
           \/ h = g /\ entry'[h].upload = uploadId /\ ~entry'[h].acked
              /\ uploadId \in Nat \ {0} /\ uploadId' = uploadId + 1
    BY <1>4, TakeKeeps
  <2>2. \A h \in Handles : HasCell(h)' => entry'[h].upload \in 1 .. uploadId' - 1
    BY <2>1 DEF Identities
  <2>3. \A h, o \in Handles :
          HasCell(h)' /\ HasCell(o)' /\ entry'[h].upload = entry'[o].upload => h = o
    BY <2>1 DEF Identities
  <2>4. uploadId' >= uploadId /\ uploadId' \in Nat
    <3>1. uploadId' = uploadId \/ uploadId' = uploadId + 1
      BY <1>4, TakeEnds DEF Refused, Placed
    <3> QED  BY <1>1, <3>1
  <2>5. \A i \in acks' : i \in Nat
    <3>1. acks' = acks
      BY <1>4 DEF TakeResult
    <3> QED  BY <3>1, ConstantFacts DEF TypeOK
  <2> QED  BY <1>1, <1>2, <2>2, <2>3, <2>4, <2>5 DEF Identities
<1> QED  BY <1>3, <1>4, OtherSteps

LEMMA NextSlotIsIdentified ==
  ASSUME TypeOK, Counted, Given, Owners, Building, Identities, SlotIsIdentified, [Next]_vars
  PROVE  SlotIsIdentified'
<1>1. uploadId \in Nat
  BY ConstantFacts DEF TypeOK
<1>2. CASE Present
  BY <1>2 DEF Present, SlotIsIdentified
<1>3. CASE Publish
  <2>1. slot' = frame /\ entry' = entry /\ uploadId' = uploadId
    BY <1>3 DEF Publish
  <2>2. ASSUME NEW u \in frame.uploads, NEW v \in frame.uploads, u.cell = v.cell
        PROVE  u = v
    BY <2>2, FrameFacts DEF In
  <2>3. ASSUME NEW u \in frame.uploads
        PROVE  u.id < uploadId
    BY <1>1, FrameFacts DEF In, Identities
  <2>4. ASSUME NEW u \in frame.uploads, NEW h \in Handles, HasCell(h), u.id = entry[h].upload
        PROVE  u = UploadOf(h, entry[h])
    BY <2>4, FrameFacts DEF In, Identities
  <2> QED  BY <2>1, <2>2, <2>3, <2>4 DEF SlotIsIdentified, HasCell
<1>4. CASE ~Present /\ ~Publish
  <2>1. slot' = slot
    BY <1>4 DEF Next, Save, Read, Deliver, Invalidate, BeginDrain, TakeResult, EndDrain,
                Lookup, vars
  <2> SUFFICES ASSUME slot # None PROVE SlotIsIdentified'
    BY <2>1 DEF SlotIsIdentified
  <2>2. \A u \in slot.uploads : u.id \in Nat
    BY DrawTypes, ConstantFacts DEF Uploads
  <2>3. CASE Unmoved
    <3>1. \A h \in Handles : HasCell(h)' =>
            HasCell(h) /\ UploadOf(h, entry'[h]) = UploadOf(h, entry[h])
              /\ entry'[h].upload = entry[h].upload
      BY <2>3 DEF Unmoved, UploadOf
    <3> QED  BY <2>1, <2>3, <3>1 DEF SlotIsIdentified, Unmoved
  <2>4. CASE TakeResult
    <3>1. PICK g \in Handles : \A h \in Handles : HasCell(h)' =>
             \/ h # g /\ HasCell(h) /\ entry'[h] = entry[h] /\ uploadId \in Nat
                /\ uploadId' \in {uploadId, uploadId + 1}
             \/ h = g /\ entry'[h].upload = uploadId /\ ~entry'[h].acked
                /\ uploadId \in Nat \ {0} /\ uploadId' = uploadId + 1
      BY <2>4, TakeKeeps
    <3>2. uploadId' = uploadId \/ uploadId' = uploadId + 1
      BY <2>4, TakeEnds DEF Refused, Placed
    <3>3. \A u \in slot.uploads : u.id < uploadId /\ u.id < uploadId'
      BY <1>1, <2>2, <3>2 DEF SlotIsIdentified
    <3>4. \A u \in slot.uploads, h \in Handles :
            HasCell(h)' /\ u.id = entry'[h].upload => u = UploadOf(h, entry'[h])
      BY <1>1, <2>2, <3>1, <3>3 DEF SlotIsIdentified
    <3> QED  BY <2>1, <3>3, <3>4 DEF SlotIsIdentified
  <2> QED  BY <2>3, <2>4, OtherSteps
<1> QED  BY <1>2, <1>3, <1>4

(***************************************************************************)
(* The texture.                                                            *)
(***************************************************************************)

\* What the texture and the slot say of an icon that keeps cell and version.
LEMMA StaysSettled ==
  ASSUME TypeOK, NEW h \in Handles, Settled(h), texels' = texels, slot' = slot,
         entry'[h].cell = entry[h].cell, entry'[h].version = entry[h].version
  PROVE  Settled(h)'
BY DEF Settled, Field

LEMMA NextAckedIsSettled ==
  ASSUME TypeOK, Counted, Given, Owners, Building, Identities, SlotIsIdentified,
         AckedIsSettled, [Next]_vars
  PROVE  AckedIsSettled'
<1>1. CASE Publish
  <2> SUFFICES ASSUME NEW h \in Handles, HasCell(h), entry[h].acked \/ entry[h].upload \in acks
               PROVE  Settled(h)'
    BY <1>1 DEF Publish, AckedIsSettled, HasCell
  <2>1. slot' = frame /\ entry' = entry /\ texels' = texels
    BY <1>1 DEF Publish
  <2>2. texels[entry[h].cell] = Field(h)
    BY DEF AckedIsSettled, Settled
  <2>3. \A u \in frame.uploads : u.cell = entry[h].cell => u.field = Field(h)
    BY FrameFacts
  <2> QED  BY <2>1, <2>2, <2>3 DEF Settled, Field
<1>2. CASE Present
  <2> SUFFICES ASSUME NEW h \in Handles, HasCell(h), entry[h].acked \/ entry[h].upload \in acks'
               PROVE  Settled(h)'
    BY <1>2 DEF Present, AckedIsSettled, HasCell
  <2> DEFINE c == entry[h].cell
  <2>1. slot # None /\ slot' = None /\ entry' = entry /\ acks' = acks \cup {u.id : u \in slot.uploads}
    BY <1>2 DEF Present
  <2>2. c \in Cells
    BY DEF TypeOK, Given, Entries
  <2>3. texels'[c] = IF \E u \in slot.uploads : u.cell = c
                       THEN (CHOOSE u \in slot.uploads : u.cell = c).field
                       ELSE texels[c]
    BY <1>2, <2>2 DEF Present
  <2>4. CASE entry[h].acked \/ entry[h].upload \in acks
    <3>1. texels[c] = Field(h) /\ \A u \in slot.uploads : u.cell = c => u.field = Field(h)
      BY <2>1, <2>4 DEF AckedIsSettled, Settled
    <3> HIDE DEF c
    <3>2. texels'[c] = Field(h)
      BY <2>3, <3>1
    <3> QED  BY <2>1, <3>2 DEF Settled, Field, c
  <2>5. CASE \E u \in slot.uploads : u.id = entry[h].upload
    <3>1. PICK u \in slot.uploads : u.id = entry[h].upload
      BY <2>5
    <3>2. u = UploadOf(h, entry[h])
      BY <2>1, <3>1 DEF SlotIsIdentified
    <3>3. u.cell = c /\ u.field = Field(h)
      BY <3>2 DEF UploadOf, Field
    <3> HIDE DEF c
    <3>4. \A v \in slot.uploads : v.cell = c => v = u
      BY <2>1, <3>3 DEF SlotIsIdentified
    <3>5. (CHOOSE v \in slot.uploads : v.cell = c) = u
      BY <3>3, <3>4
    <3>6. texels'[c] = Field(h)
      BY <2>3, <3>3, <3>5
    <3> QED  BY <2>1, <3>6 DEF Settled, Field, c
  <2> QED  BY <2>1, <2>4, <2>5
<1>3. CASE ~Publish /\ ~Present
  <2>1. slot' = slot /\ texels' = texels /\ acks' \subseteq acks
    BY <1>3 DEF Next, Save, Read, Deliver, Invalidate, BeginDrain, TakeResult, EndDrain,
                Lookup, vars
  <2> SUFFICES ASSUME NEW h \in Handles, HasCell(h)', entry'[h].acked \/ entry'[h].upload \in acks'
               PROVE  Settled(h)'
    BY DEF AckedIsSettled
  <2>2. CASE Unmoved
    <3>1. HasCell(h) /\ (entry[h].acked \/ entry[h].upload \in acks)
      BY <2>1, <2>2 DEF Unmoved
    <3>2. Settled(h)
      BY <3>1 DEF AckedIsSettled
    <3> QED  BY <2>1, <2>2, <3>1, <3>2, StaysSettled DEF Unmoved
  <2>3. CASE TakeResult
    <3>1. uploadId \notin acks
      BY ConstantFacts DEF TypeOK, Identities
    <3>2. HasCell(h) /\ entry'[h] = entry[h]
      BY <2>1, <2>3, <3>1, TakeKeeps
    <3>3. Settled(h)
      BY <2>1, <3>2 DEF AckedIsSettled
    <3> QED  BY <2>1, <3>2, <3>3, StaysSettled
  <2> QED  BY <2>2, <2>3, OtherSteps
<1> QED  BY <1>1, <1>2, <1>3

LEMMA NextSlotIsDrawable ==
  ASSUME TypeOK, Counted, Given, Owners, Building, AckedIsSettled, SlotIsDrawable, [Next]_vars
  PROVE  SlotIsDrawable'
<1>1. CASE Publish
  <2>1. slot' = frame /\ texels' = texels /\ phase = "painting"
    BY <1>1 DEF Publish
  <2> SUFFICES ASSUME NEW d \in frame.draws, d.sent
               PROVE  \/ \E u \in frame.uploads : u.cell = d.cell /\ u.field.handle = d.handle
                      \/ /\ texels[d.cell] # None /\ texels[d.cell].handle = d.handle
                         /\ \A u \in frame.uploads : u.cell # d.cell
    BY <2>1 DEF SlotIsDrawable
  <2> DEFINE h == d.handle
  <2>2. /\ h \in Handles /\ entry[h].cell = d.cell
        /\ entry[h].state = "resident" \/ (HasCell(h) /\ entry[h].acked)
    BY DrawTypes DEF Building
  <2> HIDE DEF h
  <2>3. CASE entry[h].state = "resident" /\ ~entry[h].acked
    <3>1. UploadOf(h, entry[h]) \in frame.uploads
      BY <2>1, <2>2, <2>3 DEF Building, In
    <3>2. /\ UploadOf(h, entry[h]).cell = d.cell
          /\ UploadOf(h, entry[h]).field.handle = h
      BY <2>2 DEF UploadOf
    <3> QED  BY <3>1, <3>2 DEF h
  <2>4. CASE HasCell(h) /\ entry[h].acked
    <3>1. texels[d.cell] = Field(h)
      BY <2>2, <2>4 DEF AckedIsSettled, Settled
    <3>2. Field(h).handle = h /\ Field(h) # None
      <4>1. entry[h].version \in 0 .. MaxEdits
        BY <2>2 DEF TypeOK, Entries
      <4>2. Field(h) \in Fields
        BY <2>2, <4>1 DEF Field, Fields
      <4> QED  BY <4>2, ConstantFacts DEF Field
    <3>3. \A u \in frame.uploads : u.cell = d.cell => u.field = Field(h)
      BY <2>2, <2>4, FrameFacts
    <3> QED  BY <3>1, <3>2, <3>3 DEF h
  <2> QED  BY <2>2, <2>3, <2>4 DEF HasCell
<1>2. CASE Present
  BY <1>2 DEF Present, SlotIsDrawable
<1>3. CASE ~Publish /\ ~Present
  <2>1. slot' = slot /\ texels' = texels
    BY <1>3 DEF Next, Save, Read, Deliver, Invalidate, BeginDrain, TakeResult, EndDrain,
                Lookup, vars
  <2> QED  BY <2>1 DEF SlotIsDrawable
<1> QED  BY <1>1, <1>2, <1>3

\* Icons no save or worker leaves behind.
Noticed == Handles \ (changed \cup passedOver)

\* A step that notices an icon with nothing under way, and nothing else.
LEMMA NoticesUpToDate ==
  ASSUME UpToDate, NEW h \in Handles, file' = file, results' = results,
         workers' = workers \/ workers' = workers \cup {Worker(h)},
         Noticed' \subseteq Noticed \cup {h}, In("resident")' \subseteq In("resident"),
         h \in Noticed' => /\ h \in Noticed \/ h \notin In("resident")'
                           /\ \/ h \in Noticed
                              \/ /\ \A w \in workers : w.handle # h
                                 /\ \A n \in 1 .. Len(results) : results[n].handle # h,
         \A o \in In("resident")' : entry'[o].version = entry[o].version
  PROVE  UpToDate'
<1>1. Worker(h).read = None
  BY DEF Worker
<1> QED  BY <1>1 DEF UpToDate, Noticed

LEMMA InvalidateUpToDate ==
  ASSUME TypeOK, Counted, Given, OneGeneration, UpToDate, NEW h \in Handles, Invalidate(h)
  PROVE  UpToDate'
<1>1. /\ entry \in [Handles -> Entries] /\ changed' = changed \ {h}
      /\ file' = file /\ results' = results
  BY DEF Invalidate, TypeOK
<1>2. ~Waits(h) => /\ \A w \in workers : w.handle # h
                   /\ \A n \in 1 .. Len(results) : results[n].handle # h
  BY DEF OneGeneration
<1>3. CASE /\ entry[h].state = "resident"
           /\ entry' = [entry EXCEPT ![h].state = "regenerating"]
           /\ workers' = workers \cup {Worker(h)} /\ passedOver' = passedOver \ {h}
  <2>1. h \notin In("resident")' /\ In("resident")' \subseteq In("resident")
    BY <1>1, <1>3 DEF In, Entries
  <2>2. \A o \in In("resident")' : entry'[o].version = entry[o].version
    BY <1>1, <1>3, <2>1 DEF In
  <2>3. Noticed' \subseteq Noticed \cup {h}
    BY <1>1, <1>3 DEF Noticed
  <2>4. ~Waits(h)
    BY <1>3 DEF Waits
  <2> QED  BY <1>1, <1>2, <1>3, <2>1, <2>2, <2>3, <2>4, NoticesUpToDate
<1>4. CASE /\ entry[h].state = "failed" /\ entry' = [entry EXCEPT ![h] = Absent]
           /\ UNCHANGED <<workers, passedOver>>
  <2>1. h \notin In("resident")' /\ In("resident")' \subseteq In("resident")
    BY <1>1, <1>4, EntryFacts DEF In
  <2>2. \A o \in In("resident")' : entry'[o].version = entry[o].version
    BY <1>1, <1>4, <2>1 DEF In
  <2>3. Noticed' \subseteq Noticed \cup {h}
    BY <1>1, <1>4 DEF Noticed
  <2>4. ~Waits(h)
    BY <1>4 DEF Waits
  <2> QED  BY <1>1, <1>2, <1>4, <2>1, <2>2, <2>3, <2>4, NoticesUpToDate
<1>5. CASE /\ entry[h].state \in {"pending", "regenerating"}
           /\ passedOver' = passedOver \cup {h} /\ UNCHANGED <<entry, workers>>
  <2>1. h \notin Noticed' /\ Noticed' \subseteq Noticed \cup {h}
    BY <1>1, <1>5 DEF Noticed
  <2>2. In("resident")' = In("resident")
    BY <1>5 DEF In
  <2> QED  BY <1>1, <1>5, <2>1, <2>2, NoticesUpToDate
<1>6. CASE entry[h].state = "absent" /\ UNCHANGED <<entry, workers, passedOver>>
  <2>1. Noticed' \subseteq Noticed \cup {h}
    BY <1>1, <1>6 DEF Noticed
  <2>2. In("resident")' = In("resident") /\ h \notin In("resident")' /\ ~Waits(h)
    BY <1>6 DEF In, Waits
  <2> QED  BY <1>1, <1>2, <1>6, <2>1, <2>2, NoticesUpToDate
<1> QED  BY <1>3, <1>4, <1>5, <1>6 DEF Invalidate

LEMMA LookupUpToDate ==
  ASSUME TypeOK, Counted, Given, OneGeneration, UpToDate, NEW h \in Handles, Lookup(h)
  PROVE  UpToDate'
<1>1. /\ entry \in [Handles -> Entries] /\ changed' = changed
      /\ file' = file /\ results' = results
  BY DEF Lookup, TypeOK
<1>2. CASE DrawResident(h)
  <2> DEFINE age == IF entry[h].state = "resident" THEN 0 ELSE entry[h].age
  <2>1. entry' = [entry EXCEPT ![h].age = age] /\ UNCHANGED <<workers, passedOver>>
    BY <1>2 DEF DrawResident
  <2> HIDE DEF age
  <2>2. In("resident")' \subseteq In("resident")
    BY <1>1, <2>1 DEF In, Entries
  <2>3. \A o \in In("resident")' : entry'[o].version = entry[o].version
    BY <1>1, <2>1 DEF In, Entries
  <2>4. Noticed' = Noticed
    BY <1>1, <2>1 DEF Noticed
  <2> QED  BY <1>1, <2>1, <2>2, <2>3, <2>4, NoticesUpToDate
<1>3. CASE Dispatch(h)
  <2>1. /\ entry[h].state = "absent" /\ entry'[h].state = "pending"
        /\ workers' = workers \cup {Worker(h)} /\ passedOver' = passedOver \ {h}
        /\ \A o \in Handles \ {h} : entry'[o] = entry[o]
    BY <1>1, <1>3 DEF Dispatch, Absent
  <2>2. h \notin In("resident")' /\ In("resident")' \subseteq In("resident")
    BY <2>1 DEF In
  <2>3. \A o \in In("resident")' : entry'[o].version = entry[o].version
    BY <2>1, <2>2 DEF In
  <2>4. Noticed' \subseteq Noticed \cup {h}
    BY <1>1, <2>1 DEF Noticed
  <2>5. /\ \A w \in workers : w.handle # h
        /\ \A n \in 1 .. Len(results) : results[n].handle # h
    BY <2>1 DEF OneGeneration, Waits
  <2> QED  BY <1>1, <2>1, <2>2, <2>3, <2>4, <2>5, NoticesUpToDate
<1> QED  BY <1>2, <1>3 DEF Lookup

LEMMA TakeUpToDate ==
  ASSUME TypeOK, Counted, Given, UpToDate, TakeResult
  PROVE  UpToDate'
<1>1. /\ UNCHANGED <<file, workers, changed, passedOver>>
      /\ Len(results) \in Nat /\ Len(results) >= 1 /\ Len(results') = Len(results) - 1
      /\ \A n \in 1 .. Len(results') : results'[n] = results[n + 1]
  BY TakeCases, ResultFacts, HeadTailFacts DEF TypeOK
<1>2. PICK g \in Handles, content \in Contents :
        /\ results[1] = [handle |-> g, content |-> content]
        /\ Refused(g) \/ \E c \in Cells : Placed(g, content, c)
  BY TakeEnds
<1>3. Noticed' = Noticed
  BY <1>1 DEF Noticed
<1>4. \A h \in In("resident")' \ {g} : h \in In("resident") /\ entry'[h] = entry[h]
  BY <1>2, EntryFacts DEF Refused, Placed, KeepsCell, TakesFree, Evicts, In
<1>5. g \in Noticed \cap In("resident")' => entry'[g].version = file[g].version
  <2>1. CASE Refused(g)
    BY <2>1, EntryFacts DEF Refused, In
  <2>2. ASSUME NEW c \in Cells, Placed(g, content, c)
        PROVE  g \in Noticed => entry'[g].version = file[g].version
    <3>1. entry'[g].version = content.version
      BY <2>2 DEF Placed, Fresh
    <3>2. g \in Noticed => content = file[g]
      BY <1>1, <1>2 DEF UpToDate, Noticed
    <3> QED  BY <3>1, <3>2
  <2> QED  BY <1>2, <2>1, <2>2
<1>6. \A h \in Noticed' \cap In("resident")' : entry'[h].version = file'[h].version
  BY <1>1, <1>3, <1>4, <1>5 DEF UpToDate, Noticed
<1>7. ASSUME NEW n \in 1 .. Len(results'), results'[n].handle \in Noticed
      PROVE  results'[n].content = file[results'[n].handle]
  <2>1. n + 1 \in 1 .. Len(results) /\ results'[n] = results[n + 1]
    BY <1>1
  <2> QED  BY <1>7, <2>1 DEF UpToDate, Noticed
<1> QED  BY <1>1, <1>3, <1>6, <1>7 DEF UpToDate, Noticed

LEMMA NextUpToDate ==
  ASSUME TypeOK, Counted, Given, OneGeneration, UpToDate, [Next]_vars
  PROVE  UpToDate'
<1>1. ASSUME NEW h \in Handles, NEW good \in BOOLEAN, Save(h, good)
      PROVE  UpToDate'
  <2>1. /\ changed' = changed \cup {h} /\ \A o \in Handles \ {h} : file'[o] = file[o]
        /\ UNCHANGED <<entry, workers, results, passedOver>>
    BY <1>1 DEF Save, TypeOK
  <2>2. In("resident")' = In("resident") /\ In("resident") \subseteq Handles
    BY <2>1 DEF In
  <2>3. \A o \in Handles \ (changed' \cup passedOver') :
          o \in Handles \ (changed \cup passedOver) /\ file'[o] = file[o]
    BY <2>1
  <2> QED  BY <2>1, <2>2, <2>3 DEF UpToDate
<1>2. ASSUME NEW w \in workers, Read(w) PROVE UpToDate'
  <2> DEFINE x == [w EXCEPT !.read = file[w.handle]]
  <2>1. /\ workers' = (workers \ {w}) \cup {x}
        /\ UNCHANGED <<file, changed, entry, results, passedOver>>
    BY <1>2 DEF Read
  <2>2. x.handle = w.handle /\ x.read = file[w.handle]
    BY DEF TypeOK
  <2> HIDE DEF x
  <2>3. In("resident")' = In("resident")
    BY <2>1 DEF In
  <2> QED  BY <2>1, <2>2, <2>3 DEF UpToDate
<1>3. ASSUME NEW w \in workers, Deliver(w) PROVE UpToDate'
  <2> DEFINE r == [handle |-> w.handle, content |-> w.read]
  <2>1. /\ workers' = workers \ {w} /\ results' = Append(results, r) /\ w.read # None
        /\ UNCHANGED <<file, changed, entry, passedOver>>
    BY <1>3 DEF Deliver
  <2>2. r.handle = w.handle /\ r.content = w.read
    OBVIOUS
  <2> HIDE DEF r
  <2>3. \A n \in 1 .. Len(results') :
          \/ n \in 1 .. Len(results) /\ results'[n] = results[n]
          \/ results'[n] = r
    BY <2>1 DEF TypeOK
  <2>4. In("resident")' = In("resident")
    BY <2>1 DEF In
  <2> QED  BY <2>1, <2>2, <2>3, <2>4 DEF UpToDate
<1>4. CASE BeginDrain
  <2>1. UNCHANGED <<file, changed, workers, results, passedOver>>
    BY <1>4 DEF BeginDrain
  <2>2. \A h \in Handles : entry'[h].state = entry[h].state /\ entry'[h].version = entry[h].version
    BY <1>4, DrainedEntry
  <2> QED  BY <2>1, <2>2 DEF UpToDate, In
<1>5. CASE UNCHANGED <<file, changed, entry, workers, results, passedOver>>
  BY <1>5 DEF UpToDate, In
<1> QED
  BY <1>1, <1>2, <1>3, <1>4, <1>5, InvalidateUpToDate, LookupUpToDate, TakeUpToDate
  DEF Next, EndDrain, Publish, Present, vars

(***************************************************************************)
(* The inductive invariant, and what follows from it.                      *)
(***************************************************************************)

IInv == /\ TypeOK /\ Counted /\ Given /\ OneGeneration /\ Owners /\ Building
        /\ Identities /\ SlotIsIdentified /\ AckedIsSettled /\ SlotIsDrawable /\ UpToDate

LEMMA InitInvariant == Init => IInv
<1> SUFFICES ASSUME Init PROVE IInv
  OBVIOUS
<1> USE EntryFacts DEF Init
<1>1. TypeOK /\ Counted /\ Given
  BY InitTypes
<1>2. \A h \in Handles : ~HasCell(h) /\ ~Waits(h) /\ entry[h].cell = None
  BY DEF HasCell, Waits
<1>3. In("resident") = {} /\ Holders = {}
  BY <1>2 DEF In, HasCell, Holders
<1>4. OneGeneration
  BY <1>2 DEF OneGeneration
<1>5. Owners /\ Building
  BY <1>3 DEF Owners, Building
<1>6. Identities /\ SlotIsIdentified /\ AckedIsSettled /\ SlotIsDrawable
  BY <1>2 DEF Identities, SlotIsIdentified, AckedIsSettled, SlotIsDrawable
<1>7. UpToDate
  BY <1>3 DEF UpToDate
<1> QED  BY <1>1, <1>4, <1>5, <1>6, <1>7 DEF IInv

LEMMA NextInvariant == IInv /\ [Next]_vars => IInv'
<1> SUFFICES ASSUME IInv, [Next]_vars PROVE IInv'
  OBVIOUS
<1> USE DEF IInv
<1>1. TypeOK' /\ Counted' /\ Given' /\ OneGeneration' /\ Owners' /\ Building'
  BY NextTypes, NextGeneration, NextOwners, NextBuilding
<1>2. Identities' /\ SlotIsIdentified'
  BY NextIdentities, NextSlotIsIdentified
<1>3. AckedIsSettled' /\ SlotIsDrawable' /\ UpToDate'
  BY NextAckedIsSettled, NextSlotIsDrawable, NextUpToDate
<1> QED  BY <1>1, <1>2, <1>3

LEMMA Invariant == Spec => []IInv
BY InitInvariant, NextInvariant, PTL DEF Spec

\* A cell of the atlas is never drawn for two icons, nor written twice by a
\* frame, and no two workers or results race for an icon: place_glyph,
\* alloc_cell_or_evict and invalidate, however they interleave.
THEOREM CellsHaveOneOwner == Spec => []OneOwnerEach
<1>1. IInv => CellsAreHeldOnce
  <2> SUFFICES ASSUME IInv PROVE CellsAreHeldOnce
    OBVIOUS
  <2>1. \A u, v \in frame.uploads : u.cell = v.cell => u = v
    BY FrameFacts DEF IInv, In
  <2> QED  BY <2>1 DEF IInv, Owners, CellsAreHeldOnce
<1>2. IInv => OneGenerationEach
  BY OneGenerationCounts DEF IInv
<1> QED  BY <1>1, <1>2, Invariant, PTL DEF OneOwnerEach

\* An acknowledged icon is in the texture as it was generated last, and what was
\* saved last is what was generated, unless a worker was on the icon meanwhile.
THEOREM TextureKeepsUp == Spec => []TextureIsCurrent
<1>1. IInv => AcknowledgedIsInTexture
  BY DEF IInv, AckedIsSettled, AcknowledgedIsInTexture, Settled, Field, In, HasCell
<1>2. IInv => ResidentIsCurrent
  BY DEF IInv, UpToDate, ResidentIsCurrent, In
<1> QED  BY <1>1, <1>2, Invariant, PTL DEF TextureIsCurrent

\* A frame drawn by the render thread, be it the first after many that were
\* skipped, has in each cell the icon it draws there.
THEOREM ScreenShowsTheIcon == Spec => []DrawnIsTheIcon
<1>1. Init => DrawnIsTheIcon
  BY DEF Init, DrawnIsTheIcon
<1>2. IInv /\ DrawnIsTheIcon /\ [Next]_vars => DrawnIsTheIcon'
  <2> SUFFICES ASSUME IInv, DrawnIsTheIcon, [Next]_vars PROVE DrawnIsTheIcon'
    OBVIOUS
  <2>1. CASE Present
    <3> DEFINE after == [c \in Cells |-> IF \E u \in slot.uploads : u.cell = c
                                           THEN (CHOOSE u \in slot.uploads : u.cell = c).field
                                           ELSE texels[c]]
    <3>1. slot # None /\ screen' = {[draw |-> d, texels |-> after[d.cell]] : d \in slot.draws}
      BY <2>1 DEF Present
    <3>2. ASSUME NEW d \in slot.draws, d.sent
          PROVE  after[d.cell] # None /\ after[d.cell].handle = d.handle
      <4>1. d.cell \in Cells
        BY <3>1, DrawTypes DEF IInv
      <4>2. after[d.cell] = IF \E u \in slot.uploads : u.cell = d.cell
                              THEN (CHOOSE u \in slot.uploads : u.cell = d.cell).field
                              ELSE texels[d.cell]
        BY <4>1
      <4> HIDE DEF after
      <4>3. CASE \E u \in slot.uploads : u.cell = d.cell /\ u.field.handle = d.handle
        <5>1. PICK u \in slot.uploads : u.cell = d.cell /\ u.field.handle = d.handle
          BY <4>3
        <5>2. \A v \in slot.uploads : v.cell = d.cell => v = u
          BY <3>1, <5>1 DEF IInv, SlotIsIdentified
        <5>3. (CHOOSE v \in slot.uploads : v.cell = d.cell) = u
          BY <5>1, <5>2
        <5>4. u.field \in Fields
          BY <3>1, DrawTypes DEF IInv, Uploads
        <5> QED  BY <4>2, <5>1, <5>3, <5>4, ConstantFacts
      <4>4. CASE /\ texels[d.cell] # None /\ texels[d.cell].handle = d.handle
                 /\ \A u \in slot.uploads : u.cell # d.cell
        BY <4>2, <4>4
      <4> QED  BY <3>1, <3>2, <4>3, <4>4 DEF IInv, SlotIsDrawable
    <3> HIDE DEF after
    <3> QED  BY <3>1, <3>2 DEF DrawnIsTheIcon
  <2>2. CASE ~Present
    <3>1. screen' = screen
      BY <2>2 DEF Next, Save, Read, Deliver, Invalidate, BeginDrain, TakeResult, EndDrain,
                  Lookup, Publish, vars
    <3> QED  BY <3>1 DEF DrawnIsTheIcon
  <2> QED  BY <2>1, <2>2
<1> QED  BY <1>1, <1>2, Invariant, PTL DEF Spec
=============================================================================
