----------------------------- MODULE StoreProofs -----------------------------
(***************************************************************************)
(* Proofs about the Store capability for every set of Stores, calls, keys   *)
(* and values: what is on the disk is what callers were told, and Store     *)
(* implements DurableMap.                                                   *)
(***************************************************************************)
EXTENDS Store, TLAPS

(***************************************************************************)
(* Maps and what becomes of them in a file.                                *)
(***************************************************************************)

\* A map survives being written, as far as its keys go.
LEMMA EncodedFacts ==
  ASSUME NEW m \in Maps
  PROVE  /\ Encoded(m) \in Maps
         /\ \A k \in Keys : Encoded(m)[k] = Json(m[k]) /\ Encoded(m)[k] \notin Lossy
BY StoreAssumption DEF Encoded, Json, Maps, Contents

\* What has a JSON form comes back as it was.
LEMMA PlainIsEncoded ==
  ASSUME NEW m \in Maps, \A k \in Keys : m[k] \notin Lossy
  PROVE  Encoded(m) = m /\ \A k \in Keys : Json(m[k]) = m[k]
BY DEF Encoded, Json, Maps

LEMMA EmptyFacts == Empty \in Maps /\ \A k \in Keys : Empty[k] = Absent /\ Empty[k] \notin Lossy
BY StoreAssumption DEF Empty, Maps, Contents

\* A load ends in what is on the disk or in the empty map; only the former, or
\* a file that is not there, is nothing to report.
LEMMA LoadFacts ==
  ASSUME NEW d \in Maps \cup {NoFile, Torn}, NEW l \in Loads(d)
  PROVE  /\ l.map \in Maps /\ l.note \in BOOLEAN
         /\ l.map = Empty \/ (d \in Maps /\ l.map = d)
         /\ d \in Maps /\ ~l.note => l.map = d
BY StoreAssumption, EmptyFacts DEF Loads

\* Every call, a read too, names a Store and a key.
LEMMA JobFacts ==
  ASSUME NEW j \in Reads \cup Writes
  PROVE  j.store \in Stores /\ j.key \in Keys /\ j.value \in Contents
BY StoreAssumption DEF Reads, Writes, Contents

LEMMA PutFacts ==
  ASSUME NEW m \in Maps, NEW j \in Reads \cup Writes
  PROVE  /\ Put(m, j) \in Maps
         /\ Put(m, j)[j.key] = j.value
         /\ \A k \in Keys \ {j.key} : Put(m, j)[k] = m[k]
BY JobFacts DEF Put, Maps

(***************************************************************************)
(* Type correctness.                                                       *)
(***************************************************************************)

LEMMA InitType == Init => TypeOK
<1> SUFFICES ASSUME Init PROVE TypeOK
  OBVIOUS
<1>1. \E j \in Reads : TRUE
  <2>1. PICK s \in Stores : TRUE
    BY StoreAssumption
  <2>2. [store |-> s, op |-> "read", key |-> CHOOSE k \in Keys : TRUE, value |-> Absent]
          \in Reads
    BY DEF Reads
  <2> QED  BY <2>2
<1>2. (CHOOSE j \in Reads : TRUE) \in Reads
  BY <1>1
<1> QED  BY <1>2, EmptyFacts DEF Init, TypeOK

LEMMA NextType == TypeOK /\ [Next]_vars => TypeOK'
<1> SUFFICES ASSUME TypeOK, [Next]_vars PROVE TypeOK'
  OBVIOUS
<1> USE DEF TypeOK, history, Step
<1>1. \A c \in Calls : Here(c) \in Stores /\ job[c].key \in Keys
  BY JobFacts DEF Here
<1>2. ASSUME NEW c \in Calls, Place(c) PROVE TypeOK'
  BY <1>2 DEF Place
<1>3. ASSUME NEW c \in Calls, Acquire(c) PROVE TypeOK'
  BY <1>1, <1>3 DEF Acquire
<1>4. ASSUME NEW c \in Calls, Load(c) PROVE TypeOK'
  <2>1. PICK l \in Loads(disk) :
          /\ cache' = [cache EXCEPT ![Here(c)] = l.map]
          /\ owed' = [owed EXCEPT ![Here(c)] =
                        [k \in Keys |-> {l.map[k]} \cup IF l.note THEN @[k] ELSE {}]]
          /\ IF l.note THEN Finish(c, "err") /\ behind' = behind \cup {Here(c)}
                       ELSE UNCHANGED <<pc, answer, lock, behind>>
    BY <1>4 DEF Load
  <2>2. l.map \in Maps /\ \A k \in Keys : l.map[k] \in Contents
    BY LoadFacts DEF Maps
  <2>3. owed' \in [Stores -> [Keys -> SUBSET Contents]]
    <3>1. \A k \in Keys : ({l.map[k]} \cup IF l.note THEN owed[Here(c)][k] ELSE {})
                            \in SUBSET Contents
      BY <1>1, <2>2
    <3> QED  BY <1>1, <2>1, <3>1
  <2>4. cache' \in [Stores -> Maps \cup {Unread}]
    BY <2>1, <2>2
  <2>5. UNCHANGED <<disk, temp, job, snapshot, writer>>
    BY <1>4 DEF Load
  <2>6. CASE l.note
    <3>1. Finish(c, "err") /\ behind' = behind \cup {Here(c)}
      BY <2>1, <2>6
    <3> QED  BY <1>1, <2>3, <2>4, <2>5, <3>1 DEF Finish, Release
  <2>7. CASE ~l.note
    BY <2>1, <2>3, <2>4, <2>5, <2>7
  <2> QED  BY <2>6, <2>7, LoadFacts
<1>5. ASSUME NEW c \in Calls, Read(c) PROVE TypeOK'
  BY <1>1, <1>5 DEF Read, Finish, Release
<1>6. ASSUME NEW c \in Calls, Apply(c) PROVE TypeOK'
  <2> DEFINE m == Put(cache[Here(c)], job[c])
  <2>1. m \in Maps /\ Json(m[job[c].key]) \in Contents
    <3>1. cache[Here(c)] \in Maps
      BY <1>1, <1>6 DEF Apply
    <3>2. m \in Maps
      BY <3>1, PutFacts
    <3> QED  BY <1>1, <3>2, StoreAssumption DEF Json, Maps, Contents
  <2> QED  BY <1>1, <1>6, <2>1 DEF Apply
<1>7. ASSUME NEW c \in Calls, Create(c) \/ Fill(c) PROVE TypeOK'
  BY <1>7, EncodedFacts DEF Create, Fill, TempOf
<1>8. ASSUME NEW c \in Calls, WriteFails(c) \/ RenameFails(c) PROVE TypeOK'
  BY <1>1, <1>8 DEF WriteFails, RenameFails, Finish, Release, TempOf
<1>9. ASSUME NEW c \in Calls, Rename(c) PROVE TypeOK'
  BY <1>1, <1>9 DEF Rename, TempOf
<1>10. ASSUME NEW c \in Calls, Acknowledge(c) PROVE TypeOK'
  <2>1. Json(snapshot[c][job[c].key]) \in Contents
    BY <1>1, StoreAssumption DEF Json, Maps, Contents
  <2> QED  BY <1>1, <1>10, <2>1 DEF Acknowledge, Finish, Release
<1>11. ASSUME NEW s \in Stores, Crash(s) PROVE TypeOK'
  BY <1>11 DEF Crash
<1>12. CASE UNCHANGED vars
  BY <1>12 DEF vars
<1> QED
  BY <1>2, <1>3, <1>4, <1>5, <1>6, <1>7, <1>8, <1>9, <1>10, <1>11, <1>12 DEF Next, Work

\* Every variable of the Store keeps its type.
THEOREM TypeCorrect == Spec => []TypeOK
BY InitType, NextType, PTL DEF Spec

(***************************************************************************)
(* The file is what was said.  One call at a time is between its lock and  *)
(* its release on a Store; it writes a copy of that Store's memory, and     *)
(* only its rename touches the file.                                       *)
(***************************************************************************)

Writing(c) == pc[c] \in {"applied", "created", "filled"}

Exclusive ==
  \A c \in Calls : pc[c] = "holding" \/ Writing(c) \/ pc[c] = "renamed" => Holds(c)

\* The map a call writes is its Store's: nobody else can have put a value since.
Copies ==
  \A c \in Calls :
    /\ Writing(c) \/ pc[c] = "renamed" => snapshot[c] = cache[Here(c)]
    /\ pc[c] = "filled" => temp[c] = Encoded(snapshot[c])

\* The file holds no value without a JSON form.
DiskIsPlain == disk \in Maps => \A k \in Keys : disk[k] \notin Lossy

\* What is in memory is among what the file may come to hold.
MemoryIsOwed ==
  \A s \in Stores : cache[s] # Unread => \A k \in Keys : Json(cache[s][k]) \in owed[s][k]

\* The last Store to rename finds its memory in the file, unless it is writing
\* or told a caller otherwise.
MemoryIsSaved ==
  \A s \in Stores :
    writer = s /\ cache[s] # Unread /\ s \notin behind =>
      \/ disk = Encoded(cache[s])
      \/ \E c \in Calls : Here(c) = s /\ Writing(c)

RenamedIsOnDisk ==
  \A c \in Calls : pc[c] = "renamed" /\ writer = Here(c) => disk = Encoded(snapshot[c])

Saved ==
  /\ Exclusive /\ Copies /\ DiskIsPlain /\ MemoryIsOwed
  /\ AcknowledgedIsDurable /\ MemoryIsSaved /\ RenamedIsOnDisk

LEMMA CallFacts ==
  ASSUME TypeOK, NEW c \in Calls
  PROVE  /\ Here(c) \in Stores /\ job[c].key \in Keys /\ job[c].value \in Contents
         /\ Here(c) # Nobody /\ c # Nobody
BY JobFacts, StoreAssumption DEF TypeOK, Here

\* Two calls on one Store are never both between lock and release.
LEMMA OneAtATime ==
  ASSUME TypeOK, Exclusive, NEW c \in Calls, NEW d \in Calls, Here(c) = Here(d),
         pc[c] = "holding" \/ Writing(c) \/ pc[c] = "renamed",
         pc[d] = "holding" \/ Writing(d) \/ pc[d] = "renamed"
  PROVE  c = d
BY DEF Exclusive, Holds

LEMMA InitSaved == Init => Saved
<1> SUFFICES ASSUME Init PROVE Saved
  OBVIOUS
<1> USE DEF Init
<1>1. Exclusive /\ Copies /\ RenamedIsOnDisk
  BY DEF Exclusive, Copies, RenamedIsOnDisk, Writing
<1>2. DiskIsPlain /\ MemoryIsOwed
  BY DEF DiskIsPlain, MemoryIsOwed
<1>3. AcknowledgedIsDurable /\ MemoryIsSaved
  BY StoreAssumption DEF AcknowledgedIsDurable, MemoryIsSaved
<1> QED  BY <1>1, <1>2, <1>3 DEF Saved

\* A call that is placed, or takes the lock, or writes its temporary file
\* leaves memory, the file and what is owed alone.
LEMMA PrepareKeepsSaved ==
  ASSUME TypeOK, Saved, NEW c \in Calls,
         Place(c) \/ Acquire(c) \/ Create(c) \/ Fill(c)
  PROVE  Saved'
<1>1. UNCHANGED <<disk, cache, snapshot, answer, writer, owed, behind>>
  BY DEF Place, Acquire, Create, Fill, history
<1>2. /\ \A d \in Calls : pc'[d] # "idle" /\ pc[d] # "idle" => Here(d)' = Here(d)
      /\ \A d \in Calls : Writing(d)' = Writing(d) \/ (d = c /\ Writing(d)')
      /\ \A d \in Calls : (pc[d] = "renamed")' = (pc[d] = "renamed")
  BY DEF Place, Acquire, Create, Fill, Step, TypeOK, Here, Writing
<1>3. Exclusive'
  BY CallFacts DEF Saved, Exclusive, Place, Acquire, Create, Fill, Step, TypeOK,
     Holds, Here, Writing
<1>4. Copies'
  BY DEF Saved, Copies, Place, Acquire, Create, Fill, Step, TypeOK, Here, Writing, TempOf
<1>5. DiskIsPlain' /\ MemoryIsOwed' /\ AcknowledgedIsDurable'
  BY <1>1 DEF Saved, DiskIsPlain, MemoryIsOwed, AcknowledgedIsDurable
<1>6. MemoryIsSaved'
  <2>1. \A d \in Calls : Writing(d) => Writing(d)' /\ Here(d)' = Here(d)
    BY DEF Place, Acquire, Create, Fill, Step, TypeOK, Here, Writing
  <2> QED  BY <1>1, <2>1 DEF Saved, MemoryIsSaved
<1>7. RenamedIsOnDisk'
  BY <1>1, <1>2 DEF Saved, RenamedIsOnDisk
<1> QED  BY <1>3, <1>4, <1>5, <1>6, <1>7 DEF Saved

LEMMA LoadKeepsSaved ==
  ASSUME TypeOK, Saved, NEW c \in Calls, Load(c)
  PROVE  Saved'
<1> DEFINE s == Here(c)
<1>1. PICK l \in Loads(disk) :
        /\ cache' = [cache EXCEPT ![s] = l.map]
        /\ owed' = [owed EXCEPT ![s] =
                      [k \in Keys |-> {l.map[k]} \cup IF l.note THEN @[k] ELSE {}]]
        /\ IF l.note THEN Finish(c, "err") /\ behind' = behind \cup {s}
                     ELSE UNCHANGED <<pc, answer, lock, behind>>
  BY DEF Load
<1>2. /\ pc[c] = "holding" /\ Holds(c) /\ cache[s] = Unread /\ s \in Stores
      /\ UNCHANGED <<disk, temp, job, snapshot, writer>>
  BY CallFacts DEF Load
<1>3. /\ \A d \in Calls : Here(d)' = Here(d)
      /\ \A d \in Calls : Writing(d)' = Writing(d)
      /\ \A d \in Calls : (pc[d] = "renamed")' = (pc[d] = "renamed")
      /\ \A d \in Calls : pc'[d] = pc[d] \/ d = c
      /\ \/ lock' = lock /\ pc' = pc
         \/ lock' = [lock EXCEPT ![s] = Nobody] /\ pc'[c] = "done"
  <2>1. CASE l.note
    <3>1. Finish(c, "err")
      BY <1>1, <2>1
    <3> QED  BY <1>2, <3>1 DEF Finish, Release, TypeOK, Here, Writing
  <2>2. CASE ~l.note
    BY <1>1, <1>2, <2>2 DEF Here, Writing
  <2> QED  BY <2>1, <2>2
<1>4. \A d \in Calls : Here(d) = s => ~Writing(d) /\ pc[d] # "renamed"
  BY <1>2, OneAtATime DEF Saved, Writing
<1>5. Exclusive'
  <2>1. \A d \in Calls : Here(d) = s /\ d # c => pc[d] # "holding"
    BY <1>2, OneAtATime DEF Saved
  <2> QED
    BY <1>2, <1>3, <1>4, <2>1, CallFacts DEF Saved, Exclusive, Holds, TypeOK
<1>6. \A t \in Stores \ {s} : cache'[t] = cache[t] /\ owed'[t] = owed[t]
  BY <1>1 DEF TypeOK
<1>7. Copies'
  BY <1>2, <1>3, <1>4, <1>6, CallFacts DEF Saved, Copies, Writing
<1>8. /\ l.map \in Maps /\ cache'[s] = l.map
      /\ \A k \in Keys : l.map[k] \in owed'[s][k]
  BY <1>1, <1>2, LoadFacts DEF TypeOK
<1>9. Encoded(l.map) = l.map /\ \A k \in Keys : Json(l.map[k]) = l.map[k]
  <2>1. \A k \in Keys : l.map[k] \notin Lossy
    BY LoadFacts, EmptyFacts DEF TypeOK, Saved, DiskIsPlain
  <2> QED  BY <1>8, <2>1, PlainIsEncoded
<1>10. DiskIsPlain'
  BY <1>2 DEF Saved, DiskIsPlain
<1>11. MemoryIsOwed'
  BY <1>6, <1>8, <1>9 DEF Saved, MemoryIsOwed
<1>12. AcknowledgedIsDurable'
  <2> SUFFICES ASSUME NEW t \in Stores, NEW k \in Keys, writer = t
               PROVE  disk \in Maps /\ disk[k] \in owed'[t][k]
    BY <1>2 DEF AcknowledgedIsDurable
  <2>1. disk \in Maps /\ disk[k] \in owed[t][k]
    BY DEF Saved, AcknowledgedIsDurable
  <2>2. CASE t = s /\ l.note
    BY <1>1, <1>2, <2>1, <2>2 DEF TypeOK
  <2>3. CASE t = s /\ ~l.note
    BY <1>8, <2>1, <2>3, LoadFacts DEF TypeOK
  <2> QED  BY <1>6, <2>1, <2>2, <2>3, LoadFacts DEF TypeOK
<1>13. MemoryIsSaved'
  <2> SUFFICES ASSUME NEW t \in Stores, writer = t, cache'[t] # Unread, t \notin behind'
               PROVE  disk = Encoded(cache'[t]) \/ \E d \in Calls : Here(d) = t /\ Writing(d)
    BY <1>2, <1>3 DEF MemoryIsSaved
  <2>1. CASE t = s
    <3>1. ~l.note
      BY <1>1, <2>1
    <3>2. disk \in Maps
      BY StoreAssumption DEF Saved, AcknowledgedIsDurable
    <3> QED  BY <1>8, <1>9, <2>1, <3>1, <3>2, LoadFacts DEF TypeOK
  <2>2. CASE t # s
    <3>1. t \notin behind
      BY <1>1
    <3> QED  BY <1>6, <2>2, <3>1 DEF Saved, MemoryIsSaved
  <2> QED  BY <2>1, <2>2
<1>14. RenamedIsOnDisk'
  BY <1>2, <1>3 DEF Saved, RenamedIsOnDisk
<1> QED  BY <1>5, <1>7, <1>10, <1>11, <1>12, <1>13, <1>14 DEF Saved

\* The value enters memory, the copy to be written and what is owed at once.
LEMMA ApplyKeepsSaved ==
  ASSUME TypeOK, Saved, NEW c \in Calls, Apply(c)
  PROVE  Saved'
<1> DEFINE s == Here(c)
<1> DEFINE m == Put(cache[s], job[c])
<1>1. /\ pc[c] = "holding" /\ pc' = [pc EXCEPT ![c] = "applied"] /\ Holds(c)
      /\ cache[s] # Unread /\ cache' = [cache EXCEPT ![s] = m]
      /\ snapshot' = [snapshot EXCEPT ![c] = m]
      /\ owed' = [owed EXCEPT ![s][job[c].key] = @ \cup {Json(m[job[c].key])}]
      /\ UNCHANGED <<disk, temp, lock, job, answer, writer, behind>>
  BY DEF Apply, Step
<1>2. s \in Stores /\ cache[s] \in Maps /\ m \in Maps
  BY <1>1, CallFacts, PutFacts DEF TypeOK
<1>3. \A k \in Keys \ {job[c].key} : m[k] = cache[s][k]
  BY <1>2, PutFacts DEF TypeOK
<1> HIDE DEF m
<1>4. /\ \A d \in Calls : Here(d)' = Here(d)
      /\ \A d \in Calls : Writing(d)' <=> (Writing(d) \/ d = c)
      /\ \A d \in Calls : d # c => pc'[d] = pc[d]
      /\ pc'[c] = "applied" /\ Writing(c)'
  BY <1>1 DEF TypeOK, Here, Writing
<1>5. \A d \in Calls : Here(d) = s => ~Writing(d) /\ pc[d] # "renamed"
  BY <1>1, OneAtATime DEF Saved, Writing
<1>6. Exclusive'
  BY <1>1, <1>4 DEF Saved, Exclusive, Holds
<1>7. \A t \in Stores \ {s} : cache'[t] = cache[t] /\ owed'[t] = owed[t]
  BY <1>1 DEF TypeOK
<1>8. cache'[s] = m
  BY <1>1, <1>2 DEF TypeOK
<1>9. Copies'
  <2> SUFFICES ASSUME NEW d \in Calls
               PROVE  /\ Writing(d)' \/ pc'[d] = "renamed" => snapshot'[d] = cache'[Here(d)]
                      /\ pc'[d] = "filled" => temp[d] = Encoded(snapshot'[d])
    BY <1>1, <1>4 DEF Copies
  <2>1. CASE d = c
    BY <1>1, <1>4, <1>8, <2>1 DEF TypeOK
  <2>2. CASE d # c
    <3>1. Writing(d)' \/ pc'[d] = "renamed" => Here(d) # s /\ Here(d) \in Stores
      BY <1>4, <1>5, <2>2, CallFacts
    <3>2. snapshot'[d] = snapshot[d]
      BY <1>1, <2>2 DEF TypeOK
    <3> QED  BY <1>4, <1>7, <2>2, <3>1, <3>2 DEF Saved, Copies
  <2> QED  BY <2>1, <2>2
<1>10. /\ \A k \in Keys : owed[s][k] \subseteq owed'[s][k]
       /\ Json(m[job[c].key]) \in owed'[s][job[c].key]
  BY <1>1, <1>2, CallFacts DEF TypeOK
<1>11. MemoryIsOwed'
  BY <1>1, <1>3, <1>7, <1>8, <1>10 DEF Saved, MemoryIsOwed
<1>12. DiskIsPlain' /\ AcknowledgedIsDurable'
  BY <1>1, <1>7, <1>10 DEF Saved, DiskIsPlain, AcknowledgedIsDurable
<1>13. MemoryIsSaved'
  BY <1>1, <1>4, <1>7 DEF Saved, MemoryIsSaved
<1>14. RenamedIsOnDisk'
  BY <1>1, <1>4 DEF Saved, RenamedIsOnDisk, TypeOK
<1> QED  BY <1>6, <1>9, <1>11, <1>12, <1>13, <1>14 DEF Saved

\* A call that ends without having touched the file: a read, or a write that
\* failed and said so.
LEMMA EndKeepsSaved ==
  ASSUME TypeOK, Saved, NEW c \in Calls, Read(c) \/ WriteFails(c) \/ RenameFails(c)
  PROVE  Saved'
<1> DEFINE s == Here(c)
<1>1. /\ pc' = [pc EXCEPT ![c] = "done"]
      /\ lock' = [lock EXCEPT ![s] = Nobody]
      /\ pc[c] = "holding" \/ Writing(c)
      /\ UNCHANGED <<disk, cache, job, snapshot, writer, owed>>
  BY DEF Read, WriteFails, RenameFails, Finish, Release, Writing, history
<1>2. /\ behind \subseteq behind' /\ (Writing(c) => s \in behind')
      /\ \A d \in Calls \ {c} : temp'[d] = temp[d]
  BY DEF Read, WriteFails, RenameFails, Writing, TempOf, TypeOK, history
<1>3. /\ \A d \in Calls : Here(d)' = Here(d)
      /\ \A d \in Calls : Writing(d)' <=> (Writing(d) /\ d # c)
      /\ \A d \in Calls : d # c => pc'[d] = pc[d]
      /\ pc'[c] = "done"
  BY <1>1 DEF TypeOK, Here, Writing
<1>4. Exclusive'
  <2> SUFFICES ASSUME NEW d \in Calls \ {c},
                      pc[d] = "holding" \/ Writing(d) \/ pc[d] = "renamed"
               PROVE  lock'[Here(d)] = d
    BY <1>3 DEF Exclusive, Holds
  <2>1. Here(d) # s
    BY <1>1, OneAtATime DEF Saved
  <2> QED  BY <1>1, <2>1, CallFacts DEF Saved, Exclusive, Holds, TypeOK
<1>5. Copies'
  BY <1>1, <1>2, <1>3 DEF Saved, Copies
<1>6. DiskIsPlain' /\ MemoryIsOwed' /\ AcknowledgedIsDurable'
  BY <1>1 DEF Saved, DiskIsPlain, MemoryIsOwed, AcknowledgedIsDurable
<1>7. MemoryIsSaved'
  BY <1>1, <1>2, <1>3 DEF Saved, MemoryIsSaved
<1>8. RenamedIsOnDisk'
  BY <1>1, <1>3 DEF Saved, RenamedIsOnDisk
<1> QED  BY <1>4, <1>5, <1>6, <1>7, <1>8 DEF Saved

\* The file becomes the copy, which is the memory of the Store that renames.
LEMMA RenameKeepsSaved ==
  ASSUME TypeOK, Saved, NEW c \in Calls, Rename(c)
  PROVE  Saved'
<1> DEFINE s == Here(c)
<1>1. /\ pc[c] = "filled" /\ pc' = [pc EXCEPT ![c] = "renamed"]
      /\ disk' = temp[c] /\ temp' = [temp EXCEPT ![c] = NoFile]
      /\ writer' = s /\ behind' = behind \ {s} /\ s \in Stores
      /\ UNCHANGED <<cache, lock, job, snapshot, owed>>
  BY CallFacts DEF Rename, Step, TempOf
<1>2. /\ disk' = Encoded(snapshot[c]) /\ snapshot[c] = cache[s] /\ cache[s] \in Maps
  BY <1>1 DEF Saved, Copies, Writing, TypeOK
<1>3. /\ \A d \in Calls : Here(d)' = Here(d)
      /\ \A d \in Calls : Writing(d)' <=> (Writing(d) /\ d # c)
      /\ \A d \in Calls : d # c => pc'[d] = pc[d]
      /\ pc'[c] = "renamed" /\ Writing(c)
  BY <1>1 DEF TypeOK, Here, Writing
<1>4. Exclusive'
  BY <1>1, <1>3 DEF Saved, Exclusive, Holds
<1>5. Copies'
  BY <1>1, <1>2, <1>3 DEF Saved, Copies, TypeOK
<1>6. /\ disk' \in Maps
      /\ \A k \in Keys : disk'[k] = Json(cache[s][k]) /\ disk'[k] \notin Lossy
  BY <1>2, EncodedFacts
<1>7. DiskIsPlain' /\ MemoryIsOwed'
  BY <1>1, <1>6 DEF Saved, DiskIsPlain, MemoryIsOwed
<1>8. AcknowledgedIsDurable'
  <2>1. cache[s] # Unread
    BY <1>2, StoreAssumption
  <2> QED  BY <1>1, <1>6, <2>1 DEF Saved, MemoryIsOwed, AcknowledgedIsDurable
<1>9. MemoryIsSaved'
  BY <1>1, <1>2 DEF MemoryIsSaved
<1>10. RenamedIsOnDisk'
  <2> SUFFICES ASSUME NEW d \in Calls, pc'[d] = "renamed", Here(d) = s
               PROVE  disk' = Encoded(snapshot[d])
    BY <1>1, <1>3 DEF RenamedIsOnDisk
  <2>1. d = c
    BY <1>3, OneAtATime DEF Saved
  <2> QED  BY <1>2, <2>1
<1> QED  BY <1>4, <1>5, <1>7, <1>8, <1>9, <1>10 DEF Saved

LEMMA AcknowledgeKeepsSaved ==
  ASSUME TypeOK, Saved, NEW c \in Calls, Acknowledge(c)
  PROVE  Saved'
<1> DEFINE s == Here(c)
<1> DEFINE v == Json(snapshot[c][job[c].key])
<1>1. /\ pc[c] = "renamed" /\ pc' = [pc EXCEPT ![c] = "done"]
      /\ lock' = [lock EXCEPT ![s] = Nobody]
      /\ owed' = [owed EXCEPT ![s][job[c].key] = {v}]
      /\ UNCHANGED <<disk, temp, cache, job, snapshot, writer, behind>>
  BY DEF Acknowledge, Finish, Release
<1>2. /\ s \in Stores /\ job[c].key \in Keys /\ snapshot[c] = cache[s]
      /\ writer = s => disk = Encoded(snapshot[c])
      /\ snapshot[c] \in Maps
  BY <1>1, CallFacts DEF Saved, Copies, RenamedIsOnDisk, TypeOK
<1>3. /\ \A d \in Calls : Here(d)' = Here(d)
      /\ \A d \in Calls : Writing(d)' = Writing(d)
      /\ \A d \in Calls : d # c => pc'[d] = pc[d]
      /\ pc'[c] = "done" /\ ~Writing(c)
  BY <1>1 DEF TypeOK, Here, Writing
<1>4. Exclusive'
  <2> SUFFICES ASSUME NEW d \in Calls \ {c},
                      pc[d] = "holding" \/ Writing(d) \/ pc[d] = "renamed"
               PROVE  lock'[Here(d)] = d
    BY <1>3 DEF Exclusive, Holds
  <2>1. Here(d) # s
    BY <1>1, OneAtATime DEF Saved
  <2> QED  BY <1>1, <2>1, CallFacts DEF Saved, Exclusive, Holds, TypeOK
<1>5. Copies' /\ DiskIsPlain' /\ RenamedIsOnDisk'
  BY <1>1, <1>3 DEF Saved, Copies, DiskIsPlain, RenamedIsOnDisk
<1>6. \A t \in Stores, k \in Keys :
        \/ owed'[t][k] = owed[t][k]
        \/ t = s /\ k = job[c].key /\ owed'[t][k] = {v}
  BY <1>1, <1>2 DEF TypeOK
<1>7. MemoryIsOwed'
  BY <1>1, <1>2, <1>6 DEF Saved, MemoryIsOwed
<1>8. AcknowledgedIsDurable'
  BY <1>1, <1>2, <1>6, EncodedFacts DEF Saved, AcknowledgedIsDurable
<1>9. MemoryIsSaved'
  BY <1>1, <1>3 DEF Saved, MemoryIsSaved
<1> QED  BY <1>4, <1>5, <1>7, <1>8, <1>9 DEF Saved

\* A process that dies leaves the file and what its callers were told.
LEMMA CrashKeepsSaved ==
  ASSUME TypeOK, Saved, NEW s \in Stores, Crash(s)
  PROVE  Saved'
<1>1. /\ cache' = [cache EXCEPT ![s] = Unread] /\ lock' = [lock EXCEPT ![s] = Nobody]
      /\ pc' = [c \in Calls |-> IF Here(c) = s /\ pc[c] \notin {"idle", "done"}
                                  THEN "lost" ELSE pc[c]]
      /\ behind' = behind \ {s}
      /\ UNCHANGED <<disk, temp, job, snapshot, writer, owed>>
  BY DEF Crash
<1>2. /\ \A d \in Calls : Here(d)' = Here(d) /\ Here(d) \in Stores
      /\ \A d \in Calls : Here(d) # s => pc'[d] = pc[d] /\ Writing(d)' = Writing(d)
      /\ \A d \in Calls : Here(d) = s =>
           ~Writing(d)' /\ pc'[d] # "holding" /\ pc'[d] # "renamed" /\ pc'[d] # "filled"
      /\ \A t \in Stores \ {s} : cache'[t] = cache[t] /\ lock'[t] = lock[t]
      /\ cache'[s] = Unread
  BY <1>1, CallFacts DEF Here, Writing, TypeOK
<1>3. Exclusive' /\ Copies' /\ RenamedIsOnDisk'
  BY <1>1, <1>2 DEF Saved, Exclusive, Copies, RenamedIsOnDisk, Holds
<1>4. DiskIsPlain' /\ MemoryIsOwed' /\ AcknowledgedIsDurable'
  BY <1>1, <1>2 DEF Saved, DiskIsPlain, MemoryIsOwed, AcknowledgedIsDurable
<1>5. MemoryIsSaved'
  BY <1>1, <1>2 DEF Saved, MemoryIsSaved
<1> QED  BY <1>3, <1>4, <1>5 DEF Saved

LEMMA NextSaved == TypeOK /\ Saved /\ [Next]_vars => Saved'
<1> SUFFICES ASSUME TypeOK, Saved, [Next]_vars PROVE Saved'
  OBVIOUS
<1>1. CASE UNCHANGED vars
  BY <1>1 DEF vars, Saved, Exclusive, Copies, DiskIsPlain, MemoryIsOwed,
     AcknowledgedIsDurable, MemoryIsSaved, RenamedIsOnDisk, Holds, Here, Writing
<1> QED
  BY <1>1, PrepareKeepsSaved, LoadKeepsSaved, ApplyKeepsSaved, EndKeepsSaved,
     RenameKeepsSaved, AcknowledgeKeepsSaved, CrashKeepsSaved DEF Next, Work

LEMMA SavedInvariant == Spec => [](TypeOK /\ Saved)
<1>1. TypeOK /\ Saved /\ [Next]_vars => (TypeOK /\ Saved)'
  BY NextType, NextSaved
<1> QED  BY <1>1, InitType, InitSaved, PTL DEF Spec

\* What a caller was told was saved is in the file, over crashes, restarts,
\* failures and other Stores at work, until its Store writes the key again;
\* and a Store at rest serves what a restart would find.
THEOREM TheFileIsWhatWasSaid == Spec => []FileIsWhatWasSaid
<1>1. TypeOK /\ Saved => FileIsWhatWasSaid
  <2> SUFFICES ASSUME TypeOK, Saved PROVE AtRestIsSaved
    BY DEF Saved, FileIsWhatWasSaid
  <2>1. ASSUME NEW s \in Stores, lock[s] = Nobody
        PROVE  \A c \in Calls : Here(c) = s => ~Writing(c)
    BY <2>1, StoreAssumption DEF Saved, Exclusive, Holds
  <2> QED  BY <2>1 DEF Saved, MemoryIsSaved, AtRestIsSaved
<1> QED  BY <1>1, SavedInvariant, PTL

(***************************************************************************)
(* Store implements DurableMap.                                            *)
(***************************************************************************)

\* What DurableMap calls saved: what a Store that opens now would find.
Found == IF disk \in {NoFile, Torn} THEN Absent ELSE disk

\* A load is an Open, an update of memory a Put, a rename a Save and a crash a
\* Die; every other step of a call is invisible.
LEMMA StepImplementsDurableMap ==
  TypeOK /\ Saved /\ [Next]_vars => [M!Next]_<<cache, Found>>
<1> SUFFICES ASSUME TypeOK, Saved, [Next]_vars PROVE [M!Next]_<<cache, Found>>
  OBVIOUS
<1>1. ASSUME NEW c \in Calls, Load(c) PROVE M!Next
  <2>1. PICK l \in Loads(disk) : cache' = [cache EXCEPT ![Here(c)] = l.map]
    BY <1>1 DEF Load
  <2>2. /\ l.map \in [Keys -> Contents]
        /\ l.map = Found \/ \A k \in Keys : l.map[k] = Absent
    BY StoreAssumption, LoadFacts, EmptyFacts DEF TypeOK, Maps, Found
  <2>3. Found' = Found /\ Here(c) \in Stores /\ cache[Here(c)] = Unread
    BY <1>1, CallFacts DEF Load, Found
  <2>4. M!Open(Here(c))
    BY <2>1, <2>2, <2>3 DEF M!Open, Found
  <2> QED  BY <2>3, <2>4 DEF M!Next
<1>2. ASSUME NEW c \in Calls, Apply(c) PROVE M!Next
  <2>1. /\ cache[Here(c)] # Unread /\ Found' = Found
        /\ cache' = [cache EXCEPT ![Here(c)] = Put(@, job[c])]
    BY <1>2 DEF Apply, Found
  <2>2. cache' = [cache EXCEPT ![Here(c)][job[c].key] = job[c].value]
    BY <2>1 DEF Put
  <2>3. M!Put(Here(c))
    BY <2>1, <2>2, CallFacts DEF M!Put, Found
  <2> QED  BY <2>3, CallFacts DEF M!Next
<1>3. ASSUME NEW c \in Calls, Rename(c) PROVE M!Next
  <2>1. /\ cache' = cache /\ disk' = Encoded(snapshot[c])
        /\ snapshot[c] = cache[Here(c)] /\ cache[Here(c)] \in Maps
    BY <1>3 DEF Rename, Step, TempOf, Saved, Copies, Writing, TypeOK
  <2>2. Found' = Encoded(cache[Here(c)])
    BY <2>1, EncodedFacts, StoreAssumption DEF Found
  <2>3. M!Save(Here(c))
    BY <2>1, <2>2, StoreAssumption DEF M!Save, Found, Encoded
  <2> QED  BY <2>3, CallFacts DEF M!Next
<1>4. ASSUME NEW s \in Stores, Crash(s) PROVE M!Next
  BY <1>4 DEF Crash, M!Die, M!Next, Found
<1>5. ASSUME NEW c \in Calls,
             \/ Place(c) \/ Acquire(c) \/ Read(c) \/ Create(c) \/ Fill(c)
             \/ WriteFails(c) \/ RenameFails(c) \/ Acknowledge(c)
      PROVE  UNCHANGED <<cache, Found>>
  BY <1>5 DEF Place, Acquire, Read, Create, Fill, WriteFails, RenameFails,
     Acknowledge, Found
<1>6. CASE UNCHANGED vars
  BY <1>6 DEF vars, Found
<1> QED  BY <1>1, <1>2, <1>3, <1>4, <1>5, <1>6 DEF Next, Work

\* Under its lock, its tasks and its temporary files the Store is one map per
\* opened store, saved whole and in one step.
THEOREM StoreImplementsDurableMap == Spec => ImplementsDurableMap
<1>1. Init => M!Init
  BY DEF Init, M!Init, Maps
<1> QED
  BY <1>1, SavedInvariant, StepImplementsDurableMap, PTL
  DEF Spec, ImplementsDurableMap, M!Spec, Found
=============================================================================
