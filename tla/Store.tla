------------------------------- MODULE Store -------------------------------
(***************************************************************************)
(* The Store capability: a map kept in one JSON file, read once and then    *)
(* served from memory, written whole to a temporary file that is renamed    *)
(* over the real one.  Every call is a task of the I/O pool.  Several       *)
(* Stores may share the file: two processes of one app, or two `Store::at`. *)
(*                                                                         *)
(* A read, a write and a rename may each fail, and a process may die        *)
(* between any two steps and start again.                                   *)
(***************************************************************************)
EXTENDS FiniteSets

CONSTANTS Stores,      \* Store values over one path (a clone is the same Store)
          Calls,       \* the calls placed, in all runs of the app
          Keys,
          Values,      \* what a program may set
          Lossy,       \* those of them with no JSON form: NaN, the infinities
          Unit,        \* `null`
          Absent,      \* no such key
          NoFile, Torn,   \* a file that is not there, one that does not parse
          Unread,      \* a cache not loaded yet
          Nobody       \* the holder of a free lock

Contents == Values \cup {Unit, Absent}
Maps     == [Keys -> Contents]

ASSUME StoreAssumption ==
  /\ Stores # {} /\ Keys # {}
  /\ Lossy \subseteq Values
  /\ Unit \notin Lossy /\ Absent \notin Values \cup {Unit}
  /\ NoFile # Torn /\ Nobody \notin Calls \cup Stores
  /\ \A x \in {NoFile, Torn, Unread} : x \notin Maps    \* no map is one of these

Empty    == [k \in Keys |-> Absent]
\* `get` and `keys` read the map; `set` puts a value and `remove` its absence.
Reads    == [store : Stores, op : {"read"}, key : {CHOOSE k \in Keys : TRUE}, value : {Absent}]
Writes   == [store : Stores, op : {"write"}, key : Keys, value : Values \cup {Absent}]

VARIABLES disk,       \* store.json
          temp,       \* the temporary files, by the call that names them
          cache,      \* Inner::state
          lock,       \* who holds its mutex
          job,        \* per call: what it was asked
          pc,         \* per call: how far its task is
          snapshot,   \* per call: the copy of the map it writes
          answer,     \* per call: the reply
          writer,     \* history: whose rename was the last
          owed,       \* history: per store and key, what the file may hold
          behind      \* history: the Stores that told a caller memory and file differ
vars == <<disk, temp, cache, lock, job, pc, snapshot, answer, writer, owed, behind>>
history == <<writer, owed, behind>>
-----------------------------------------------------------------------------
(* A number that is not finite is written as null; everything else a program *)
(* can set comes back as itself.                                             *)
Json(v) == IF v \in Lossy THEN Unit ELSE v

\* A bug: a key without a value is left out of the object.
FaultyEncoded(m) == [k \in {k \in Keys : m[k] \notin Lossy} |-> m[k]]

Encoded(m) == [k \in Keys |-> Json(m[k])]

\* Temporary names are unique: the process id and a counter.
TempOf(c) == c

\* The maps a load may end in, and whether it has something to report.
Loads(d) ==
  [map : IF d \in {NoFile, Torn} THEN {Empty} ELSE {d}, note : {d = Torn}]
    \cup [map : {Empty}, note : {TRUE}]    \* the read itself failed

\* What a call writes into the map.
Put(m, j) == [m EXCEPT ![j.key] = j.value]

Here(c)    == job[c].store
Holds(c)   == lock[Here(c)] = c
Step(c, from, to) == pc[c] = from /\ pc' = [pc EXCEPT ![c] = to]

\* A bug: an error returns with the lock still held.
FaultyRelease(c) ==
  lock' = IF answer'[c] = "err" THEN lock ELSE [lock EXCEPT ![Here(c)] = Nobody]

Release(c) == lock' = [lock EXCEPT ![Here(c)] = Nobody]

\* The call is over; dropping the guard lets the next one in.
Finish(c, how) ==
  /\ pc' = [pc EXCEPT ![c] = "done"]
  /\ answer' = [answer EXCEPT ![c] = how]
  /\ Release(c)
-----------------------------------------------------------------------------
Init ==
  /\ disk \in Maps \cup {NoFile, Torn}
  /\ disk \in Maps => \A k \in Keys : disk[k] \notin Lossy
  /\ temp = [c \in Calls |-> NoFile]
  /\ cache = [s \in Stores |-> Unread]
  /\ lock = [s \in Stores |-> Nobody]
  /\ job = [c \in Calls |-> CHOOSE j \in Reads : TRUE]
  /\ pc = [c \in Calls |-> "idle"]
  /\ snapshot = [c \in Calls |-> Empty]
  /\ answer = [c \in Calls |-> "none"]
  /\ writer = Nobody
  /\ owed = [s \in Stores |-> [k \in Keys |-> {}]]
  /\ behind = {}

Place(c) ==
  /\ Step(c, "idle", "queued")
  /\ \E j \in Reads \cup Writes : job' = [job EXCEPT ![c] = j]
  /\ UNCHANGED <<disk, temp, cache, lock, snapshot, answer, history>>

\* A bug: the lock does not span the write.
FaultyAcquire(c) ==
  /\ Step(c, "queued", "holding")
  /\ lock' = [lock EXCEPT ![Here(c)] = c]
  /\ UNCHANGED <<disk, temp, cache, job, snapshot, answer, history>>

Acquire(c) ==
  /\ Step(c, "queued", "holding")
  /\ lock[Here(c)] = Nobody
  /\ lock' = [lock EXCEPT ![Here(c)] = c]
  /\ UNCHANGED <<disk, temp, cache, job, snapshot, answer, history>>

(* The first use reads the file.  A load with something to report answers the *)
(* call that met it and leaves the map empty.                                 *)
Load(c) ==
  /\ pc[c] = "holding" /\ Holds(c) /\ cache[Here(c)] = Unread
  /\ \E l \in Loads(disk) :
       /\ cache' = [cache EXCEPT ![Here(c)] = l.map]
       /\ owed' = [owed EXCEPT ![Here(c)] =
                     [k \in Keys |-> {l.map[k]} \cup IF l.note THEN @[k] ELSE {}]]
       /\ IF l.note THEN Finish(c, "err") /\ behind' = behind \cup {Here(c)}
                    ELSE UNCHANGED <<pc, answer, lock, behind>>
  /\ UNCHANGED <<disk, temp, job, snapshot, writer>>

Read(c) ==
  /\ pc[c] = "holding" /\ Holds(c) /\ cache[Here(c)] # Unread
  /\ job[c].op = "read"
  /\ Finish(c, "ok")
  /\ UNCHANGED <<disk, temp, cache, job, snapshot, history>>

Apply(c) ==
  /\ Step(c, "holding", "applied") /\ Holds(c) /\ cache[Here(c)] # Unread
  /\ job[c].op = "write"
  /\ LET m == Put(cache[Here(c)], job[c])
     IN /\ cache' = [cache EXCEPT ![Here(c)] = m]
        /\ snapshot' = [snapshot EXCEPT ![c] = m]
        /\ owed' = [owed EXCEPT ![Here(c)][job[c].key] = @ \cup {Json(m[job[c].key])}]
  /\ UNCHANGED <<disk, temp, lock, job, answer, writer, behind>>

\* The file is created, and holds nothing yet.
Create(c) ==
  /\ Step(c, "applied", "created")
  /\ temp' = [temp EXCEPT ![TempOf(c)] = Torn]
  /\ UNCHANGED <<disk, cache, lock, job, snapshot, answer, history>>

\* A bug: only the key that was set is written.
FaultyFill(c) ==
  /\ Step(c, "created", "filled")
  /\ temp' = [temp EXCEPT ![TempOf(c)] = [Empty EXCEPT ![job[c].key] = Json(job[c].value)]]
  /\ UNCHANGED <<disk, cache, lock, job, snapshot, answer, history>>

Fill(c) ==
  /\ Step(c, "created", "filled")
  /\ temp' = [temp EXCEPT ![TempOf(c)] = Encoded(snapshot[c])]
  /\ UNCHANGED <<disk, cache, lock, job, snapshot, answer, history>>

(* No directory, no space: the error is returned at once, and what was written *)
(* so far stays where it is.                                                   *)
WriteFails(c) ==
  /\ pc[c] \in {"applied", "created"}
  /\ Finish(c, "err")
  /\ behind' = behind \cup {Here(c)}
  /\ UNCHANGED <<disk, temp, cache, job, snapshot, writer, owed>>

Rename(c) ==
  /\ Step(c, "filled", "renamed")
  /\ temp[TempOf(c)] # NoFile
  /\ disk' = temp[TempOf(c)]
  /\ temp' = [temp EXCEPT ![TempOf(c)] = NoFile]
  /\ writer' = Here(c)
  /\ behind' = behind \ {Here(c)}
  /\ UNCHANGED <<cache, lock, job, snapshot, answer, owed>>

RenameFails(c) ==
  /\ pc[c] = "filled"
  /\ temp' = [temp EXCEPT ![TempOf(c)] = NoFile]     \* remove_file
  /\ Finish(c, "err")
  /\ behind' = behind \cup {Here(c)}
  /\ UNCHANGED <<disk, cache, job, snapshot, writer, owed>>

Acknowledge(c) ==
  /\ pc[c] = "renamed"
  /\ Finish(c, "ok")
  /\ owed' = [owed EXCEPT ![Here(c)][job[c].key] = {Json(snapshot[c][job[c].key])}]
  /\ UNCHANGED <<disk, temp, cache, job, snapshot, writer, behind>>

(* The process of a Store dies: its tasks and its memory are gone, the files *)
(* stay.  A call placed later belongs to the next run of the app.            *)
Crash(s) ==
  /\ cache[s] # Unread \/ lock[s] # Nobody
  /\ cache' = [cache EXCEPT ![s] = Unread]
  /\ lock' = [lock EXCEPT ![s] = Nobody]
  /\ pc' = [c \in Calls |-> IF Here(c) = s /\ pc[c] \notin {"idle", "done"}
                              THEN "lost" ELSE pc[c]]
  /\ behind' = behind \ {s}
  /\ UNCHANGED <<disk, temp, job, snapshot, answer, writer, owed>>
-----------------------------------------------------------------------------
Work(c) == \/ Acquire(c) \/ Load(c) \/ Read(c) \/ Apply(c) \/ Create(c) \/ Fill(c)
           \/ WriteFails(c) \/ Rename(c) \/ RenameFails(c) \/ Acknowledge(c)

Next == \/ \E c \in Calls : Place(c) \/ Work(c)
        \/ \E s \in Stores : Crash(s)

Spec     == Init /\ [][Next]_vars
\* The pool runs its tasks; a process need neither die nor stay up.
FairSpec == Spec /\ \A c \in Calls : WF_vars(Work(c))
-----------------------------------------------------------------------------
TypeOK ==
  /\ disk \in Maps \cup {NoFile, Torn}
  /\ temp \in [Calls -> Maps \cup {NoFile, Torn}]
  /\ cache \in [Stores -> Maps \cup {Unread}]
  /\ lock \in [Stores -> Calls \cup {Nobody}]
  /\ job \in [Calls -> Reads \cup Writes]
  /\ pc \in [Calls -> {"idle", "queued", "holding", "applied", "created", "filled",
                       "renamed", "done", "lost"}]
  /\ snapshot \in [Calls -> Maps]
  /\ answer \in [Calls -> {"none", "ok", "err"}]
  /\ writer \in Stores \cup {Nobody}
  /\ owed \in [Stores -> [Keys -> SUBSET Contents]]
  /\ behind \in SUBSET Stores

(* What was acknowledged stays, over crashes and restarts, until the same   *)
(* Store tries to write the key again, or could not read the file and goes  *)
(* on without it.  Another Store's rename replaces the file whole, and with *)
(* it what this one was told was saved: only the last to rename is owed.    *)
AcknowledgedIsDurable ==
  \A s \in Stores, k \in Keys : writer = s => disk \in Maps /\ disk[k] \in owed[s][k]

(* A Store at rest serves what a restart would find, a value without a JSON *)
(* form apart, unless one of its calls was told otherwise: after a write or *)
(* a read that failed, memory and file differ until the next write.         *)
AtRestIsSaved ==
  \A s \in Stores :
    writer = s /\ lock[s] = Nobody /\ cache[s] # Unread /\ s \notin behind
      => disk = Encoded(cache[s])

(* The file says what the Store said, acknowledging a write or serving a    *)
(* read.                                                                    *)
FileIsWhatWasSaid == AcknowledgedIsDurable /\ AtRestIsSaved

(* Every call is answered, whatever fails on the way, unless its process    *)
(* dies: no error path keeps the mutex.                                     *)
EveryCallIsAnswered ==
  \A c \in Calls : pc[c] = "queued" ~> pc[c] \in {"done", "lost"}

(* Under all of it the Store is DurableMap: one map per Store, saved whole. *)
M == INSTANCE DurableMap WITH
       memory <- cache, Blank <- Absent, AsSaved <- Json,
       saved  <- IF disk \in {NoFile, Torn} THEN Absent ELSE disk
ImplementsDurableMap == M!Spec
=============================================================================
