------------------------------- MODULE Reload -------------------------------
(***************************************************************************)
(* Hot reload: an editor saves the program, a watcher re-reads it once the  *)
(* writes have stopped and leaves it in a slot of one place, and the logic  *)
(* thread takes it at the start of a tick.  A program whose declarations    *)
(* agree with the running one's replaces it at once and keeps the values of *)
(* its `var`s; under `byard dev` another one waits for the end of a press.  *)
(*                                                                         *)
(* Of a program the model keeps what a reload looks at: the root view, as   *)
(* the declaration of its one `var` and the rest of its body, and the other *)
(* views, which the root does not use.  A file may also be Empty, as a save *)
(* that truncates first makes it for a moment, or Broken.                   *)
(***************************************************************************)
EXTENDS Naturals

CONSTANTS Types, Bodies, Views,
          None,          \* no annotation; nothing held, nothing in the slot
          Programs,      \* those that are saved
          Empty, Broken, \* no view; does not compile
          MaxSaves       \* bound: the number of saves

Roots  == [annotation : Types \cup {None}, type : Types, body : Bodies]
Values == [type : Types, touched : BOOLEAN]

ASSUME ReloadAssumption ==
  /\ Programs \subseteq [root : Roots, others : SUBSET Views]
  /\ \A p \in Programs : p.root.annotation \in {None, p.root.type}
  /\ Empty \notin Programs /\ Broken \notin Programs /\ Empty # Broken
  /\ None \notin Types \cup Roots \cup Values \cup Programs \cup {Empty, Broken}
  /\ MaxSaves \in Nat

VARIABLES gated,    \* the host is byard dev; an app that follows its project has no gate
          disk,     \* what the file holds
          saving,   \* what an editor is about to write into the file it truncated
          saves,
          signal,   \* whether changed_rx holds anything
          watcher,  \* "waiting", "settling", "reading", "publishing", "sending"
          parsed,   \* what the watcher has read
          slot,     \* LatestWins
          phase,    \* of the tick: "take", "release", "dispatch"
          pressed,  \* is_pointer_pressed
          held,     \* PendingReload
          current,  \* current_views
          tree,     \* the root the tree was lowered from
          state,    \* the value of the `var`: its type, and whether the user changed it
          overlay,  \* error_state
          newest,   \* history: the last program that was taken, at first the one started
          skipped,  \* history: the tree was not lowered though the program changed
          loose,    \* history: the value was kept where no two written types agreed
          overtaken \* history: a held program was applied though a newer one had been taken
file  == <<disk, saving, saves>>
watch == <<watcher, parsed>>
shown == <<current, tree, state, overlay, skipped, loose, overtaken>>
vars  == <<gated, file, signal, watch, slot, phase, pressed, held, shown, newest>>

Good     == Programs \cup {Empty}
Contents == Good \cup {Broken}
-----------------------------------------------------------------------------
FaultyAgree(r, q) ==   \* whether a type is written, not which
  (r.annotation = None) = (q.annotation = None)

\* same_type, by way of diff_view: a type that is not written agrees with any.
Agree(r, q) == \/ None \in {r.annotation, q.annotation}
               \/ r.annotation = q.annotation

\* diff_program, at its worst over the views; Empty has no view at all.
Compatible(p, q) ==
  \/ p = Empty /\ q = Empty
  \/ Empty \notin {p, q} /\ p.others = q.others /\ Agree(p.root, q.root)

FaultyFresh(r) ==   \* the type is taken from the annotation alone
  [type |-> r.annotation, touched |-> FALSE]

Fresh(r) == [type |-> r.type, touched |-> FALSE]

\* apply_program, with what apply_reload does around it.
Apply(p) ==
  LET rooted  == Empty \notin {current, p}
      relower == rooted /\ p.root # current.root
      keep    == relower /\ state # None /\ Agree(current.root, p.root)
  IN /\ current' = p
     /\ overlay' = FALSE
     /\ tree'    = IF relower THEN p.root ELSE tree
     /\ state'   = IF relower /\ ~keep THEN Fresh(p.root) ELSE state
     /\ skipped' = IF rooted THEN skipped /\ ~relower ELSE skipped \/ p # current
     /\ loose'   = IF relower
                     THEN keep /\ (loose \/ skipped \/ None \in {current.root.annotation, p.root.annotation})
                     ELSE loose

Init ==
  /\ gated \in BOOLEAN
  /\ disk \in IF gated THEN Contents ELSE Programs   \* an app is refused the rest
  \* Of a program that is broken when byard dev starts, the views that parsed run.
  /\ current \in IF disk = Broken THEN Good ELSE {disk}
  /\ tree  = IF current = Empty THEN None ELSE current.root
  /\ state = IF current = Empty THEN None ELSE Fresh(current.root)
  /\ overlay = (gated /\ disk = Broken) /\ newest = current
  /\ saving = None /\ saves = 0 /\ signal = FALSE
  /\ watcher = "waiting" /\ parsed = None /\ slot = None
  /\ phase = "take" /\ pressed = FALSE /\ held = None
  /\ skipped = (current = Empty) /\ loose = FALSE /\ overtaken = FALSE
-----------------------------------------------------------------------------
(* The editor: a save is a truncate and then a write, both of them events.  *)
Truncate(c) ==
  /\ saving = None /\ saves < MaxSaves
  /\ saving' = c /\ disk' = Empty /\ saves' = saves + 1
  /\ signal' = TRUE
  /\ UNCHANGED <<gated, watch, slot, phase, pressed, held, shown, newest>>

Write ==
  /\ saving # None
  /\ disk' = saving /\ saving' = None
  /\ signal' = TRUE
  /\ UNCHANGED <<gated, saves, watch, slot, phase, pressed, held, shown, newest>>

(* The watcher's thread.  It settles while events keep coming; SETTLE is     *)
(* taken to be longer than a save, so that it does not end within one.  One  *)
(* may still begin before the program is read.                              *)
Hear ==
  /\ watcher \in {"waiting", "settling"} /\ signal
  /\ watcher' = "settling" /\ signal' = FALSE
  /\ UNCHANGED <<gated, file, parsed, slot, phase, pressed, held, shown, newest>>

Settle ==
  /\ watcher = "settling" /\ ~signal /\ saving = None
  /\ watcher' = "reading"
  /\ UNCHANGED <<gated, file, signal, parsed, slot, phase, pressed, held, shown, newest>>

Read ==
  /\ watcher = "reading"
  /\ watcher' = "publishing" /\ parsed' = disk
  /\ UNCHANGED <<gated, file, signal, slot, phase, pressed, held, shown, newest>>

FaultyDropStale ==  \* try_send into the full slot: the first save wins
  /\ watcher = "publishing"
  /\ watcher' = "sending"
  /\ UNCHANGED <<gated, file, signal, slot, parsed, phase, pressed, held, shown, newest>>

\* publish: what nobody took is dropped, then the new one is sent.
DropStale ==
  /\ watcher = "publishing"
  /\ watcher' = "sending" /\ slot' = None
  /\ UNCHANGED <<gated, file, signal, parsed, phase, pressed, held, shown, newest>>

Send ==
  /\ watcher = "sending"
  /\ watcher' = "waiting" /\ parsed' = None
  /\ slot' = IF slot = None THEN parsed ELSE slot
  /\ UNCHANGED <<gated, file, signal, phase, pressed, held, shown, newest>>

-----------------------------------------------------------------------------
FaultyDefers(p) ==  \* the press is not asked for
  FALSE /\ p \in Good

\* gate
Defers(p) == gated /\ pressed /\ ~Compatible(current, p)

\* Step 0 of a tick: what was published is taken, reported, held or applied.
TakeNothing == slot = None /\ UNCHANGED <<slot, held, shown, newest>>

TakeBroken == /\ slot = Broken
              /\ slot' = None
              /\ overlay' = (overlay \/ gated)
              /\ UNCHANGED <<held, current, tree, state, skipped, loose, overtaken, newest>>

TakeProgram == /\ slot \in Good
               /\ slot' = None /\ newest' = slot
               /\ IF Defers(slot) THEN held' = slot /\ UNCHANGED shown
                                  ELSE Apply(slot) /\ overtaken' = FALSE /\ UNCHANGED held

Take ==
  /\ phase = "take"
  /\ phase' = "release"
  /\ TakeNothing \/ TakeBroken \/ TakeProgram
  /\ UNCHANGED <<gated, file, signal, watch, pressed>>

\* Step 0b: what is held is applied once nothing is pressed.
Release ==
  /\ phase = "release"
  /\ phase' = "dispatch"
  /\ IF held # None /\ ~pressed THEN Apply(held) /\ held' = None /\ overtaken' = (held # newest)
                                ELSE UNCHANGED <<held, shown>>
  /\ UNCHANGED <<gated, file, signal, watch, slot, pressed, newest>>

\* Step 1: input presses, releases, and changes what the program remembers.
Dispatch ==
  /\ phase = "dispatch"
  /\ phase' = "take"
  /\ pressed' \in BOOLEAN
  /\ \/ state # None /\ state' = [state EXCEPT !.touched = TRUE]
     \/ state' = state
  /\ UNCHANGED <<gated, file, signal, watch, slot, held, current, tree, overlay, skipped, loose, overtaken,
                 newest>>
-----------------------------------------------------------------------------
Watch == Hear \/ Settle \/ Read \/ DropStale \/ Send
Tick  == Take \/ Release \/ Dispatch

Next == (\E c \in Contents : Truncate(c)) \/ Write \/ Watch \/ Tick

Spec     == Init /\ [][Next]_vars
\* An editor finishes a save; the two threads run.  Nobody need save or release.
FairSpec == Spec /\ WF_vars(Write) /\ WF_vars(Watch) /\ WF_vars(Tick)
-----------------------------------------------------------------------------
TypeOK ==
  /\ disk \in Contents /\ saving \in Contents \cup {None} /\ saves \in 0 .. MaxSaves
  /\ signal \in BOOLEAN /\ watcher \in {"waiting", "settling", "reading", "publishing", "sending"}
  /\ parsed \in Contents \cup {None} /\ slot \in Contents \cup {None}
  /\ phase \in {"take", "release", "dispatch"} /\ pressed \in BOOLEAN
  /\ held \in Good \cup {None} /\ (held # None => gated)
  /\ current \in Good /\ newest \in Good
  /\ tree \in Roots \cup {None} /\ state \in Values \cup {None}
  /\ (tree = None) = (state = None)
  /\ {gated, overlay, skipped, loose, overtaken} \subseteq BOOLEAN

(* The tree is the one of the program, and the `var` it reads holds a value *)
(* of the type it declares, however many edits the value has come through.  *)
(* Known gaps: a program without a root on either side of an apply leaves   *)
(* the tree as it is, and a type that is not written agrees with any.       *)
ValuesFitTheTree ==
  /\ ~skipped => current # Empty /\ tree = current.root
  /\ ~skipped /\ ~loose => state.type = tree.type

(* What the user changed goes only with a declaration that changed, and     *)
(* under byard dev such a change never comes between a press and its        *)
(* release.                                                                 *)
OnlyRetypedStateIsLost ==
  [][tree' # tree /\ tree # None /\ ~skipped =>
       IF Agree(tree, tree') THEN state' = state
       ELSE ~state'.touched /\ ~(gated /\ pressed)]_vars

(* A program that stays in the file is the one that runs, sooner or later,  *)
(* once nothing is pressed for good.  Known gap: what a held older program  *)
(* replaced when it was released.                                           *)
SavedProgramRuns ==
  <>[](saving = None /\ disk \in Programs /\ ~pressed)
    => <>[](current = disk \/ overtaken)

(* What was applied last is what was saved last: dev.rs:238-239, "A newer   *)
(* save supersedes an older deferred one: applying the stale views          *)
(* afterwards would undo an edit the developer already made".               *)
NewestIsApplied == phase = "dispatch" /\ held = None => current = newest
=============================================================================
