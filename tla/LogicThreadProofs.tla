------------------------- MODULE LogicThreadProofs -------------------------
(***************************************************************************)
(* Proofs about the logic thread.  First hot reload, for any set of         *)
(* programs, any editor and any number of saves; then, from "The loop" on,  *)
(* the thread's loop and its gate, for any number of events and animations  *)
(* of any length.  Reload has what the loop does with a reloaded program,   *)
(* LogicLoop who wakes it for one; they share no variable.                  *)
(***************************************************************************)
EXTENDS Reload, LogicLoop, TLAPS

LEMMA ProgramFacts ==
  /\ Good \subseteq Contents /\ Empty \in Good /\ MaxSaves \in Nat
  /\ None \notin Contents /\ None \notin Roots /\ None \notin Values
  /\ \A p \in Good : p # Empty => p \in Programs /\ p.root \in Roots
  /\ \A p \in Programs : p.root.annotation \in {None, p.root.type} /\ p # Empty
BY ReloadAssumption DEF Good, Contents

LEMMA FreshFacts ==
  ASSUME NEW r \in Roots
  PROVE  Fresh(r) \in Values /\ Fresh(r).type = r.type /\ ~Fresh(r).touched
BY DEF Fresh, Roots, Values

\* Declarations that agree, both written, are of one type.
LEMMA AgreeingTypes ==
  ASSUME NEW p \in Programs, NEW q \in Programs, Agree(p.root, q.root),
         None \notin {p.root.annotation, q.root.annotation}
  PROVE  p.root.type = q.root.type
BY ProgramFacts DEF Agree

(***************************************************************************)
(* What apply_program leaves behind.                                       *)
(***************************************************************************)

\* The tree is lowered exactly when both programs have a root and it changed.
LEMMA ApplyEnds ==
  ASSUME TypeOK, NEW p, Apply(p)
  PROVE  LET relower == Empty \notin {current, p} /\ p.root # current.root
             keep    == relower /\ state # None /\ Agree(current.root, p.root)
         IN  /\ current' = p /\ overlay' = FALSE
             /\ \/ /\ relower /\ tree' = p.root /\ skipped' = FALSE
                   /\ state' = IF keep THEN state ELSE Fresh(p.root)
                   /\ loose' = (keep /\ (loose \/ skipped
                                         \/ None \in {current.root.annotation, p.root.annotation}))
                \/ /\ ~relower /\ tree' = tree /\ state' = state /\ loose' = loose
                   /\ skipped' = IF Empty \notin {current, p} THEN skipped
                                                               ELSE skipped \/ p # current
<1> DEFINE rooted  == Empty \notin {current, p}
<1> DEFINE relower == rooted /\ p.root # current.root
<1> DEFINE keep    == relower /\ state # None /\ Agree(current.root, p.root)
<1> DEFINE bare    == None \in {current.root.annotation, p.root.annotation}
<1>1. /\ current' = p /\ overlay' = FALSE
      /\ tree'    = IF relower THEN p.root ELSE tree
      /\ state'   = IF relower /\ ~keep THEN Fresh(p.root) ELSE state
      /\ skipped' = IF rooted THEN skipped /\ ~relower ELSE skipped \/ p # current
      /\ loose'   = IF relower THEN keep /\ (loose \/ skipped \/ bare) ELSE loose
  BY DEF Apply
<1>2. relower => rooted
  OBVIOUS
<1>3. CASE relower
  <2> HIDE DEF rooted, relower, keep, bare
  <2>1. tree' = p.root
    BY <1>1, <1>3
  <2>2. skipped' = FALSE
    BY <1>1, <1>2, <1>3
  <2>3. state' = IF keep THEN state ELSE Fresh(p.root)
    BY <1>1, <1>3
  <2>4. loose' = (keep /\ (loose \/ skipped \/ bare))
    BY <1>1, <1>3, Zenon
  <2> QED  BY <1>1, <1>3, <2>1, <2>2, <2>3, <2>4 DEF rooted, relower, keep, bare
<1>4. CASE ~relower
  <2>1. tree' = tree /\ state' = state /\ loose' = loose
    <3> HIDE DEF rooted, relower, keep, bare
    <3> QED  BY <1>1, <1>4
  <2>2. skipped' = IF rooted THEN skipped ELSE skipped \/ p # current
    <3> HIDE DEF rooted, relower, keep, bare
    <3>1. CASE rooted
      <4>1. skipped' = (skipped /\ ~relower)
        BY <1>1, <3>1, Zenon
      <4>2. skipped' = skipped
        <5>1. skipped \in BOOLEAN
          BY DEF TypeOK
        <5> QED  BY <1>4, <4>1, <5>1
      <4> QED  BY <3>1, <4>2
    <3>2. CASE ~rooted
      BY <1>1, <3>2
    <3> QED  BY <3>1, <3>2
  <2> QED  BY <1>1, <1>4, <2>1, <2>2
<1> QED  BY <1>3, <1>4

LEMMA ApplyTypes ==
  ASSUME TypeOK, NEW p \in Good, Apply(p)
  PROVE  /\ current' \in Good /\ tree' \in Roots \cup {None}
         /\ state' \in Values \cup {None} /\ (tree' = None) = (state' = None)
         /\ {overlay', skipped', loose'} \subseteq BOOLEAN
<1> DEFINE relower == Empty \notin {current, p} /\ p.root # current.root
<1> DEFINE keep == relower /\ state # None /\ Agree(current.root, p.root)
<1>1. current' = p /\ overlay' = FALSE
  BY ApplyEnds
<1>2. CASE /\ relower /\ tree' = p.root /\ skipped' = FALSE
           /\ state' = IF keep THEN state ELSE Fresh(p.root)
           /\ loose' = (keep /\ (loose \/ skipped
                                 \/ None \in {current.root.annotation, p.root.annotation}))
  <2>1. p.root \in Roots /\ Fresh(p.root) \in Values
    BY <1>2, ProgramFacts, FreshFacts
  <2>2. state' \in Values
    BY <1>2, <2>1 DEF TypeOK
  <2>3. skipped' \in BOOLEAN /\ loose' \in BOOLEAN
    <3> HIDE DEF keep
    <3> QED  BY <1>2
  <2> QED  BY <1>1, <1>2, <2>1, <2>2, <2>3, ProgramFacts
<1>3. CASE /\ ~relower /\ tree' = tree /\ state' = state /\ loose' = loose
           /\ skipped' = IF Empty \notin {current, p} THEN skipped ELSE skipped \/ p # current
  BY <1>1, <1>3 DEF TypeOK
<1> QED  BY <1>2, <1>3, ApplyEnds

LEMMA ApplyFits ==
  ASSUME TypeOK, ValuesFitTheTree, NEW p \in Good, Apply(p)
  PROVE  ValuesFitTheTree'
<1> DEFINE relower == Empty \notin {current, p} /\ p.root # current.root
<1> DEFINE keep == relower /\ state # None /\ Agree(current.root, p.root)
<1>1. current' = p
  BY ApplyEnds
<1>2. CASE /\ relower /\ tree' = p.root /\ skipped' = FALSE
           /\ state' = IF keep THEN state ELSE Fresh(p.root)
           /\ loose' = (keep /\ (loose \/ skipped
                                 \/ None \in {current.root.annotation, p.root.annotation}))
  <2>1. p \in Programs /\ current \in Programs /\ p.root \in Roots
    BY <1>2, ProgramFacts DEF TypeOK
  <2>2. CASE ~keep
    BY <1>1, <1>2, <2>1, <2>2, FreshFacts DEF ValuesFitTheTree
  <2>3. CASE keep /\ ~loose'
    <3>1. ~loose /\ ~skipped /\ None \notin {current.root.annotation, p.root.annotation}
      BY <1>2, <2>3
    <3>2. current.root.type = p.root.type
      BY <2>1, <2>3, <3>1, AgreeingTypes
    <3>3. state'.type = p.root.type
      BY <1>2, <2>3, <3>1, <3>2 DEF ValuesFitTheTree
    <3> QED  BY <1>1, <1>2, <3>3 DEF ValuesFitTheTree
  <2>4. CASE loose'
    BY <1>1, <1>2, <2>4 DEF ValuesFitTheTree
  <2> QED  BY <2>2, <2>3, <2>4
<1>3. CASE /\ ~relower /\ tree' = tree /\ state' = state /\ loose' = loose
           /\ skipped' = IF Empty \notin {current, p} THEN skipped ELSE skipped \/ p # current
  BY <1>1, <1>3 DEF ValuesFitTheTree
<1> QED  BY <1>2, <1>3, ApplyEnds

(***************************************************************************)
(* Type correctness, and values that fit.                                  *)
(***************************************************************************)

IInv == TypeOK /\ ValuesFitTheTree

LEMMA InitInvariant == Init => IInv
<1> SUFFICES ASSUME Init PROVE IInv
  OBVIOUS
<1>1. disk \in Contents /\ current \in Good
  BY ProgramFacts DEF Init, Good, Contents
<1>a. /\ gated \in BOOLEAN /\ overlay \in BOOLEAN /\ skipped \in BOOLEAN
      /\ loose = FALSE /\ overtaken = FALSE /\ newest = current
      /\ signal = FALSE /\ pressed = FALSE /\ held = None
      /\ watcher = "waiting" /\ phase = "take"
  BY DEF Init
<1>b. saving = None /\ saves \in 0 .. MaxSaves /\ parsed = None /\ slot = None
  BY ProgramFacts DEF Init
<1>2. CASE current = Empty
  <2>1. tree = None /\ state = None /\ skipped
    BY <1>2 DEF Init
  <2>2. TypeOK
    BY <1>1, <1>a, <1>b, <2>1 DEF TypeOK
  <2> QED  BY <2>1, <2>2 DEF IInv, ValuesFitTheTree
<1>3. CASE current # Empty
  <2>1. current.root \in Roots /\ Fresh(current.root) \in Values
        /\ Fresh(current.root).type = current.root.type
    BY <1>1, <1>3, ProgramFacts, FreshFacts
  <2>2. tree = current.root /\ state = Fresh(current.root) /\ skipped = FALSE
    BY <1>3 DEF Init
  <2>3. TypeOK
    BY <1>1, <1>a, <1>b, <2>1, <2>2, ProgramFacts DEF TypeOK
  <2>4. ValuesFitTheTree
    BY <1>3, <2>1, <2>2 DEF ValuesFitTheTree
  <2> QED  BY <2>3, <2>4 DEF IInv
<1> QED  BY <1>2, <1>3

\* The editor and the watcher touch nothing the program is made of.
LEMMA OutsideInvariant ==
  ASSUME IInv, (\E c \in Contents : Truncate(c)) \/ Write \/ Watch
  PROVE  IInv' /\ UNCHANGED shown
<1>1. UNCHANGED <<gated, phase, pressed, held, shown, newest>>
  BY DEF Truncate, Write, Watch, Hear, Settle, Read, DropStale, Send
<1>2. /\ disk' \in Contents /\ saving' \in Contents \cup {None} /\ saves' \in 0 .. MaxSaves
      /\ signal' \in BOOLEAN
      /\ watcher' \in {"waiting", "settling", "reading", "publishing", "sending"}
      /\ parsed' \in Contents \cup {None} /\ slot' \in Contents \cup {None}
  <2>1. ASSUME NEW c \in Contents, Truncate(c)
        PROVE  disk' \in Contents /\ saving' \in Contents /\ saves' \in 0 .. MaxSaves
               /\ signal' \in BOOLEAN /\ UNCHANGED <<watch, slot>>
    BY <2>1, ProgramFacts DEF IInv, TypeOK, Truncate, Good, Contents
  <2>3. CASE Write
    BY <2>3, ProgramFacts DEF IInv, TypeOK, Write, watch
  <2>2. CASE Watch
    BY <2>2, ProgramFacts DEF IInv, TypeOK, Watch, Hear, Settle, Read, DropStale, Send, file
  <2> QED  BY <2>1, <2>2, <2>3 DEF IInv, TypeOK, watch
<1>3. TypeOK'
  BY <1>1, <1>2 DEF IInv, TypeOK, shown
<1>4. ValuesFitTheTree'
  BY <1>1 DEF IInv, ValuesFitTheTree, shown
<1> QED  BY <1>1, <1>3, <1>4 DEF IInv

LEMMA TakeInvariant ==
  ASSUME IInv, Take
  PROVE  IInv'
<1>1. /\ phase' \in {"take", "release", "dispatch"}
      /\ UNCHANGED <<gated, disk, saving, saves, signal, watcher, parsed, pressed>>
  BY DEF Take, file, watch
<1>2. CASE TakeNothing
  BY <1>1, <1>2 DEF TakeNothing, IInv, TypeOK, ValuesFitTheTree, shown
<1>3. CASE TakeBroken
  BY <1>1, <1>3 DEF TakeBroken, IInv, TypeOK, ValuesFitTheTree
<1>4. CASE TakeProgram
  <2>1. slot \in Good /\ slot' = None /\ newest' = slot /\ None \notin Good
    BY <1>4, ProgramFacts DEF TakeProgram
  <2>2. CASE Defers(slot)
    BY <1>1, <1>4, <2>1, <2>2 DEF TakeProgram, Defers, IInv, TypeOK, ValuesFitTheTree, shown
  <2>3. CASE ~Defers(slot)
    <3>1. Apply(slot) /\ overtaken' = FALSE /\ held' = held
      BY <1>4, <2>3 DEF TakeProgram
    <3>2. TypeOK'
      BY <1>1, <2>1, <3>1, ApplyTypes DEF IInv, TypeOK
    <3> QED  BY <2>1, <3>1, <3>2, ApplyFits DEF IInv
  <2> QED  BY <2>2, <2>3
<1> QED  BY <1>2, <1>3, <1>4 DEF Take

LEMMA ReleaseInvariant ==
  ASSUME IInv, Release
  PROVE  IInv'
<1>1. /\ phase' \in {"take", "release", "dispatch"}
      /\ UNCHANGED <<gated, disk, saving, saves, signal, watcher, parsed, slot, pressed, newest>>
  BY DEF Release, file, watch
<1>2. CASE held # None /\ ~pressed
  <2>1. /\ held \in Good /\ Apply(held) /\ held' = None
        /\ overtaken' \in BOOLEAN
    BY <1>2 DEF Release, IInv, TypeOK
  <2>2. TypeOK'
    BY <1>1, <2>1, ApplyTypes DEF IInv, TypeOK
  <2> QED  BY <2>1, <2>2, ApplyFits DEF IInv
<1>3. CASE ~(held # None /\ ~pressed)
  <2>1. UNCHANGED <<held, shown>>
    BY <1>3 DEF Release
  <2> QED  BY <1>1, <2>1 DEF IInv, TypeOK, ValuesFitTheTree, shown
<1> QED  BY <1>2, <1>3

LEMMA DispatchInvariant ==
  ASSUME IInv, Dispatch
  PROVE  IInv'
<1>1. /\ phase' \in {"take", "release", "dispatch"} /\ pressed' \in BOOLEAN
      /\ UNCHANGED <<gated, disk, saving, saves, signal, watcher, parsed, slot, held, current,
                     tree, overlay, skipped, loose, overtaken, newest>>
      /\ state' = state \/ (state # None /\ state' = [state EXCEPT !.touched = TRUE])
  BY DEF Dispatch, file, watch
<1>2. CASE state' = state
  BY <1>1, <1>2 DEF IInv, TypeOK, ValuesFitTheTree
<1>3. CASE state # None /\ state' = [state EXCEPT !.touched = TRUE]
  <2>1. state' \in Values /\ state'.type = state.type
    BY <1>3 DEF IInv, TypeOK, Values
  <2> QED  BY <1>1, <1>3, <2>1, ProgramFacts DEF IInv, TypeOK, ValuesFitTheTree
<1> QED  BY <1>1, <1>2, <1>3

LEMMA NextInvariant == IInv /\ [Next]_vars => IInv'
<1>1. IInv /\ UNCHANGED vars => IInv'
  BY DEF IInv, TypeOK, ValuesFitTheTree, vars, file, watch, shown
<1> QED
  BY <1>1, OutsideInvariant, TakeInvariant, ReleaseInvariant, DispatchInvariant DEF Next, Tick

LEMMA Invariant == Spec => []IInv
BY InitInvariant, NextInvariant, PTL DEF Spec

\* Every variable of the reload keeps its type; no program but byard dev's host
\* ever holds one back.
THEOREM TypeCorrect == Spec => []TypeOK
BY Invariant, PTL DEF IInv

\* However saves, reads, presses and ticks interleave, the tree is the running
\* program's and its `var` holds a value of the type it declares
\* (apply_program, diff_view).
THEOREM ValuesStayFit == Spec => []ValuesFitTheTree
BY Invariant, PTL DEF IInv

(***************************************************************************)
(* What a reload may lose.                                                 *)
(***************************************************************************)

OnlyRetyped ==
  tree' # tree /\ tree # None /\ ~skipped =>
    IF Agree(tree, tree') THEN state' = state
    ELSE ~state'.touched /\ ~(gated /\ pressed)

LEMMA ApplyLoses ==
  ASSUME IInv, NEW p \in Good, Apply(p), Compatible(current, p) \/ ~(gated /\ pressed)
  PROVE  OnlyRetyped
<1> SUFFICES ASSUME tree' # tree, tree # None, ~skipped
             PROVE  IF Agree(tree, tree') THEN state' = state
                    ELSE ~state'.touched /\ ~(gated /\ pressed)
  BY DEF OnlyRetyped
<1>1. /\ tree = current.root /\ state # None /\ TypeOK
  BY DEF IInv, ValuesFitTheTree, TypeOK
<1>2. /\ Empty \notin {current, p} /\ tree' = p.root
      /\ state' = IF state # None /\ Agree(current.root, p.root) THEN state ELSE Fresh(p.root)
  BY <1>1, ApplyEnds
<1>3. p.root \in Roots
  BY <1>2, ProgramFacts
<1>4. CASE Agree(tree, tree')
  BY <1>1, <1>2, <1>4
<1>5. CASE ~Agree(tree, tree')
  <2>1. ~state'.touched
    BY <1>1, <1>2, <1>3, <1>5, FreshFacts
  <2>2. ~Compatible(current, p)
    BY <1>1, <1>2, <1>5 DEF Compatible
  <2> QED  BY <1>5, <2>1, <2>2
<1> QED  BY <1>4, <1>5

\* What the user changed goes only with a declaration that changed, and never
\* between a press and its release (Driver::gate, carry_state).
THEOREM EditsKeepState == Spec => OnlyRetypedStateIsLost
<1>1. IInv /\ [Next]_vars => [OnlyRetyped]_vars
  <2> SUFFICES ASSUME IInv, [Next]_vars, tree' # tree
               PROVE  OnlyRetyped
    BY DEF OnlyRetyped
  <2>1. CASE Take
    <3>1. TakeProgram /\ ~Defers(slot)
      BY <2>1 DEF Take, TakeNothing, TakeBroken, TakeProgram, shown
    <3>2. slot \in Good /\ Apply(slot)
      BY <3>1 DEF TakeProgram
    <3>3. Compatible(current, slot) \/ ~(gated /\ pressed)
      BY <3>1 DEF Defers
    <3> QED  BY <3>2, <3>3, ApplyLoses
  <2>2. CASE Release
    <3>1. held # None /\ ~pressed /\ Apply(held) /\ held \in Good
      BY <2>2 DEF Release, shown, IInv, TypeOK
    <3> QED  BY <3>1, ApplyLoses
  <2>3. ~((\E c \in Contents : Truncate(c)) \/ Write \/ Watch)
    BY OutsideInvariant DEF shown
  <2>4. ~Dispatch /\ ~UNCHANGED vars
    BY DEF Dispatch, vars, shown
  <2> QED  BY <2>1, <2>2, <2>3, <2>4 DEF Next, Tick
<1> QED  BY <1>1, Invariant, PTL DEF OnlyRetypedStateIsLost, OnlyRetyped, Spec

(***************************************************************************)
(* The loop.                                                               *)
(***************************************************************************)

(***************************************************************************)
(* The inductive invariant.                                                *)
(***************************************************************************)

\* No thread claims what has not happened: a sender has queued the results it
\* has yet to signal, and input drained is input that came.
Happened ==
  /\ sending <= world.results
  /\ app.inputs + batch <= world.inputs

\* NoResultSleeps, from the moment the queue has been drained.
QueuedIsSignalled ==
  pc \notin { "drain", "stopped" } /\ app.results < world.results
    => gate \/ sending > 0

LoopInv == LoopTypeOK /\ Happened /\ QueuedIsSignalled

Worlds == [ inputs : 0..MaxEvents, results : 0..MaxEvents, width : 0..MaxEvents,
            height : 0..MaxEvents, program : 0..MaxEvents ]

LEMMA Bounds == MaxEvents \in Nat /\ MaxAhead \in Nat
BY LogicLoopAssumption

LEMMA NothingIsShown == Nothing \in Shown
BY Bounds DEF Nothing, Shown

LEMMA LoopInitInvariant == LoopInit => LoopInv
<1> SUFFICES ASSUME LoopInit PROVE LoopInv
  OBVIOUS
<1>1. LoopTypeOK
  <2>1. world \in Worlds
    BY Bounds DEF LoopInit, Worlds
  <2>2. 0 \in 0..MaxEvents
    BY Bounds
  <2> QED  BY <2>1, <2>2, NothingIsShown DEF LoopInit, LoopTypeOK, Worlds
<1>2. Happened /\ QueuedIsSignalled
  BY DEF LoopInit, Happened, QueuedIsSignalled, Nothing
<1> QED  BY <1>1, <1>2 DEF LoopInv

(***************************************************************************)
(* The world.                                                              *)
(***************************************************************************)

\* One thing more happens, and stays within the events there are.
LEMMA WorldGrows ==
  ASSUME LoopTypeOK, Happens
  PROVE  /\ [ world EXCEPT !.inputs = @ + 1 ] \in Worlds
         /\ [ world EXCEPT !.results = @ + 1 ] \in Worlds
         /\ [ world EXCEPT !.width = @ + 1 ] \in Worlds
         /\ [ world EXCEPT !.program = @ + 1 ] \in Worlds
         /\ world.results + 1 \in 0..MaxEvents
BY Bounds DEF LoopTypeOK, Happens, Worlds

LEMMA QueueResultInvariant == LoopInv /\ QueueResult => LoopInv'
<1> SUFFICES ASSUME LoopInv, QueueResult PROVE LoopInv'
  OBVIOUS
<1> USE Bounds DEF LoopInv
<1>1. /\ world' = [ world EXCEPT !.results = @ + 1 ] /\ sending' = sending + 1
      /\ UNCHANGED << gate, latest, shutdown, wake >>
      /\ UNCHANGED logicVars /\ UNCHANGED hostVars /\ Happens
  BY DEF QueueResult
<1>2. /\ world' \in Worlds /\ world.results + 1 \in 0..MaxEvents
      /\ world'.results = world.results + 1 /\ world'.inputs = world.inputs
  BY <1>1, WorldGrows DEF LoopTypeOK
<1>3. LoopTypeOK'
  BY <1>1, <1>2 DEF LoopTypeOK, Happened, Worlds, logicVars, hostVars
<1>4. Happened' /\ QueuedIsSignalled'
  BY <1>1, <1>2 DEF LoopTypeOK, Happened, QueuedIsSignalled, logicVars
<1> QED  BY <1>3, <1>4

\* What else happens outside leaves the results alone.
LEMMA WorldInvariant ==
  LoopInv /\ (SignalResult \/ Reparse \/ Input \/ ResizeWidth \/ ResizeHeight) => LoopInv'
<1> SUFFICES ASSUME LoopInv, SignalResult \/ Reparse \/ Input \/ ResizeWidth \/ ResizeHeight
             PROVE  LoopInv'
  OBVIOUS
<1> USE Bounds DEF LoopInv
<1>1. CASE SignalResult
  BY <1>1 DEF SignalResult, LoopTypeOK, Happened, QueuedIsSignalled, logicVars, hostVars
<1>2. CASE Reparse \/ Input \/ ResizeWidth \/ ResizeHeight
  <2>1. /\ world' \in Worlds
        /\ world'.results = world.results /\ world'.inputs \in {world.inputs, world.inputs + 1}
    <3>1. CASE ResizeHeight
      BY <3>1 DEF ResizeHeight, LoopTypeOK, Worlds
    <3>2. CASE Reparse \/ Input \/ ResizeWidth
      BY <3>2, WorldGrows DEF Reparse, Input, ResizeWidth, LoopTypeOK
    <3> QED  BY <1>2, <3>1, <3>2
  <2>2. /\ UNCHANGED << sending, gate, latest, shutdown, wake, drawn, screen, refused >>
        /\ UNCHANGED logicVars
        /\ redraw' \in BOOLEAN /\ main' \in {main, "waiting", "resizing"}
    BY <1>2 DEF Reparse, Input, ResizeWidth, ResizeHeight, hostVars, LoopTypeOK
  <2>3. LoopTypeOK'
    BY <2>1, <2>2 DEF LoopTypeOK, Worlds, logicVars
  <2>4. Happened' /\ QueuedIsSignalled'
    BY <2>1, <2>2 DEF LoopTypeOK, Happened, QueuedIsSignalled, logicVars, Shown
  <2> QED  BY <2>3, <2>4
<1> QED  BY <1>1, <1>2

(***************************************************************************)
(* The logic thread.                                                       *)
(***************************************************************************)

LEMMA EvaluateInvariant == LoopInv /\ Evaluate => LoopInv'
<1> SUFFICES ASSUME LoopInv, Evaluate PROVE LoopInv'
  OBVIOUS
<1> USE Bounds DEF LoopInv
<1>1. PICK ahead \in { Advance(app.ahead) }
                       \union (IF SomethingChanged THEN { MaxAhead } ELSE {}) :
        app' = [ inputs |-> app.inputs + batch, results |-> app.results,
                 width |-> world.width, height |-> world.height,
                 program |-> world.program, ahead |-> ahead, blank |-> FALSE ]
  BY DEF Evaluate
<1>2. ahead \in 0..MaxAhead
  BY DEF LoopTypeOK, Shown, Advance
<1>3. /\ app' \in Shown /\ app'.results = app.results
      /\ app'.inputs = app.inputs + batch
  BY <1>1, <1>2 DEF LoopTypeOK, Happened, Shown
<1>4. /\ pc = "evaluate" /\ pc' = "publish" /\ batch' = 0 /\ reloaded' \in BOOLEAN
      /\ UNCHANGED << applied, hadInput, gate, latest, shutdown, wake >>
      /\ UNCHANGED worldVars /\ UNCHANGED hostVars
  BY DEF Evaluate, LoopTypeOK
<1>5. LoopTypeOK'
  BY <1>3, <1>4 DEF LoopTypeOK, worldVars, hostVars
<1>6. Happened' /\ QueuedIsSignalled'
  BY <1>3, <1>4 DEF LoopTypeOK, Happened, QueuedIsSignalled, worldVars, Shown
<1> QED  BY <1>5, <1>6

LEMMA LogicInvariant ==
  LoopInv /\ (Stop \/ DrainResults \/ DrainInputs \/ Publish \/ Decide) => LoopInv'
<1> SUFFICES ASSUME LoopInv, Stop \/ DrainResults \/ DrainInputs \/ Publish \/ Decide
             PROVE  LoopInv'
  OBVIOUS
<1> USE Bounds DEF LoopInv, worldVars, hostVars
<1>1. CASE Stop
  BY <1>1 DEF Stop, LoopTypeOK, Happened, QueuedIsSignalled
<1>2. CASE DrainResults
  <2>1. app'.results = world.results /\ app'.inputs = app.inputs /\ app' \in Shown
    BY <1>2 DEF DrainResults, LoopTypeOK, Shown
  <2> QED  BY <1>2, <2>1 DEF DrainResults, LoopTypeOK, Happened, QueuedIsSignalled
<1>3. CASE DrainInputs
  <2>1. batch' \in 0..MaxEvents /\ app.inputs + batch' <= world.inputs
    BY <1>3 DEF DrainInputs, LoopTypeOK, Happened, Shown
  <2> QED  BY <1>3, <2>1 DEF DrainInputs, LoopTypeOK, Happened, QueuedIsSignalled
<1>4. CASE Publish
  BY <1>4 DEF Publish, LoopTypeOK, Happened, QueuedIsSignalled
<1>5. CASE Decide
  BY <1>5 DEF Decide, Wakes, LoopTypeOK, Happened, QueuedIsSignalled
<1> QED  BY <1>1, <1>2, <1>3, <1>4, <1>5

\* However a park ends, the queue is drained before the next one.
LEMMA ParkInvariant == LoopInv /\ (ParkSignalled \/ ParkTimesOut) => LoopInv'
BY DEF LoopInv, ParkSignalled, ParkTimesOut, LoopTypeOK, Happened, QueuedIsSignalled,
       worldVars, hostVars

(***************************************************************************)
(* The window's thread.                                                    *)
(***************************************************************************)

LEMMA HostInvariant ==
  LoopInv /\ (FramePublished \/ RedrawEmpty \/ Redraw \/ RedrawLost \/ Present \/ Close \/ Join)
    => LoopInv'
<1> SUFFICES ASSUME LoopInv, FramePublished \/ RedrawEmpty \/ Redraw \/ RedrawLost \/ Present
                            \/ Close \/ Join
             PROVE  LoopInv'
  OBVIOUS
<1>1. /\ UNCHANGED << world, sending, pc, app, batch, applied, hadInput, reloaded, latest >>
      /\ gate' = gate \/ gate' = TRUE
  BY DEF FramePublished, RedrawEmpty, Redraw, RedrawLost, Present, Close, Join,
         logicVars, worldVars
<1>2. /\ main' \in { "waiting", "resizing", "drawing", "joining", "gone" }
      /\ drawn' \in Shown /\ screen' \in Shown
      /\ gate' \in BOOLEAN /\ shutdown' \in BOOLEAN /\ wake' \in BOOLEAN
      /\ redraw' \in BOOLEAN /\ refused' \in BOOLEAN
  BY NothingIsShown DEF LoopInv, LoopTypeOK, FramePublished, RedrawEmpty, Redraw, RedrawLost,
                        Present, Close, Join
<1>3. LoopTypeOK'
  BY <1>1, <1>2 DEF LoopInv, LoopTypeOK
<1> QED  BY <1>1, <1>3 DEF LoopInv, Happened, QueuedIsSignalled

LEMMA LoopNextInvariant == LoopInv /\ [LoopNext]_loopVars => LoopInv'
<1>1. LoopInv /\ UNCHANGED loopVars => LoopInv'
  BY DEF LoopInv, LoopTypeOK, Happened, QueuedIsSignalled, loopVars
<1> QED
  BY <1>1, QueueResultInvariant, WorldInvariant, EvaluateInvariant, LogicInvariant,
     ParkInvariant, HostInvariant DEF LoopNext

LEMMA LoopInvariant == LoopSpec => []LoopInv
BY LoopInitInvariant, LoopNextInvariant, PTL DEF LoopSpec

\* Every variable of the loop keeps its type, and no counter passes the events
\* that happened.
THEOREM LoopTypeCorrect == LoopSpec => []LoopTypeOK
BY LoopInvariant, PTL DEF LoopInv

\* IdleGate: however the sender's queueing and signalling, the drain, the
\* decision and the park interleave, the logic thread is never parked on a
\* closed gate with a result in its queue that nobody is about to signal.
THEOREM NoWakeUpIsLost == LoopSpec => []NoResultSleeps
<1>1. LoopInv => NoResultSleeps
  BY DEF LoopInv, QueuedIsSignalled, NoResultSleeps
<1> QED  BY <1>1, LoopInvariant, PTL
=============================================================================
