------------------------------- MODULE Events -------------------------------
(***************************************************************************)
(* The event router: which element hears a press, a click, a hover or a    *)
(* key.  It knows elements by their place in the layout, and regions only   *)
(* as the last frame painted them, while presses, hover and focus go on     *)
(* over many frames.  Each frame registers its regions anew, and what the   *)
(* router holds is moved to where its elements now are - those the layout   *)
(* recorded: boxes, but not text, images, icons, canvases and scrims.       *)
(*                                                                         *)
(* A frame is what the layout built, in order, what the paint reached of    *)
(* it, in order, where that is, and what is disabled.  Handlers only write  *)
(* signals, so any frame may follow.  An element's regions are registered   *)
(* together, so that one place in the paint order stands for them all.      *)
(***************************************************************************)
EXTENDS Naturals, Sequences, FiniteSets, SequencesExt

CONSTANTS Elements, None,
          Frames,      \* the frames a render may produce, and of each:
          Built,       \* the layout, in order
          Painted,     \* what is painted, the last on top
          Area,        \* where each element is
          Disabled,    \* what takes no event
          Scrims,      \* the scrims of modal overlays, each over the whole window
          Unrecorded,  \* elements the layout records no identity for
          Listens,     \* the events each element has a handler for
          Focusable,   \* what keys can reach
          Captures,    \* drag_captures: what keeps a drag that leaves it
          Tracked,     \* hover_regions: what has no handler but a hover style
          Activates,   \* what Space or Enter presses
          Radios, Tabs \* the members of a radio group, and of a tab list

Presses == {"down", "up", "tap", "double", "long", "secondary"}
Clicks  == {"tap", "double", "long"}
Kinds   == Presses \cup {"move", "drag", "enter", "hover", "exit", "focus", "blur"}
Spots   == UNION {UNION Range(Area[f]) : f \in Frames}

ASSUME EventsAssumption ==
  /\ IsFiniteSet(Elements) /\ None \notin Elements
  /\ None \notin [at: 0..Cardinality(Elements), secondary: BOOLEAN]
  /\ Scrims \subseteq Unrecorded /\ Unrecorded \subseteq Elements \ Focusable
  /\ Focusable \cup Captures \cup Tracked \subseteq Elements
  /\ Radios \cup Tabs \subseteq Focusable /\ Radios \cap Tabs = {}
  /\ Activates \subseteq Focusable
  /\ Listens \in [Elements -> SUBSET Kinds]
  /\ \A s \in Scrims : Listens[s] = {"tap"}
  /\ \A f \in Frames :
       /\ Built[f] \in Seq(Elements) /\ Painted[f] \in Seq(Range(Built[f]))
       /\ IsInjective(Built[f]) /\ IsInjective(Painted[f])
       /\ DOMAIN Area[f] = Elements /\ Disabled[f] \subseteq Elements \ Scrims

VARIABLES frame,     \* the regions registered last
          focused, hovered, lastTap, \* places in the layout, 0 for none
          focusedSig, \* the element whose var focus reports into
          down,      \* the press in flight: a place, and which button
          told,      \* the elements whose `focused` var is true
          heard,     \* what the last event fired: kind and element
          took,      \* history: the element the press was on
          tapped,    \* history: the element of the last tap, None if nobody knows
          inside,    \* history: who heard the pointer come and not go
          unheard,   \* history: who could not be told that the pointer left
          strays     \* history: who could not be told that focus left
router == <<focused, hovered, lastTap, focusedSig, down, told>>
vars == <<frame, router, heard, took, tapped, inside, unheard, strays>>
-----------------------------------------------------------------------------
Index(s, e) == CHOOSE i \in DOMAIN s : s[i] = e
Place(f, e) == IF e \in Range(Built[f]) THEN Index(Built[f], e) ELSE 0
Who(i)      == IF i \in DOMAIN Built[frame] THEN Built[frame][i] ELSE None

\* Of a set of elements, the one painted last.
Topmost(f, S) == LET i == SelectLastInSeq(Painted[f], LAMBDA e : e \in S)
                 IN IF i = 0 THEN None ELSE Painted[f][i]

\* modal_floor and focusable_floor: the topmost scrim and what is over it.
Modal == [f \in Frames |-> Topmost(f, Scrims)]

Reach ==
  [f \in Frames |->
     IF Modal[f] = None THEN Range(Painted[f])
     ELSE {e \in Range(Painted[f]) : Index(Painted[f], e) >= Index(Painted[f], Modal[f])}]

\* A group is opened and closed around the children of one box, and an overlay
\* is painted after the whole page: no group has members on both sides.
ASSUME GroupsAssumption ==
  \A f \in Frames, g \in {Radios, Tabs} :
    g \cap Range(Painted[f]) \subseteq Reach[f] \/ g \cap Reach[f] = {}

At == [f \in Frames |-> [spot \in Spots |-> {e \in Reach[f] : spot \in Area[f][e]}]]

Hit ==
  [f \in Frames |-> [spot \in Spots |-> [kind \in Kinds |->
     Topmost(f, {e \in At[f][spot] : kind \in Listens[e]})]]]

HitAny ==
  [f \in Frames |-> [spot \in Spots |->
     LET h == {e \in At[f][spot] : Listens[e] # {}}
     IN IF h = {} /\ Modal[f] = None THEN Topmost(f, At[f][spot] \cap Tracked)
        ELSE Topmost(f, h)]]

FocusableAt ==
  [f \in Frames |-> [spot \in Spots |-> Topmost(f, (At[f][spot] \cap Focusable) \ Disabled[f])]]

\* press_owner: who a press is for, those that only take focus included.
PressOwner ==
  [f \in Frames |-> [spot \in Spots |->
     Topmost(f, {e \in At[f][spot] : Listens[e] \cap Presses # {} \/ e \in Focusable \ Disabled[f]})]]

\* fire.  keep_scrim_open_over: a scrim hears only what is outside its content.
Fires ==
  [f \in Frames |-> [spot \in Spots |-> [kind \in Kinds |->
     {<<kind, e>> : e \in {e \in Elements \ Disabled[f] :
        /\ e = Hit[f][spot][kind]
        /\ kind \in Presses => PressOwner[f][spot] \in {e, None}
        /\ e \in Scrims => At[f][spot] = {e}}}]]]

Fire(kind, spot) == Fires[frame][spot][kind]

\* fire_on_elem
FireOn(kind, e) ==
  IF e \in Range(Painted[frame]) \ Disabled[frame] /\ kind \in Listens[e] THEN {<<kind, e>>} ELSE {}

Captured ==
  IF down # None /\ Who(down.at) \in Range(Painted[frame]) \cap Captures THEN Who(down.at) ELSE None
-----------------------------------------------------------------------------
TypeOK ==
  /\ frame \in Frames
  /\ {focused, hovered, lastTap} \subseteq 0..Cardinality(Elements)
  /\ focusedSig \in Focusable \cup {None} /\ (focusedSig = None) = (focused = 0)
  /\ down = None \/ down \in [at: 0..Cardinality(Elements), secondary: BOOLEAN]
  /\ told \cup strays \subseteq Focusable /\ inside \cup unheard \subseteq Elements
  /\ heard \subseteq Kinds \X Elements
  /\ {took, tapped} \subseteq Elements \cup {None}

Init ==
  /\ frame \in Frames
  /\ focused = 0 /\ hovered = 0 /\ lastTap = 0 /\ focusedSig = None
  /\ down = None
  /\ told = {} /\ heard = {} /\ took = None /\ tapped = None
  /\ inside = {} /\ unheard = {} /\ strays = {}

\* The one before keeps its var.
FaultyStealFocus(e) ==
  IF e = Who(focused) THEN UNCHANGED <<focused, focusedSig, told>>
  ELSE focused' = Place(frame, e) /\ focusedSig' = e /\ told' = told \cup {e}

\* steal_focus to e: the var and the handler of the one before are found among
\* the regions of this frame.
StealFocus(e) ==
  LET old == Who(focused)
  IN IF e = old
     THEN UNCHANGED <<focused, focusedSig, told>>
     ELSE /\ focused' = Place(frame, e)
          /\ focusedSig' = e
          /\ told' = (told \ (Range(Painted[frame]) \cap {old})) \cup {e}

\* The blur and the focus it fires.
FocusNews(e) ==
  IF e = Who(focused) THEN {}
  ELSE FireOn("blur", Who(focused)) \cup FireOn("focus", e)

\* Who is left with a var that says focused: nobody finds it unpainted.
Strays(e) == (strays \cup ({Who(focused)} \ (Range(Painted[frame]) \cup {None}))) \ {e}

PointerDown(spot, secondary) ==
  LET kind == IF secondary THEN "secondary" ELSE "down"
      f    == FocusableAt[frame][spot]
  IN /\ down' = [at |-> Place(frame, HitAny[frame][spot]), secondary |-> secondary]
     /\ took' = HitAny[frame][spot]
     /\ IF f = None
        THEN /\ UNCHANGED <<focused, focusedSig, told, strays>>
             /\ heard' = Fire(kind, spot)
        ELSE /\ StealFocus(f)
             /\ strays' = Strays(f)
             /\ heard' = Fire(kind, spot) \cup FocusNews(f)
     /\ UNCHANGED <<frame, hovered, lastTap, tapped, inside, unheard>>

\* A release is a click only on what was pressed.
SamePlace(d, spot) == d.at # 0 /\ d.at = Place(frame, HitAny[frame][spot])

\* What tells a click from another: it moved too far, it was slow, it was
\* quick, or it was quick and soon after the last one.
Paces == {"far", "slow", "quick", "again"}

Up(spot) == IF Captured # None THEN FireOn("up", Captured) ELSE Fire("up", spot)

PointerUp(spot, pace) ==
  LET place  == Place(frame, HitAny[frame][spot])
      same   == pace # "far" /\ SamePlace(down, spot)
      tap    == same /\ pace # "slow" /\ ~down.secondary
      double == tap /\ pace = "again" /\ lastTap = place /\ Hit[frame][spot]["double"] # None
  IN /\ down # None
     /\ heard' = Up(spot) \cup (IF double THEN Fire("double", spot)
                               ELSE IF tap THEN Fire("tap", spot)
                               ELSE IF same /\ pace = "slow" THEN Fire("long", spot) ELSE {})
     /\ lastTap' = IF tap /\ ~double THEN place ELSE 0
     /\ tapped' = IF tap /\ ~double THEN HitAny[frame][spot] ELSE None
     /\ down' = None
     /\ took' = None
     /\ UNCHANGED <<frame, focused, focusedSig, hovered, told, inside, unheard, strays>>

\* A release whose press was not seen, or was ended by another button's.
StrayUp(spot) ==
  /\ down = None
  /\ heard' = Up(spot)
  /\ UNCHANGED <<frame, router, took, tapped, inside, unheard, strays>>

\* A move with the button held is a drag; without, it enters and exits.
Drag(spot) ==
  /\ down # None
  /\ heard' = Fire("move", spot)
                \cup (IF Captured # None THEN FireOn("drag", Captured) ELSE Fire("drag", spot))
  /\ UNCHANGED <<frame, router, took, tapped, inside, unheard, strays>>

Leaves(i) == FireOn("exit", Who(i))

Hover(spot) ==
  LET new   == Place(frame, HitAny[frame][spot])
      exit  == IF new = hovered THEN {} ELSE Leaves(hovered)
      enter == IF new = hovered THEN {} ELSE FireOn("enter", HitAny[frame][spot])
  IN /\ down = None
     /\ hovered' = new
     /\ heard' = Fire("move", spot) \cup exit \cup enter \cup FireOn("hover", HitAny[frame][spot])
     /\ inside' = (inside \ {e \in Elements : <<"exit", e>> \in exit})
                    \cup {e \in Elements : <<"enter", e>> \in enter}
     /\ unheard' = {e \in unheard \cup inside : /\ e \in inside'
                                                /\ e # HitAny[frame][spot]
                                                /\ e \in unheard \/ e \notin Range(Painted[frame]) \/ e \in Disabled[frame]}
     /\ UNCHANGED <<frame, focused, focusedSig, lastTap, down, told, took, tapped, strays>>
-----------------------------------------------------------------------------
MoveFocus(e, pressed) ==
  /\ StealFocus(e)
  /\ strays' = Strays(e)
  /\ heard' = FocusNews(e) \cup pressed
  /\ UNCHANGED <<frame, hovered, lastTap, down, took, tapped, inside, unheard>>

\* Of a set of elements, the one painted first.
Lowest(f, S) == LET i == SelectInSeq(Painted[f], LAMBDA e : e \in S)
                IN IF i = 0 THEN None ELSE Painted[f][i]

\* The neighbour of e among painted elements, in their order, which goes round;
\* its end, where e is not among them.
Step(S, e, back) ==
  LET place(o) == Index(Painted[frame], o)
      before   == {o \in S : e \in S /\ place(o) < place(e)}
      after    == {o \in S : e \in S /\ place(o) > place(e)}
  IN IF back THEN Topmost(frame, IF before = {} THEN S ELSE before)
     ELSE Lowest(frame, IF after = {} THEN S ELSE after)

Enabled(S) == {e \in S \cap Range(Painted[frame]) : e \notin Disabled[frame]}

Scope == Reach[frame] \cap Focusable

Tab(back) ==
  LET stops == Enabled(Scope)
  IN stops # {} /\ MoveFocus(Step(stops, Who(focused), back), {})

\* group_key: the group the focused element is painted in, radios first or tabs.
GroupKey(key) ==
  \E g \in {Radios, Tabs} :
    LET e    == Who(focused)
        live == Enabled(g)
        to   == CASE key = "next" -> Step(live, e, FALSE)
                  [] key = "previous" -> Step(live, e, TRUE)
                  [] key = "home" -> Lowest(frame, live)
                  [] key = "end" -> Topmost(frame, live)
    IN /\ e \in live
       /\ key \in {"home", "end"} => g = Tabs
       /\ MoveFocus(to, IF g = Radios /\ to # e THEN FireOn("tap", to) ELSE {})

\* Space or Enter on what it presses.  For a key that repeats (activation_held)
\* nothing happens.
Press ==
  /\ Who(focused) \in Activates
  /\ heard' = FireOn("tap", Who(focused))
  /\ UNCHANGED <<frame, router, took, tapped, inside, unheard, strays>>

Escape ==
  /\ Modal[frame] # None
  /\ heard' = {<<"tap", Modal[frame]>>}
  /\ UNCHANGED <<frame, router, took, tapped, inside, unheard, strays>>

\* focus_element: an assistive technology names a place it read in some frame.
FocusElement(i) ==
  /\ Who(i) \in Scope /\ Who(i) \notin Disabled[frame]
  /\ MoveFocus(Who(i), {})
-----------------------------------------------------------------------------
HoldsElements == focused # 0 \/ down # None \/ hovered # 0

\* follow_elements, for one place.
Follow(i, g) ==
  IF Who(i) \in Elements \ Unrecorded THEN Place(g, Who(i)) ELSE i

\* The signal is not let go of with the focus.
FaultyFollowFocus(g) ==
  focused' = Follow(focused, g) /\ UNCHANGED <<focusedSig, told>>

\* follow_focus
FollowFocus(g) ==
  LET now == Follow(focused, g)
  IN /\ focused' = now
     /\ focusedSig' = IF now = 0 THEN None ELSE focusedSig
     /\ told' = IF now = 0 THEN told \ {focusedSig} ELSE told

\* The press stays at its place.
FaultyFollowPress(g) == down

FollowPress(g) == IF down = None THEN None ELSE [down EXCEPT !.at = Follow(@, g)]

\* A render: the regions are cleared, what is held is moved, the regions are
\* registered.  Other state that is kept by place makes the move happen too;
\* without any, a last tap stays at its place.
Render(g, other) ==
  /\ frame' = g
  /\ heard' = {}
  /\ IF HoldsElements \/ other
     THEN /\ FollowFocus(g)
          /\ hovered' = Follow(hovered, g)
          /\ down' = FollowPress(g)
          /\ lastTap' = Follow(lastTap, g)
          /\ tapped' = tapped
     ELSE /\ UNCHANGED <<focused, focusedSig, told, hovered, down, lastTap>>
          /\ tapped' = IF Follow(lastTap, g) = lastTap THEN tapped ELSE None
  /\ inside' = inside \cap Range(Built[g])
  /\ unheard' = unheard \cap Range(Built[g])
  /\ UNCHANGED <<took, strays>>

Next ==
  \/ \E spot \in Spots : \/ \E secondary \in BOOLEAN : PointerDown(spot, secondary)
                         \/ \E pace \in Paces : PointerUp(spot, pace)
                         \/ StrayUp(spot)
                         \/ Drag(spot)
                         \/ Hover(spot)
  \/ \E back \in BOOLEAN : Tab(back)
  \/ \E key \in {"next", "previous", "home", "end"} : GroupKey(key)
  \/ Press
  \/ Escape
  \/ \E i \in DOMAIN Built[frame] : FocusElement(i)
  \/ \E g \in Frames, other \in BOOLEAN : Render(g, other)

Spec == Init /\ [][Next]_vars
-----------------------------------------------------------------------------
(* What an element was told stays true until it is told otherwise: its      *)
(* `focused` var says whether it has focus, though boxes come and go and    *)
(* change places, and who heard the pointer come is who it is over.  But    *)
(* for these: an element that was scrolled out of sight, or that was        *)
(* disabled, is not told that focus or the pointer left it, one without an  *)
(* `exit` handler never is, and an element the layout does not record is    *)
(* lost sight of when it changes places.                                    *)
EveryoneIsTold ==
  /\ told \ strays \subseteq {Who(focused)}
  /\ focused # 0 => Who(focused) \in told
  /\ {e \in inside \ (unheard \cup Unrecorded) : "exit" \in Listens[e]} \subseteq {Who(hovered)}

(* A click is heard by the element that was pressed, however many frames    *)
(* came between and wherever its place went, and a double click by the one  *)
(* that had the first.  But for these: a press on an element the layout     *)
(* does not record stays with the place; an element that takes no press     *)
(* leaves it to the one beneath; and a tap is not followed by a router      *)
(* that holds nothing else.                                                 *)
TakesPress(e) == Listens[e] \cap Presses # {} \/ e \in Focusable \ Disabled[frame]
ClickIsThePress ==
  \A h \in heard' : (down # None /\ down' = None /\ h[1] \in Clicks) =>
    took \in Unrecorded \/ /\ TakesPress(took) => h[2] = took
                           /\ h[1] = "double" => tapped \in Unrecorded \cup {took, None}

(* Under a modal overlay the page hears no pointer, but for an element that *)
(* keeps the drag it is in and one that the pointer leaves; and keys go on  *)
(* to what has focus, be it under the overlay.                              *)
ModalShutsThePage ==
  \A h \in heard' : h[2] \in Reach[frame] \cup {Captured, Who(hovered), Who(focused), Who(focused)'}

(* Focus that is in a modal overlay stays in it for as long as it is there. *)
FocusStaysInTheModal ==
  (Modal[frame] # None /\ Who(focused) \in Reach[frame] /\ frame' = frame) => Who(focused)' \in Reach[frame]

(* What clicks, drags and keys may reach.                                   *)
InputGoesWhereItMay ==
  [][ClickIsThePress /\ (frame' = frame => ModalShutsThePage) /\ FocusStaysInTheModal]_vars
=============================================================================
