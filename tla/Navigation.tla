----------------------------- MODULE Navigation -----------------------------
(***************************************************************************)
(* A navigation container: a stack of screens, or a set of tabs, that       *)
(* follows a `var` of the program.  The program writes the path; the        *)
(* container reads it in the render and pushes, pops or replaces to match.  *)
(* The other way round, a swipe from the edge moves the container first and *)
(* the path when it is released.  Two screens are alive while one slides    *)
(* over the other, and a screen keeps its state for as long as it is in the *)
(* container.                                                               *)
(*                                                                         *)
(* One tick is: results and input, which may write the path or move the     *)
(* swipe; the announcement of what settled; taps, which may write again;    *)
(* then the render, which reconciles until nothing changes and in between   *)
(* runs `on mount`s, which may write too.                                   *)
(***************************************************************************)
EXTENDS Naturals, Sequences

CONSTANTS Paths,      \* what the path may be written to
          Matched,    \* those some route matches
          First,      \* the path the program starts with
          None,
          MaxDepth,   \* max_depth of a stack; 0 is no limit
          MaxScreens  \* bound: identities that screens go through, in turn

\* A transition: which screens, whether it ends by dropping what is above, whether
\* a finger drives it, and past the half of the screen.
Anims == [outgoing : Nat, incoming : Nat, pop : BOOLEAN, gesture : BOOLEAN, far : BOOLEAN]

ASSUME NavigationAssumption ==
  /\ Matched \subseteq Paths /\ First \in Matched /\ None \notin Paths \cup Anims
  /\ MaxDepth \in Nat /\ MaxScreens \in Nat \ {0}

VARIABLES kind,      \* NavStack or NavHost
          animated,  \* whether transition is other than `none`
          path,      \* the program's var
          entries,   \* the screens: their path, and which they are
          current,   \* the screen the navigation state names
          anim,      \* the transition in flight
          live,      \* the screens of the frame
          last,      \* last_path
          pending,   \* pending_change
          shared,    \* NavShared, which back and replace know the stack by
          swipe,     \* a finger is on the edge
          phase,     \* where in its tick the logic thread is
          screens,   \* counts the screens mounted
          announced, \* history: what route_change last said, at first what was mounted
          overruled  \* history: the path was followed while a finger was down
nav  == <<entries, current, anim, live, last, pending>>
vars == <<kind, animated, path, nav, shared, swipe, phase, screens, announced, overruled>>
-----------------------------------------------------------------------------
Screen(p)  == [path |-> p, id |-> screens % MaxScreens]
PathAt(es, c) == IF c \in DOMAIN es THEN es[c].path ELSE None
Mirror(n)  == [paths |-> [i \in DOMAIN n.entries |-> n.entries[i].path], current |-> n.current,
               replaceNext |-> FALSE]
Gesture    == anim # None /\ anim.gesture

\* The container as a record, which the steps of one reconciliation go through.
Container == [entries |-> entries, current |-> current, anim |-> anim, live |-> live,
              last |-> last, pending |-> pending]

\* drop_nav_entries: what is above the first `keep` goes, its scopes with it.
Keep(n, keep) == [n EXCEPT !.entries = IF Len(@) > keep THEN SubSeq(@, 1, keep) ELSE @]

\* complete_nav
Complete(n, pop, announce) ==
  LET m == IF pop THEN Keep(n, n.current) ELSE n
  IN IF announce THEN [m EXCEPT !.pending = PathAt(m.entries, m.current)] ELSE m

\* finish_nav
Finish(n) ==
  IF n.anim = None THEN n ELSE Complete([n EXCEPT !.anim = None], n.anim.pop, TRUE)

\* A move with nothing to animate is not announced.
FaultyBeginAnim(n, from, to, pop) ==
  IF ~animated \/ n.live = {} \/ from = to
    THEN Complete([n EXCEPT !.current = to, !.anim = None], pop, FALSE)
    ELSE [n EXCEPT !.current = to,
                   !.anim = [outgoing |-> from, incoming |-> to, pop |-> pop,
                             gesture |-> FALSE, far |-> FALSE]]

\* begin_nav_anim
BeginAnim(n, from, to, pop) ==
  IF ~animated \/ n.live = {} \/ from = to
    THEN Complete([n EXCEPT !.current = to, !.anim = None], pop, n.live # {})
    ELSE [n EXCEPT !.current = to,
                   !.anim = [outgoing |-> from, incoming |-> to, pop |-> pop,
                             gesture |-> FALSE, far |-> FALSE]]

(* navigate_to, by what is asked for: the screen shown, a screen there is, a *)
(* path no route matches, a push that is too deep, a new screen.             *)
Found(n, target) == {i \in DOMAIN n.entries : n.entries[i].path = target}
Lowest(is) == CHOOSE i \in is : \A j \in is : i <= j

\* A push drops the screen it stands on as a replace does.
FaultyMountOn(n, replacing, target) ==
  LET base == IF kind = "Stack" THEN [Keep(n, n.current - 1) EXCEPT
                                   !.current = IF n.current > 1 THEN n.current - 1 ELSE 1]
              ELSE n
      grown == [base EXCEPT !.entries = Append(@, Screen(target))]
  IN BeginAnim(grown, base.current, Len(grown.entries), FALSE)

MountOn(n, replacing, target) ==
  LET base == IF replacing THEN [Keep(n, n.current - 1) EXCEPT
                                   !.current = IF n.current > 1 THEN n.current - 1 ELSE 1]
              ELSE IF kind = "Stack" THEN Keep(n, n.current) ELSE n
      grown == [base EXCEPT !.entries = Append(@, Screen(target))]
  IN BeginAnim(grown, base.current, Len(grown.entries), FALSE)

\* Lets one more screen in.
FaultyTooDeep(n, replacing) ==
  kind = "Stack" /\ ~replacing /\ MaxDepth > 0 /\ Len(n.entries) > MaxDepth

TooDeep(n, replacing) ==
  kind = "Stack" /\ ~replacing /\ MaxDepth > 0 /\ Len(n.entries) >= MaxDepth

\* The container afterwards, whether its screens changed, and whether one was mounted.
NavigateTo(n, replacing, target) ==
  LET found == Found(n, target)
  IN IF ~replacing /\ PathAt(n.entries, n.current) = target
       THEN [to |-> n, changed |-> FALSE, mounted |-> FALSE, refused |-> FALSE]
     ELSE IF ~replacing /\ found # {}
       THEN [to |-> BeginAnim(n, n.current, Lowest(found),
                              kind = "Stack" /\ Lowest(found) < n.current),
             changed |-> TRUE, mounted |-> FALSE, refused |-> FALSE]
     ELSE IF target \notin Matched
       THEN [to |-> n, changed |-> FALSE, mounted |-> FALSE, refused |-> FALSE]
     ELSE IF TooDeep(n, replacing)
       THEN [to |-> n, changed |-> FALSE, mounted |-> FALSE, refused |-> TRUE]
     ELSE [to |-> MountOn(n, replacing, target), changed |-> TRUE, mounted |-> TRUE,
           refused |-> FALSE]

\* rebuild_nav_live
LiveOf(n) ==
  IF n.anim # None THEN {n.anim.outgoing, n.anim.incoming} ELSE {n.current} \cap DOMAIN n.entries

SetNav(n) ==
  /\ entries' = n.entries /\ current' = n.current /\ anim' = n.anim
  /\ live' = n.live /\ last' = n.last /\ pending' = n.pending
-----------------------------------------------------------------------------
Init ==
  /\ kind \in {"Stack", "Host"} /\ animated \in BOOLEAN
  /\ path = First
  /\ entries = << >> /\ current = 1 /\ anim = None /\ live = {} /\ last = None /\ pending = None
  /\ shared = [paths |-> << >>, current |-> 1, replaceNext |-> FALSE]
  /\ swipe = FALSE /\ phase = "render" /\ screens = 0
  /\ announced = First /\ overruled = FALSE

\* The program's own steps: a result or a tap before the render, an `on mount` in it.
Writing == phase \in {"input", "taps", "mounted"}

\* An assignment, `navigate`, or a deep link.
Navigate(p) ==
  /\ Writing
  /\ path' = p
  /\ UNCHANGED <<kind, animated, nav, shared, swipe, phase, screens, announced, overruled>>

Replace(p) ==
  /\ Writing /\ kind = "Stack"
  /\ path' = p
  /\ shared' = [shared EXCEPT !.replaceNext = TRUE]
  /\ UNCHANGED <<kind, animated, nav, swipe, phase, screens, announced, overruled>>

\* At the root it does nothing.
Back ==
  /\ Writing
  /\ shared.current > 1 /\ shared.current - 1 \in DOMAIN shared.paths
  /\ path' = shared.paths[shared.current - 1]
  /\ UNCHANGED <<kind, animated, nav, shared, swipe, phase, screens, announced, overruled>>

BeginSwipe ==
  /\ phase = "input" /\ kind = "Stack" /\ ~swipe
  /\ live # {} /\ current > 1 /\ anim = None
  /\ current' = current - 1
  /\ anim' = [outgoing |-> current, incoming |-> current - 1, pop |-> TRUE,
              gesture |-> TRUE, far |-> FALSE]
  /\ shared' = [shared EXCEPT !.current = current - 1]
  /\ swipe' = TRUE
  /\ UNCHANGED <<kind, animated, path, entries, live, last, pending, phase, screens, announced,
                 overruled>>

\* The finger crosses the half of the screen, in either direction.
DriveSwipe ==
  /\ phase = "input" /\ swipe /\ anim # None
  /\ anim' = [anim EXCEPT !.far = ~@]
  /\ UNCHANGED <<kind, animated, path, entries, current, live, last, pending, shared, swipe, phase,
                 screens, announced, overruled>>

\* The pop goes on by itself, and the path follows.
ReleaseToPop ==
  /\ phase = "input" /\ swipe /\ anim # None /\ anim.far
  /\ swipe' = FALSE
  /\ anim' = [anim EXCEPT !.gesture = FALSE]
  /\ IF current \in DOMAIN entries
       THEN path' = entries[current].path /\ last' = entries[current].path
       ELSE UNCHANGED <<path, last>>
  /\ UNCHANGED <<kind, animated, entries, current, live, pending, shared, phase, screens, announced,
                 overruled>>

\* back still pops from where the finger had moved.
FaultyReleaseToStay ==
  /\ phase = "input" /\ swipe /\ anim # None /\ ~anim.far
  /\ swipe' = FALSE
  /\ current' = anim.outgoing
  /\ anim' = [outgoing |-> anim.incoming, incoming |-> anim.outgoing, pop |-> FALSE,
              gesture |-> FALSE, far |-> FALSE]
  /\ UNCHANGED <<kind, animated, path, entries, live, last, pending, shared, phase, screens, announced,
                 overruled>>

\* The screen that was leaving comes back: a push of what is there already.
ReleaseToStay ==
  /\ phase = "input" /\ swipe /\ anim # None /\ ~anim.far
  /\ swipe' = FALSE
  /\ current' = anim.outgoing
  /\ shared' = [shared EXCEPT !.current = anim.outgoing]
  /\ anim' = [outgoing |-> anim.incoming, incoming |-> anim.outgoing, pop |-> FALSE,
              gesture |-> FALSE, far |-> FALSE]
  /\ UNCHANGED <<kind, animated, path, entries, live, last, pending, phase, screens, announced,
                 overruled>>

ReleaseNothing ==
  /\ phase = "input" /\ swipe /\ anim = None
  /\ swipe' = FALSE
  /\ UNCHANGED <<kind, animated, path, nav, shared, phase, screens, announced, overruled>>

FireRouteChange ==
  /\ phase = "input"
  /\ phase' = "taps"
  /\ pending' = None
  /\ announced' = IF pending # None THEN pending ELSE announced
  /\ UNCHANGED <<kind, animated, path, entries, current, anim, live, last, shared, swipe, screens,
                 overruled>>

BeginRender ==
  /\ phase \in {"taps", "mounted"}
  /\ phase' = "render"
  /\ UNCHANGED <<kind, animated, path, nav, shared, swipe, screens, announced, overruled>>

(* One reconcile_nav: the path, if it is news, then the transition, which   *)
(* `elapsed` says is over.  When screens changed the render goes round once *)
(* more, after the effects; otherwise the frame is painted.                 *)
Reconcile(elapsed) ==
  /\ phase = "render"
  /\ LET news      == path # last
         finished  == IF news THEN Finish([Container EXCEPT !.last = path]) ELSE Container
         replacing == news /\ kind = "Stack" /\ shared.replaceNext
         asked     == IF news THEN NavigateTo(finished, replacing, path)
                      ELSE [to |-> finished, changed |-> FALSE, mounted |-> FALSE, refused |-> FALSE]
         shown     == PathAt(asked.to.entries, asked.to.current)
         kept      == IF asked.refused THEN [asked.to EXCEPT !.last = shown] ELSE asked.to
         running   == kept.anim # None /\ ~kept.anim.gesture
         settled   == IF running /\ elapsed THEN Finish(kept) ELSE kept
         done      == [settled EXCEPT !.live = LiveOf(settled)]
         moved     == asked.changed \/ done.live # live
         synced    == asked.changed \/ (news /\ anim # None) \/ (running /\ elapsed)
     IN /\ elapsed => running
        /\ SetNav(done)
        /\ path' = IF asked.refused THEN shown ELSE path
        /\ screens' = IF asked.mounted THEN (screens + 1) % MaxScreens ELSE screens
        /\ shared' = IF synced
                       THEN [Mirror(done) EXCEPT !.replaceNext = shared.replaceNext /\ ~replacing]
                       ELSE [shared EXCEPT !.replaceNext = @ /\ ~replacing]
        /\ phase' = IF moved THEN "mounted" ELSE "painted"
        /\ overruled' = IF asked.changed THEN swipe ELSE overruled
        /\ announced' = announced
  /\ UNCHANGED <<kind, animated, swipe>>

NextTick ==
  /\ phase = "painted"
  /\ phase' = "input"
  /\ UNCHANGED <<kind, animated, path, nav, shared, swipe, screens, announced, overruled>>

Next ==
  \/ \E p \in Paths : Navigate(p) \/ Replace(p)
  \/ Back
  \/ BeginSwipe \/ DriveSwipe \/ ReleaseToPop \/ ReleaseToStay \/ ReleaseNothing
  \/ FireRouteChange \/ BeginRender \/ NextTick
  \/ \E elapsed \in BOOLEAN : Reconcile(elapsed)

Spec == Init /\ [][Next]_vars
-----------------------------------------------------------------------------
TypeOK ==
  /\ kind \in {"Stack", "Host"} /\ animated \in BOOLEAN /\ path \in Paths
  /\ entries \in Seq([path : Matched, id : 0 .. MaxScreens - 1])
  /\ kind = "Stack" /\ MaxDepth > 0 => Len(entries) <= MaxDepth
  /\ current \in Nat /\ anim \in Anims \cup {None} /\ live \subseteq Nat
  /\ last \in Paths \cup {None} /\ pending \in Paths \cup {None}
  /\ shared \in [paths : Seq(Matched), current : Nat, replaceNext : BOOLEAN]
  /\ swipe \in BOOLEAN /\ screens \in 0 .. MaxScreens - 1
  /\ phase \in {"input", "taps", "render", "mounted", "painted"}
  /\ announced \in Paths /\ overruled \in BOOLEAN

(* Every index the frame is painted by names a screen there is, the current  *)
(* one among them, though pops, replaces and cancelled swipes cut the stack  *)
(* under transitions in flight.                                              *)
LiveScreensExist ==
  /\ anim # None => {anim.outgoing, anim.incoming} \subseteq DOMAIN entries
  /\ phase = "painted" => live \subseteq DOMAIN entries /\ current \in live

(* back and replace know the stack as it is, at whatever moment they are     *)
(* called.                                                                   *)
SharedMirrorsStack ==
  shared.current = current /\ shared.paths = [i \in DOMAIN entries |-> entries[i].path]

(* The stack is whole: what is painted exists, and what the program can ask  *)
(* of it is answered from the stack there is.                               *)
StackIsWhole == LiveScreensExist /\ SharedMirrorsStack

(* The screen shown is the one the path names once a frame is painted,        *)
(* unless no route matches it or the finger has yet to decide.  Known gap:   *)
(* a path that was followed while a finger was down.                         *)
ScreenFollowsPath ==
  phase = "painted" /\ path \in Matched /\ ~Gesture /\ ~overruled
    => PathAt(entries, current) = path

(* What route_change said last is what is shown, once nothing moves.         *)
SettledIsAnnounced ==
  phase = "taps" /\ anim = None => announced = PathAt(entries, current)

(* The path, the screen and the announcement agree whenever they are meant   *)
(* to.                                                                      *)
ScreenPathAndNewsAgree == ScreenFollowsPath /\ SettledIsAnnounced

(* A screen keeps its place and its state while it is the current one or     *)
(* beneath it: it goes only by a pop below it, or by a replace of itself.    *)
(* Tabs never go.  Known gap: a replace with the path that is shown waits    *)
(* for the next push, and takes its slot.                                    *)
ScreensArePreserved ==
  [][\A i \in 1 .. current :
       i \in DOMAIN entries /\ ~(i \in DOMAIN entries' /\ entries'[i] = entries[i])
         => /\ kind = "Stack"
            /\ \/ current' < i
               \/ i = current /\ shared.replaceNext]_vars
=============================================================================
