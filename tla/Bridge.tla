------------------------------- MODULE Bridge -------------------------------
(***************************************************************************)
(* The interpreter's bridge to the I/O pool: controller calls, lifecycle   *)
(* effects and timers (crates/byard-compiler/src/interp/eval/controller.rs *)
(* and retire.rs, crates/byard-core/src/bridge/mod.rs).                    *)
(*                                                                         *)
(* A call or a timer registers a continuation under a fresh id and hands   *)
(* the id to the pool; the pool's answer names the id.  Meanwhile scopes   *)
(* mount and unmount: the render walks the tree, marks the effects it      *)
(* meets, fires the edges the marks imply, and walks again, since an       *)
(* effect's action may have changed the tree.  A screen that is popped is  *)
(* retired: its scopes are released once the pass has settled.             *)
(*                                                                         *)
(* The logic thread does all of this alone, one handler after the other;   *)
(* only the pool runs beside it.  A call without arms (id 0), the requests *)
(* of native views, the engine's own timers and a timer of zero length,    *)
(* which is refused, are left out.  A scope here has no scope inside it,   *)
(* and a screen that is gone stays gone: coming back lowers a new one.     *)
(***************************************************************************)
EXTENDS Naturals, Sequences

CONSTANTS
  Scopes,       (* Parts of the tree that come and go and hold effects.     *)
  Screens,      (* Those that are retired when they are popped; the others  *)
                (* are kept, as the branches of a `when` are.               *)
  NumEffects,   (* Effects of the program: slots 1 to NumEffects.           *)
  Kind,         (* What each reacts to.                                     *)
  Home,         (* The scope it is written in.                              *)
  MaxCalls,     (* Calls the program places: bounds the model.              *)
  MaxWrites,    (* Times an action changes what the tree should hold.       *)
  MaxReloads,   (* Hot reloads.                                             *)
  MaxQueue,     (* Answers waiting when a timer still ticks.                *)
  MaxPasses     (* MAX_INSTANCE_DEPTH: further passes one render may take.  *)

Effects == 1..NumEffects

ASSUME BridgeAssumption ==
  /\ Screens \subseteq Scopes
  /\ NumEffects \in Nat
  /\ Kind \in [ Effects -> {"mount", "unmount", "change", "every", "after"} ]
  /\ Home \in [ Effects -> Scopes ]
  /\ MaxCalls \in Nat /\ MaxWrites \in Nat /\ MaxReloads \in Nat
  /\ MaxQueue \in Nat /\ MaxPasses \in Nat

VARIABLES
  pc,          (* Where the logic thread is in its tick.                    *)
  wanted,      (* The scopes the program's values say the tree holds.       *)
  popped,      (* Screens the program has popped since the last walk.       *)
  tree,        (* The scopes the last walk met.                             *)
  retired,     (* Interpreter::retired.                                     *)
  dropped,     (* Scopes that have been released.                           *)
  seen,        (* Effects a walk of this render has met (seen = frame_seq). *)
  mounted,     (* EffectSlot::mounted.                                      *)
  started,     (* Change effects whose `last` is not empty.                 *)
  moved,       (* Those whose watched values have moved since.              *)
  timer,       (* EffectSlot::timer and continuation: an id, or 0.          *)
  continuations, (* Bridge::continuations: what each open id resumes.       *)
  discarded,   (* Bridge::discarded.                                        *)
  queue,       (* Bridge::queue: the owners of the calls raised.            *)
  nextId,      (* Bridge::next_id.                                          *)
  held,        (* Whether the scopes of earlier frames are held back.       *)
  todo,        (* The effects this phase has left, taken in index order.    *)
  arriving,    (* Those to mount once the leaving ones are gone.            *)
  changed,     (* Whether this pass has changed anything.                   *)
  passes,      (* Passes of this render that were followed by another.      *)
  flying,      (* Calls the pool is running.                                *)
  ticking,     (* Timer tasks of the pool that will still send.             *)
  inbox,       (* Answers queued for the logic thread.                      *)
  used         (* Calls, writes and reloads so far, bounded by the Max...   *)

structure == << tree, retired, dropped >>
slots     == << seen, mounted, started, timer >>
table     == << continuations, discarded, nextId >>
acting    == << wanted, popped, moved, queue, used >>
settling  == << todo, arriving, changed, passes >>
pool      == << flying, ticking, inbox >>
vars == << pc, structure, slots, table, acting, held, settling, pool >>

Init ==
  /\ pc = "idle"
  /\ wanted \in SUBSET Scopes /\ popped = {}
  /\ tree = {} /\ retired = {} /\ dropped = {}
  /\ seen = {} /\ mounted = {} /\ started = {} /\ moved = {}
  /\ timer = [ e \in Effects |-> 0 ]
  /\ continuations = << >> /\ discarded = {} /\ nextId = 0
  /\ queue = << >> /\ held = FALSE
  /\ todo = {} /\ arriving = {} /\ changed = FALSE /\ passes = 0
  /\ flying = {} /\ ticking = {} /\ inbox = << >>
  /\ used = [ calls |-> 0, writes |-> 0, reloads |-> 0 ]

(***************************************************************************)
(* Helpers.  An operator named Faulty... is used by no action: it is a     *)
(* plausible mistake in the operator after it.                             *)
(***************************************************************************)

InTree(scopes) == { e \in Effects : Home[e] \in scopes }

IsFirst(e) == e \in todo /\ \A f \in todo : e <= f

Without(ids) ==
  [ id \in DOMAIN continuations \ ids |-> continuations[id] ]

With(opened) ==
  [ id \in DOMAIN continuations \cup DOMAIN opened |->
      IF id \in DOMAIN opened THEN opened[id] ELSE continuations[id] ]

FaultyFresh(n) == nextId + n - 1

\* Bridge::open: ids go up from 1, for calls and timers alike.
Fresh(n) == nextId + n

\* What an action of the program, run for effect `owner` (0: none), may do:
\* raise a call, write values, navigate.  `still` is what had moved before.
Act(owner, still) ==
  \E call, write \in {0, 1} :
    /\ used' = [ used EXCEPT !.calls = @ + call, !.writes = @ + write ]
    /\ used'.calls <= MaxCalls /\ used'.writes <= MaxWrites
    /\ queue' = IF call = 1 THEN Append(queue, owner) ELSE queue
    /\ IF write = 0
       THEN UNCHANGED << wanted, popped >> /\ moved' = still
       ELSE LET gone == popped \cup retired \cup dropped
            IN  /\ wanted' \in SUBSET (Scopes \ gone)
                /\ \E pops \in SUBSET (Screens \ (gone \cup wanted')) :
                     popped' = popped \cup pops
                /\ moved' \in { still, started' }

\* An effect that does not fire on this edge.
NoAct == UNCHANGED << wanted, popped, queue, used >> /\ moved' = moved \cap started'

\* drain_calls: every call raised is opened and handed to the pool.
DrainCalls ==
  LET ids == { Fresh(n) : n \in DOMAIN queue }
      Raiser(id) == queue[CHOOSE n \in DOMAIN queue : Fresh(n) = id]
  IN  /\ continuations' =
           With([ id \in ids |-> [ owner |-> Raiser(id), kind |-> "call" ] ])
      /\ flying' = flying \cup ids
      /\ nextId' = nextId + Len(queue)
      /\ queue' = << >>

FaultyHasPendingReplies == \E id \in DOMAIN continuations : continuations[id].kind # "every"

\* Bridge::has_pending_replies, asked once the calls raised are open.
HasPendingReplies == \E id \in DOMAIN continuations' : continuations'[id].kind # "every"

FaultyOwnedBy(e) ==
  { id \in DOMAIN continuations : continuations[id].owner = e /\ id = timer[e] }

\* What an unmounting effect has in flight.
OwnedBy(e) == { id \in DOMAIN continuations : continuations[id].owner = e }

\* What a tick uses up: the continuation of an `after`.
Spent(id) == IF continuations[id].kind = "every" THEN {} ELSE { id }

\* The task that ends when effect e drops its handle.
Cancelled(e) == { timer[e] }

FaultyMet == mounted \cup InTree(wanted)

\* The effects this walk and the earlier ones of the render have met.
Met == seen \cup InTree(wanted)

(***************************************************************************)
(* The start of a tick: what the pool answered, a hot reload, the inputs.  *)
(***************************************************************************)

\* resume: the reply runs the arm the id names, at most once.  A reply for a
\* continuation a reload dropped is reported; for one an unmount dropped it
\* is not, since only a reload records it.
Resume(id) ==
  IF id \in DOMAIN continuations
  THEN /\ continuations' = Without({ id })
       /\ Act(0, moved)
       /\ UNCHANGED discarded
  ELSE /\ discarded' = discarded \ { id }
       /\ UNCHANGED << continuations, acting >>

\* fire_timer: a tick whose scope is gone is an ordinary race.
FireTimer(id) ==
  /\ UNCHANGED discarded
  /\ IF id \in DOMAIN continuations
     THEN continuations' = Without(Spent(id)) /\ Act(0, moved)
     ELSE UNCHANGED << continuations, acting >>

\* One result of apply_io_results.
Deliver ==
  /\ pc \in { "idle", "drain" } /\ inbox # << >>
  /\ pc' = "drain"
  /\ inbox' = Tail(inbox)
  /\ UNCHANGED << structure, slots, nextId, held, settling, flying, ticking >>
  /\ \/ Head(inbox).kind = "reply" /\ Resume(Head(inbox).id)
     \/ Head(inbox).kind = "tick" /\ FireTimer(Head(inbox).id)

\* The end of apply_io_results, which is not called without a result.
EndResults ==
  /\ pc \in { "idle", "drain" }
  /\ pc' = "follow"
  /\ IF pc = "drain" THEN DrainCalls
     ELSE UNCHANGED << continuations, flying, nextId, queue >>
  /\ UNCHANGED << structure, slots, discarded, wanted, popped, moved, used,
                  held, settling, ticking, inbox >>

\* follow: the program is replaced (reset_bridge_state).  The pool goes on
\* with the calls it has; the timers end with their slots.
Reload ==
  /\ pc = "follow" /\ used.reloads < MaxReloads
  /\ pc' = "dispatch"
  /\ used' = [ used EXCEPT !.reloads = @ + 1 ]
  /\ discarded' = discarded \cup
       { id \in DOMAIN continuations : continuations[id].kind # "every" }
  /\ continuations' = << >> /\ queue' = << >>
  /\ seen' = {} /\ mounted' = {} /\ started' = {} /\ moved' = {}
  /\ timer' = [ e \in Effects |-> 0 ] /\ ticking' = {}
  /\ wanted' \in SUBSET Scopes /\ popped' = {}
  /\ tree' = {} /\ dropped' = {}
  /\ UNCHANGED << retired, nextId, held, settling, flying, inbox >>

\* dispatch_events: a handler of the last frame, run outside any effect.
Dispatch ==
  /\ pc \in { "follow", "dispatch" }
  /\ pc' = "tick"
  /\ UNCHANGED << structure, slots, table, held, settling, pool >>
  /\ Act(0, moved)

\* tick, and render_frame up to its loop: the calls raised reach the pool,
\* and the scopes of earlier frames are held while a reply is awaited.
BeginFrame ==
  /\ pc = "tick"
  /\ pc' = "walk"
  /\ DrainCalls
  /\ held' = HasPendingReplies
  /\ seen' = {} /\ passes' = 0
  /\ UNCHANGED << structure, mounted, started, timer, discarded, wanted, popped,
                  moved, used, todo, arriving, changed, ticking, inbox >>

(***************************************************************************)
(* The render's loop: walk, settle, release, until nothing changes.        *)
(***************************************************************************)

\* reconcile_structure, and the sweep at the start of settle_effects.
Walk ==
  /\ pc = "walk"
  /\ pc' = "unmount"
  /\ tree' = wanted
  /\ retired' = retired \cup popped /\ popped' = {}
  /\ seen' = Met /\ mounted' = Met
  /\ todo' = mounted \ Met /\ arriving' = Met \ mounted
  /\ changed' = (tree # wanted \/ popped # {} \/ mounted # Met)
  /\ UNCHANGED << dropped, started, timer, table, wanted, moved, queue, used,
                  held, passes, pool >>

\* A leaving effect: what it had in flight is dropped, its timer cancelled,
\* and only then does its `on unmount` run.
Unmount(e) ==
  /\ pc = "unmount" /\ IsFirst(e)
  /\ todo' = todo \ { e }
  /\ continuations' = Without(OwnedBy(e))
  /\ ticking' = ticking \ Cancelled(e)
  /\ timer' = [ timer EXCEPT ![e] = 0 ]
  /\ started' = started \ { e }
  /\ IF Kind[e] = "unmount" THEN Act(e, moved \cap started') ELSE NoAct
  /\ UNCHANGED << pc, structure, seen, mounted, discarded, nextId, held, arriving,
                  changed, passes, flying, inbox >>

\* An arriving effect: its timer is armed, or its `on mount` runs.
Mount(e) ==
  /\ pc = "mount" /\ IsFirst(e)
  /\ todo' = todo \ { e }
  /\ UNCHANGED started
  /\ IF Kind[e] = "mount" THEN Act(e, moved) ELSE NoAct
  /\ IF Kind[e] \in { "every", "after" }
     THEN /\ continuations' =
            With([ id \in { Fresh(1) } |-> [ owner |-> e, kind |-> Kind[e] ] ])
          /\ nextId' = nextId + 1
          /\ timer' = [ timer EXCEPT ![e] = Fresh(1) ]
          /\ ticking' = ticking \cup { Fresh(1) }
     ELSE UNCHANGED << continuations, nextId, timer, ticking >>
  /\ UNCHANGED << pc, structure, seen, mounted, discarded, held, arriving, changed,
                  passes, flying, inbox >>

\* settle_changes: the first look only records what is watched.
Change(e) ==
  /\ pc = "change" /\ IsFirst(e)
  /\ todo' = todo \ { e }
  /\ started' = started \cup { e }
  /\ changed' = (changed \/ e \in moved)
  /\ IF e \in moved THEN Act(e, moved \ { e }) ELSE NoAct
  /\ UNCHANGED << pc, structure, seen, mounted, timer, table, held, arriving, passes,
                  pool >>

\* From one loop of settle_effects to the next.
NextPhase ==
  /\ pc \in { "unmount", "mount" } /\ todo = {}
  /\ arriving' = {}
  /\ \/ pc = "unmount" /\ pc' = "mount" /\ todo' = arriving
     \/ pc = "mount" /\ pc' = "change"
        /\ todo' = { e \in mounted : Kind[e] = "change" }
  /\ UNCHANGED << structure, slots, table, acting, held, changed, passes, pool >>

\* The end of a pass: calls placed, retired screens released.
EndPass ==
  /\ pc = "change" /\ todo = {}
  /\ DrainCalls
  /\ dropped' = dropped \cup retired /\ retired' = {}
  /\ IF ~changed \/ passes > MaxPasses
     THEN pc' = "measure" /\ UNCHANGED passes
     ELSE pc' = "walk" /\ passes' = passes + 1
  /\ UNCHANGED << tree, slots, discarded, wanted, popped, moved, used, held, todo,
                  arriving, changed, ticking, inbox >>

\* Layout and paint, where an `on measure` may run.
Measure ==
  /\ pc = "measure"
  /\ pc' = "idle"
  /\ UNCHANGED << structure, slots, table, held, settling, pool >>
  /\ Act(0, moved)

(***************************************************************************)
(* The pool.                                                               *)
(***************************************************************************)

\* spawn_call: one reply for each call, in any order.
ReplyArrives ==
  \E id \in flying :
    /\ flying' = flying \ { id }
    /\ inbox' = Append(inbox, [ kind |-> "reply", id |-> id ])
    /\ UNCHANGED << pc, structure, slots, table, acting, held, settling, ticking >>

\* spawn_timer: an `after` sends once, an `every` goes on.
TimerTicks(e) ==
  /\ timer[e] \in ticking /\ Len(inbox) < MaxQueue
  /\ ticking' = IF Kind[e] = "every" THEN ticking ELSE ticking \ { timer[e] }
  /\ inbox' = Append(inbox, [ kind |-> "tick", id |-> timer[e] ])
  /\ UNCHANGED << pc, structure, slots, table, acting, held, settling, flying >>

Next ==
  \/ Deliver \/ EndResults \/ Reload \/ Dispatch \/ BeginFrame
  \/ Walk \/ NextPhase \/ EndPass \/ Measure
  \/ \E e \in Effects : Unmount(e) \/ Mount(e) \/ Change(e) \/ TimerTicks(e)
  \/ ReplyArrives

Spec == Init /\ [][Next]_vars

(***************************************************************************)
(* Properties.                                                             *)
(***************************************************************************)

Calls == { id \in DOMAIN continuations : continuations[id].kind = "call" }

TreeOK ==
  /\ pc \in { "idle", "drain", "follow", "dispatch", "tick", "walk", "unmount",
              "mount", "change", "measure" }
  /\ wanted \subseteq Scopes /\ tree \subseteq Scopes
  /\ popped \subseteq Screens /\ retired \subseteq Screens /\ dropped \subseteq Screens
  /\ held \in BOOLEAN /\ changed \in BOOLEAN /\ passes \in 0..(MaxPasses + 1)

SlotsOK ==
  /\ mounted \subseteq Effects /\ seen \subseteq Effects
  /\ todo \subseteq Effects /\ arriving \subseteq Effects
  /\ moved \subseteq started /\ started \subseteq Effects
  /\ timer \in [ Effects -> 0..nextId ] /\ ticking \subseteq 1..nextId

TableOK ==
  /\ nextId \in Nat
  /\ discarded \subseteq 1..nextId /\ flying \subseteq 1..nextId
  /\ continuations \in
       [ DOMAIN continuations ->
           [ owner : Effects \cup {0}, kind : { "call", "every", "after" } ] ]
  /\ DOMAIN continuations \subseteq 1..nextId
  /\ queue \in Seq(Effects \cup {0})

InboxOK == inbox \in Seq([ kind : { "reply", "tick" }, id : 1..nextId ])

\* The variables have their types; every id open, answered or ticking has been
\* handed out, and values can only have moved for an effect that has looked.
TypeOK == TreeOK /\ SlotsOK /\ TableOK /\ InboxOK

\* Nothing survives the scope that started it: what is open for an effect,
\* and the values a change effect remembers, belong to a mounted effect or to
\* one whose unmounting is under way.  A call placed by an `on unmount` is
\* the exception the code makes: it outlives the scope.
NothingSurvivesItsScope ==
  LET alive == mounted \cup (IF pc = "unmount" THEN todo ELSE {})
      owners == { continuations[id].owner : id \in DOMAIN continuations } \ {0}
  IN  /\ \A e \in owners : Kind[e] # "unmount" => e \in alive
      /\ started \subseteq alive

\* A timer task runs only while its slot holds it and its scope is mounted
\* or being unmounted, and after each render every mounted `every` has one,
\* with its continuation open: no task leaks and no timer is lost.
TimersFollowTheirScope ==
  /\ \A id \in ticking : \E e \in Effects :
       /\ timer[e] = id
       /\ e \in mounted \cup (IF pc = "unmount" THEN todo ELSE {})
  /\ pc = "measure" =>
       \A e \in mounted : Kind[e] = "every" =>
         timer[e] \in ticking \cap DOMAIN continuations

\* Whatever is open will be answered: a call by the pool that runs it or by
\* a reply in the queue, an `after` likewise.  An id that is open with no
\* answer to come would hold the scopes of every later frame.
NothingWaitsForEver ==
  \A id \in DOMAIN continuations :
    \/ id \in flying \cup ticking
    \/ \E n \in DOMAIN inbox : inbox[n].id = id

\* After each walk the effects of the tree are mounted, and after the first
\* walk of a render no other: a teardown is at most one frame late.
MountedIsTheTree ==
  pc \in { "unmount", "mount", "change", "measure" } =>
    /\ InTree(tree) \subseteq mounted
    /\ passes = 0 => mounted = InTree(tree)

\* While a frame renders, the scopes of earlier frames are held if a call
\* whose arms a handler's frame lowered is still awaited.
HeldWhileAwaited ==
  pc \in { "walk", "unmount", "mount", "change", "measure" } =>
    ((\E id \in Calls : continuations[id].owner = 0) => held)

\* A scope that leaves takes everything it has in flight along.
NothingOutlivesItsScope == NothingSurvivesItsScope /\ TimersFollowTheirScope

\* Scopes are held for as long as an answer may need them, and every answer
\* waited for is on its way.  Known gap: an effect's `on unmount` is not
\* waited for, and may run after the scopes of its popped screen went.
WaitsAreHeldAndEnd == HeldWhileAwaited /\ NothingWaitsForEver
=============================================================================
