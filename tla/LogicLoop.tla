------------------------------ MODULE LogicLoop ------------------------------
(***************************************************************************)
(* The logic thread's loop, the gate it sleeps at and the event loop it    *)
(* wakes (crates/byard-core/src/relay.rs, crates/byard/src/app.rs,         *)
(* crates/byard-platform/src/lib.rs).                                      *)
(*                                                                         *)
(* Three kinds of thread: the logic thread ticks, the window's thread runs *)
(* a winit loop in Wait mode, which draws only when a redraw was asked     *)
(* for, and the I/O pool's threads deliver results.  A frame is reduced to *)
(* what of the outside world it shows.  Module Relay says how its pixels   *)
(* reach the screen once it is drawn; here the question is whether anybody *)
(* asks for it to be drawn.  No assistive technology is listening, so no   *)
(* frame carries a tree and tree_changed never holds.  The operators named *)
(* Faulty... are used by no action: each is a plausible bug.  Init, Next   *)
(* and the like are called LoopInit, LoopNext and so on: LogicThreadProofs *)
(* extends this module and Reload together.                                *)
(***************************************************************************)
EXTENDS Naturals

CONSTANTS
  MaxEvents,     (* Inputs, results, resizes and reloads, all together.     *)
  MaxAhead       (* Ticks an animation takes; 1 is also an `on measure`.    *)

ASSUME LogicLoopAssumption == MaxEvents \in Nat /\ MaxAhead \in Nat

VARIABLES
  world,     (* How many of each thing have happened outside the program.   *)
  sending,   (* Results queued by an IoSender that has yet to signal.       *)
  gate,      (* IdleGate::pending.                                          *)
  pc,        (* Where the logic thread is in its loop.                      *)
  app,       (* What the program has taken in, and the ticks it is ahead.   *)
  batch,     (* Inputs drained and not yet dispatched.                      *)
  applied,   (* Whether a result changed anything this tick.                *)
  hadInput,  (* Whether this tick had input.                                *)
  reloaded,  (* AppRuntime::reloaded.                                       *)
  latest,    (* What the frame in the relay shows.                          *)
  shutdown,  (* Relay::shutdown.                                            *)
  main,      (* Where the window's thread is.                               *)
  wake,      (* A FramePublished event is queued for it.                    *)
  redraw,    (* A redraw is requested.                                      *)
  drawn,     (* What the frame being drawn shows.                           *)
  screen,    (* What the screen shows.                                      *)
  refused    (* History: the surface has refused a frame.                   *)

worldVars == << world, sending >>
logicVars == << pc, app, batch, applied, hadInput, reloaded >>
hostVars  == << main, redraw, drawn, screen, refused >>
loopVars == << world, sending, gate, pc, app, batch, applied, hadInput,
               reloaded, latest, shutdown, main, wake, redraw, drawn, screen, refused >>

\* What a frame shows of the world, and how far an animation has come.
Nothing ==
  [ inputs |-> 0, results |-> 0, width |-> 0, height |-> 0, program |-> 0,
    ahead |-> 0, blank |-> TRUE ]

LoopInit ==
  /\ world = [ inputs |-> 0, results |-> 0, width |-> 0, height |-> 0,
               program |-> 0 ]
  /\ sending = 0 /\ gate = FALSE
  /\ pc = "drain" /\ app = Nothing
  /\ batch = 0 /\ applied = FALSE /\ hadInput = FALSE /\ reloaded = FALSE
  /\ latest = Nothing /\ shutdown = FALSE
  \* `resumed` asks for the first redraw.
  /\ main = "waiting" /\ wake = FALSE /\ redraw = TRUE
  /\ drawn = Nothing /\ screen = Nothing /\ refused = FALSE

\* The world goes on for a bounded number of events, of any kind in any order.
Happens ==
  world.inputs + world.results + world.width + world.program < MaxEvents

(***************************************************************************)
(* The I/O pool and the watcher.                                           *)
(***************************************************************************)

\* IoSender::send, first half: queue the result.
QueueResult ==
  /\ Happens
  /\ world' = [ world EXCEPT !.results = @ + 1 ]
  /\ sending' = sending + 1
  /\ UNCHANGED << gate, latest, shutdown, wake >>
  /\ UNCHANGED logicVars /\ UNCHANGED hostVars

\* Fault: the gate is not opened.
FaultySignalResult ==
  /\ sending > 0
  /\ sending' = sending - 1
  /\ UNCHANGED << world, gate, latest, shutdown, wake >>
  /\ UNCHANGED logicVars /\ UNCHANGED hostVars

\* IoSender::send, second half: IdleGate::signal.
SignalResult ==
  /\ sending > 0
  /\ sending' = sending - 1
  /\ gate' = TRUE
  /\ UNCHANGED << world, latest, shutdown, wake >>
  /\ UNCHANGED logicVars /\ UNCHANGED hostVars

\* LatestWins::publish of a re-read program that compiles: nothing is signalled.
Reparse ==
  /\ Happens
  /\ world' = [ world EXCEPT !.program = @ + 1 ]
  /\ UNCHANGED << sending, gate, latest, shutdown, wake >>
  /\ UNCHANGED logicVars /\ UNCHANGED hostVars

(***************************************************************************)
(* The logic thread (Relay::spawn_logic_from_view).                        *)
(***************************************************************************)

\* Fault: an animation that has settled goes on settling.
FaultyAdvance(ahead) == ahead - 1

\* A tick moves an animation under way one step on.
Advance(ahead) == IF ahead > 0 THEN ahead - 1 ELSE 0

Stop ==
  /\ pc = "drain" /\ shutdown
  /\ pc' = "stopped"
  /\ UNCHANGED << app, batch, applied, hadInput, reloaded >>
  /\ UNCHANGED << gate, latest, shutdown, wake >>
  /\ UNCHANGED worldVars /\ UNCHANGED hostVars

\* Tick step 0: apply_io_results, of everything queued.
DrainResults ==
  /\ pc = "drain" /\ ~shutdown
  /\ applied' = (app.results < world.results)
  /\ app' = [ app EXCEPT !.results = world.results ]
  /\ pc' = "input"
  /\ UNCHANGED << batch, hadInput, reloaded >>
  /\ UNCHANGED << gate, latest, shutdown, wake >>
  /\ UNCHANGED worldVars /\ UNCHANGED hostVars

DrainInputs ==
  /\ pc = "input"
  /\ batch' = world.inputs - app.inputs
  /\ hadInput' = (batch' > 0)
  /\ pc' = "evaluate"
  /\ UNCHANGED << app, applied, reloaded >>
  /\ UNCHANGED << gate, latest, shutdown, wake >>
  /\ UNCHANGED worldVars /\ UNCHANGED hostVars

\* What a tick finds changed may start an animation, or run an `on measure`.
SomethingChanged ==
  \/ app.blank \/ batch > 0 \/ applied
  \/ app.program < world.program
  \/ << app.width, app.height >> # << world.width, world.height >>

\* AppRuntime::evaluate_tick: take a re-read program, dispatch the input, lay
\* out for the size stored and render, which moves the animations on.
Evaluate ==
  /\ pc = "evaluate"
  /\ \E ahead \in { Advance(app.ahead) }
                  \union (IF SomethingChanged THEN { MaxAhead } ELSE {}) :
       app' = [ inputs  |-> app.inputs + batch,
                results |-> app.results,
                width   |-> world.width,
                height  |-> world.height,
                program |-> world.program,
                ahead   |-> ahead,
                blank   |-> FALSE ]
  /\ reloaded' = (reloaded \/ app.program < world.program)
  /\ batch' = 0
  /\ pc' = "publish"
  /\ UNCHANGED << applied, hadInput >>
  /\ UNCHANGED << gate, latest, shutdown, wake >>
  /\ UNCHANGED worldVars /\ UNCHANGED hostVars

\* Relay::publish.
Publish ==
  /\ pc = "publish"
  /\ latest' = app
  /\ pc' = "decide"
  /\ UNCHANGED << app, batch, applied, hadInput, reloaded >>
  /\ UNCHANGED << gate, shutdown, wake >>
  /\ UNCHANGED worldVars /\ UNCHANGED hostVars

\* Fault: a result asks for nothing.
FaultyWakes(more) == hadInput \/ more

\* Fault: an idle tick wakes the renderer too.
FaultyWakesAlways(more) == TRUE

\* Which frames the window is told of.
Wakes(more) == hadInput \/ applied \/ more

\* wants_another_frame, and what the loop makes of it.  The flag of a reload
\* is only taken when no animation has answered first.
Decide ==
  /\ pc = "decide"
  /\ LET more == app.ahead > 0 \/ reloaded
     IN
     /\ wake' = (wake \/ Wakes(more))
     /\ pc' = IF hadInput \/ applied THEN "drain"
              ELSE IF more THEN "pace" ELSE "idle"
  /\ reloaded' = (reloaded /\ app.ahead > 0)
  /\ UNCHANGED << app, batch, applied, hadInput >>
  /\ UNCHANGED << gate, latest, shutdown >>
  /\ UNCHANGED worldVars /\ UNCHANGED hostVars

\* IdleGate::park ends at once, or is woken, when the gate is open.
ParkSignalled ==
  /\ pc \in {"pace", "idle"} /\ gate
  /\ gate' = FALSE
  /\ pc' = "drain"
  /\ UNCHANGED << app, batch, applied, hadInput, reloaded >>
  /\ UNCHANGED << latest, shutdown, wake >>
  /\ UNCHANGED worldVars /\ UNCHANGED hostVars

\* Fault: an idle park waits for the gate alone.
FaultyPark ==
  /\ pc = "pace" /\ ~gate
  /\ pc' = "drain"
  /\ UNCHANGED << app, batch, applied, hadInput, reloaded >>
  /\ UNCHANGED << gate, latest, shutdown, wake >>
  /\ UNCHANGED worldVars /\ UNCHANGED hostVars

\* FRAME_PACE, UNSEEN_PACE or IDLE_PARK has passed.
ParkTimesOut ==
  /\ pc \in {"pace", "idle"} /\ ~gate
  /\ pc' = "drain"
  /\ UNCHANGED << app, batch, applied, hadInput, reloaded >>
  /\ UNCHANGED << gate, latest, shutdown, wake >>
  /\ UNCHANGED worldVars /\ UNCHANGED hostVars

(***************************************************************************)
(* The window's thread (WinitApp and the app's Host), one event at a time. *)
(***************************************************************************)

\* Pointer, keyboard, text: push_input, then request_redraw.
Input ==
  /\ main = "waiting" /\ Happens
  /\ world' = [ world EXCEPT !.inputs = @ + 1 ]
  /\ redraw' = TRUE
  /\ UNCHANGED << sending, gate, latest, shutdown, wake >>
  /\ UNCHANGED << main, drawn, screen, refused >> /\ UNCHANGED logicVars

\* on_resize stores the width, then the height: two words.
ResizeWidth ==
  /\ main = "waiting" /\ Happens
  /\ world' = [ world EXCEPT !.width = @ + 1 ]
  /\ main' = "resizing"
  /\ UNCHANGED << sending, gate, latest, shutdown, wake >>
  /\ UNCHANGED << redraw, drawn, screen, refused >> /\ UNCHANGED logicVars

ResizeHeight ==
  /\ main = "resizing"
  /\ world' = [ world EXCEPT !.height = world.width ]
  /\ main' = "waiting"
  /\ redraw' = TRUE
  /\ UNCHANGED << sending, gate, latest, shutdown, wake >>
  /\ UNCHANGED << drawn, screen, refused >> /\ UNCHANGED logicVars

\* user_event, FramePublished.
FramePublished ==
  /\ main = "waiting" /\ wake
  /\ wake' = FALSE
  /\ redraw' = TRUE
  /\ UNCHANGED << gate, latest, shutdown >>
  /\ UNCHANGED << main, drawn, screen, refused >>
  /\ UNCHANGED logicVars /\ UNCHANGED worldVars

\* RedrawRequested, before the first frame: render_latest returns at once.
RedrawEmpty ==
  /\ main = "waiting" /\ redraw /\ latest.blank
  /\ redraw' = FALSE
  /\ UNCHANGED << gate, latest, shutdown, wake >>
  /\ UNCHANGED << main, drawn, screen, refused >>
  /\ UNCHANGED logicVars /\ UNCHANGED worldVars

\* render_latest: take the frame and acquire the surface.
Redraw ==
  /\ main = "waiting" /\ redraw /\ ~latest.blank
  /\ redraw' = FALSE
  /\ drawn' = latest
  /\ main' = "drawing"
  /\ UNCHANGED << gate, latest, shutdown, wake, screen, refused >>
  /\ UNCHANGED logicVars /\ UNCHANGED worldVars

\* The surface was lost, outdated, occluded or late: Ok(()), and no redraw.
RedrawLost ==
  /\ main = "drawing"
  /\ main' = "waiting"
  /\ drawn' = Nothing
  /\ refused' = TRUE
  /\ UNCHANGED << gate, latest, shutdown, wake, redraw, screen >>
  /\ UNCHANGED logicVars /\ UNCHANGED worldVars

\* Encode, submit, mark_rendered (which signals the gate) and present.
Present ==
  /\ main = "drawing"
  /\ screen' = drawn
  /\ gate' = TRUE
  /\ main' = "waiting"
  /\ drawn' = Nothing
  /\ UNCHANGED << latest, shutdown, wake, redraw, refused >>
  /\ UNCHANGED logicVars /\ UNCHANGED worldVars

\* CloseRequested ends the loop; Engine::drop asks the logic thread to stop ...
Close ==
  /\ main = "waiting"
  /\ shutdown' = TRUE
  /\ main' = "joining"
  /\ UNCHANGED << gate, latest, wake, redraw, drawn, screen, refused >>
  /\ UNCHANGED logicVars /\ UNCHANGED worldVars

\* ... and waits for it.
Join ==
  /\ main = "joining" /\ pc = "stopped"
  /\ main' = "gone"
  /\ UNCHANGED << gate, latest, shutdown, wake, redraw, drawn >>
  /\ UNCHANGED << screen, refused >> /\ UNCHANGED logicVars /\ UNCHANGED worldVars

LoopNext ==
  \/ QueueResult \/ SignalResult \/ Reparse
  \/ Stop \/ DrainResults \/ DrainInputs \/ Evaluate \/ Publish \/ Decide
  \/ ParkSignalled \/ ParkTimesOut
  \/ Input \/ ResizeWidth \/ ResizeHeight \/ FramePublished
  \/ RedrawEmpty \/ Redraw \/ RedrawLost \/ Present \/ Close \/ Join

LoopSpec == LoopInit /\ [][LoopNext]_loopVars

(***************************************************************************)
(* Fairness.  Every thread that can take a step takes one, and a park ends.*)
(* Nothing is assumed of the world: no input, result, resize or reload has *)
(* to happen, and the surface need not fail.                               *)
(***************************************************************************)
Fairness ==
  /\ WF_loopVars(SignalResult)
  /\ WF_loopVars(Stop \/ DrainResults \/ DrainInputs \/ Evaluate \/ Publish
                 \/ Decide \/ ParkSignalled \/ ParkTimesOut)
  /\ WF_loopVars(ResizeHeight) /\ WF_loopVars(FramePublished)
  /\ WF_loopVars(RedrawEmpty \/ Redraw) /\ WF_loopVars(Present \/ RedrawLost)
  /\ WF_loopVars(Join)

FairLoopSpec == LoopSpec /\ Fairness

(***************************************************************************)
(* Properties.                                                             *)
(***************************************************************************)

Shown ==
  [ inputs : 0..MaxEvents, results : 0..MaxEvents, width : 0..MaxEvents,
    height : 0..MaxEvents, program : 0..MaxEvents, ahead : 0..MaxAhead,
    blank : BOOLEAN ]

\* Every variable has its type: no counter of the loop passes the events that
\* happened, and an animation never moves past its end.
LoopTypeOK ==
  /\ world \in [ inputs : 0..MaxEvents, results : 0..MaxEvents,
                 width : 0..MaxEvents, height : 0..MaxEvents,
                 program : 0..MaxEvents ]
  /\ sending \in 0..MaxEvents
  /\ pc \in { "drain", "input", "evaluate", "publish", "decide", "pace",
              "idle", "stopped" }
  /\ main \in { "waiting", "resizing", "drawing", "joining", "gone" }
  /\ app \in Shown /\ latest \in Shown /\ drawn \in Shown /\ screen \in Shown
  /\ batch \in 0..MaxEvents
  /\ gate \in BOOLEAN /\ applied \in BOOLEAN /\ hadInput \in BOOLEAN
  /\ reloaded \in BOOLEAN /\ shutdown \in BOOLEAN
  /\ wake \in BOOLEAN /\ redraw \in BOOLEAN /\ refused \in BOOLEAN

\* The lost wake-up IdleGate is there to prevent: the logic thread is never
\* parked on a closed gate with a result in its queue, unless the sender has
\* still to open it.
NoResultSleeps ==
  pc \in { "pace", "idle" } /\ app.results < world.results
    => gate \/ sending > 0

\* The user, or the desktop, is closing the window: nothing more is owed.
Closing == shutdown

\* Whatever changed the program is on screen sooner or later, with no further
\* event to help it there: an input event, a result, which no window event
\* comes with, and a re-read program, though the flag that asks for its frame
\* can be left standing behind an animation.  An idle frame published over
\* theirs does not cancel the wake, and a redraw of an older frame does not
\* use it up.  Known gaps: a surface that refuses a frame uses up its redraw,
\* and a new size, or the frame an animation settles in, wakes nobody.
ChangeIsShown ==
  \A n \in 1..MaxEvents :
    \A what \in { "inputs", "results", "program" } :
      (world[what] >= n) ~> (screen[what] >= n \/ Closing \/ refused)

\* Closing the window ends the program: the logic thread, parked or not, hears
\* of it and is joined (Engine::drop).
ClosedAppEnds == Closing ~> (main = "gone")

\* A program nothing happens to stops asking for redraws (Wait mode).
SettledAppDrawsNothing == <>[](main = "gone" \/ (~redraw /\ ~wake))
===============================================================================
