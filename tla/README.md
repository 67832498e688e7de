# Verification of byard

byard is a UI runtime: a program written in the Byld language is interpreted on
a *logic thread*, which turns it into frames of primitives; a *render thread*
(the window's own thread) draws the frames with wgpu; an *I/O pool* runs what
the program asks of the outside world; a watcher re-reads the program while it
runs. This directory models the parts whose correctness depends on the order
in which things happen, checks them with TLC and proves some of it with TLAPS.

- [The system](#the-system): its parts, their state, how they meet
- [The plan](#the-plan): what is modelled, what comes next
- [Modules](#modules): how state and actions correspond to the code
- [Runs](#runs): what each checks and shows, and its bounds
- [Fairness](#fairness)
- [Proofs](#proofs)
- [What the runs found](#what-the-runs-found)
- [What is not modelled](#what-is-not-modelled)

Paths below are relative to the repository's `crates/`.

## The system

| Part | State it keeps | Operations | Meets | What makes it correct |
|---|---|---|---|---|
| **Frame hand-off** `byard-core/src/relay.rs`, `frame.rs`, `engine.rs` | one latest-wins slot, a pool of two recycled buffers, the watermark of rendered versions, a hash per primitive of the last frame built | evaluate into a buffer, mark what changed, merge what nobody drew, swap, recycle; fetch, encode, mark | logic and render thread, through atomics only | the picture on the GPU is always the one of the frame last drawn, though most frames are never drawn; requests and layer writes survive in order; nothing is redrawn for ever |
| **Encoder** `byard-core/src/encoder/mod.rs` | the retained picture, the last bounds of every primitive, two counts, a digest of the native batches, "needs full redraw" | encode a frame: in full, one scissored rectangle, unscissored, or not at all; change the viewport | frames from the relay, the surface | one repainted rectangle leaves what a full redraw would have left |
| **Logic loop, idle gate, window loop** `relay.rs`, `byard/src/app.rs`, `byard-platform/src/lib.rs` | a gate (one Boolean), the loop's own flags, queues of input and of results, two words of window size, "a reload was applied" | drain, evaluate, publish, wake the window or not, park or not; push input, store a size, redraw, close | window events, I/O pool, watcher | a change is shown with no further event, an idle program costs nothing, no result sleeps in its queue, closing ends |
| **Controller bridge** `byard-compiler/src/interp/eval/controller.rs`, `byard-core/src/bridge/mod.rs` | continuations by call id, effects and their mount, running timers, discarded ids | raise, open and answer a call; mount, re-fire and unmount an effect; arm and fire a timer; reload | logic thread and I/O pool, through a channel | an answer runs its arm once, against live scopes; what unmounts leaves nothing behind |
| **Reactive core** `byard-compiler/src/interp/reactive.rs` | signals, memos, bindings; per scope its dependencies, its readers, a dirty mark and a generation; a queue of bindings, a list of free slots | open, write, mark, pull, read, retire and reuse a slot | everything in the interpreter | what is not marked holds what evaluating from scratch would give; no scope runs twice a tick; a reused slot is never run for its former scope |
| **Store capability** `byard-core/src/cap/store.rs` | a map in memory behind a mutex, read from a file at the first call | get, keys, set, remove; every change writes the whole map to a temporary file and renames it | I/O pool, the disk, other Stores over the same path | what was acknowledged survives a crash; what is served is what a restart would find; a failure answers and gives the mutex back |
| **Hot reload** `byard-compiler/src/interp/reload.rs`, `byard-project/src/live.rs`, `byard-cli/src/commands/dev.rs`, `byard/src/app.rs` | the watcher's settling time, a latest-wins slot, a held program, the running program with its tree and its `var`s | save, settle, re-read, publish, take, hold behind a press, apply | file system, logic thread, input | the program in the file is the one that runs; state is kept exactly when declarations agree, and never lost under a finger |
| **Vector JIT** `byard-compiler/src/vector/jit.rs`, `byard-core/src/encoder/vector_msdf.rs` | per icon an entry with its state, cell, upload id and age; free cells; the atlas texture | look up, generate on a thread, place or evict, attach uploads to frames until acknowledged, invalidate | logic thread, one-shot workers, watcher, render thread | a cell has one icon; what is drawn is what was asked for; the texture ends up with the saved outline |
| **Navigation** `byard-compiler/src/interp/nav.rs`, `eval/navigation.rs` | a stack of screens or a set of tabs, a transition in flight, the path followed last, a mirror of the stack for `back` and `replace`, a change to announce | write the path; in the render push, pop, replace or refuse; swipe, complete, announce | effects, retirement, input | the path, the screen and the announcement agree; a screen below keeps its place |
| **Retirement and instance pools** `eval/instance.rs` | retired nodes, free slots | retire, release, reuse | effects, reactive core, navigation | no slot is reused while something still reads it |
| **Editing** `interp/edit.rs`, `eval/editing.rs` | buffer, selection, undo, preedit | insert, delete, undo, compose | input, signals | undo restores, selection stays inside the text |
| **Events and gestures** `interp/events.rs`, `eval/follow.rs` | focus, hover, the press in flight and the last tap, by place in the layout; the regions and handlers of the last frame | register a frame's regions, move what is held to where its element went, route pointer, keys and focus requests | input, layout, overlays | a click is heard by what was pressed, and who was told of focus or hover is told when it goes, though frames come between |
| **Animation, scroll, overlays** `interp/anim.rs`, `eval/animation.rs`, `eval/scroll.rs` | values in flight | start, retarget, advance, settle | every tick | an animation settles |
| **Lowering, layout, paint** `interp/eval.rs`, `eval/paint.rs`, `eval/layout.rs` | the tree, retained layouts | lower, lay out, paint | every tick | sequential translation |
| **Front end** `lexer/`, `parser/`, `resolve`, `fmt`, `infer.rs` | none between calls | parse, resolve, format, infer | reload, language server | pure functions |
| **Project** `byard-project/` | manifest, lockfile | solve, fetch, lock | file system | the lock satisfies the manifest |
| **GPU resources** `encoder/*` | texture cache, instance arena, glyph atlas | allocate, grow, evict | encoder | nothing in use is evicted |
| **Native views, accessibility, telemetry, language server, command line, macros** | see `PROJECT.json` | | | adapters and tools around the above |

How they meet, in one tick of the logic thread: it drains the results the I/O
pool queued, drains the window's input, lets the interpreter take a re-read
program, dispatch the input, settle effects, lay out and paint into a recycled
frame; it marks the primitives that changed, publishes the frame into the
relay, decides whether anyone has to be woken, and parks on the idle gate. The
window's thread is woken by an event or by the loop, fetches the frame in the
slot, encodes it, marks it rendered (which signals the gate) and presents. No
thread waits for another except at the end, when the engine joins the logic
thread.

What is hard in it:

- the *render thread skips frames*, so anything a frame says only once (a dirty
  bit, a full redraw, a layer write) has to be carried by the next one, while
  the two threads race on the slot and on a watermark read with relaxed order;
- the encoder trusts *bounds recorded one frame earlier*;
- a *sleeping loop* must be woken by everything that can change a frame, and by
  nothing else, in two places (the gate and the window's Wait mode);
- *answers come late*: after the component that asked has unmounted, after the
  program was replaced, after the effect fired again;
- *one render settles several passes*, so state marked in the first pass can be
  gone by the second.

`PROJECT.json` lists each of these as a hazard at the line where it bites, with
the properties that would notice.

## The plan

Most important behaviour first. Done so far: 1 to 9.

1. **Relay** over **Display**: the hand-off between the two threads, and the
   abstract specification it implements. Proofs: all its safety properties and
   the refinement of Display (done).
2. **Encoder**: which cells a drawn frame repaints. Proofs: all its properties
   (done).
3. **LogicLoop**: who wakes whom. Proofs: its safety properties (done).
4. **Bridge**: calls, effects and timers against unmounting, reloading and
   popped screens. Proofs: all its properties (done).
5. **Store** over **DurableMap**: every step of a write, with failures and
   crashes between any two. Proofs: its safety properties and the refinement
   (done).
6. **Reactive**: signals, memos and bindings with dynamic dependencies against
   a reference evaluation. Proofs: all its properties (done).
7. **VectorJit**: generation, placement, eviction, upload and acknowledgement.
   Proofs: all its properties (done).
8. **Reload** and **Navigation**. Proofs: their safety properties (done).
9. **Events**: presses, hover and focus over frames that change. Proofs: all its
   properties (done).
10. **Retirement**: the slots of unmounted instances, composed with Reactive,
    which has the slots, and Bridge, which has the release of a popped screen.
11. **Solver**: version selection checked against a reference definition over
    small registries; **Editing** (undo against the edits it undoes);
    **TextureCache** (eviction against the frames in flight).

No module uses a recursive operator, so that every one can be proved about.

## Modules

### Relay, Display, FrameProofs

A frame is its version, one pool of primitives (a sequence of looks), a dirty
flag per primitive, a full-redraw request and a sequence of layer writes. The
five pools of `PaintDigest` are alike, so one stands for all.

| Relay | code |
|---|---|
| `Evaluate` | `acquire_recycled`, the view's evaluation, `PaintDigest::apply` and the version stamp; `reset` is `PaintDigest::reset` |
| `CarryForward` | the first half of `publish`: slot against watermark, `merge_dirty_from`. The watermark is read with `Ordering::Relaxed`, so any older value may be seen |
| `Swap`, `Recycle` | the second half: the exchange, `Arc::try_unwrap`, `try_send` |
| `Fetch`, `Abandon`, `EncodeFails`, `Encode`, `MarkRendered` | `Engine::render_latest`: `current`, the surface's early returns, the encode with or without an error, `mark_rendered` |
| `latest`, `rendered`, `recycled`, `digest` | `Relay::latest`, `rendered_version`, the recycle channel, `PaintDigest` |
| `screen`, `layer` | what the GPU retains |
| `history`, `shown`, `settled` | history variables: they are read by no action's guard and by properties only (`shown` also names the frame drawn last) |

`Display` is the promise without the mechanism: pictures are published, a draw
shows one at least as new as the one before. `Relay!D` maps its three variables
onto Relay's.

### Encoder, FrameProofs

The screen is a row of cells, a rectangle an interval, a cell the set of inks
that show in it. Each primitive has the three extents the code confuses or
tells apart: what it records for the next frame, what it adds to the scissor,
where its ink lands. Pools differ in the traits `Counted`, `Compared`,
`Restless`, `Measured` and `Unnoticed`, read off the encoder; two of equal
traits are one of the nine kinds in `AllPools`. The fading of a container with
children is a kind too: a group's ink is what it does to the cells it covers.

| Encoder | code |
|---|---|
| `RedrawFull`, `RedrawScissored`, `RedrawUploaded`, `RedrawNothing` | the four outcomes of `encode_frame_with_decorations` |
| `EncodeFrame` | one of them, with `update_frame_bookkeeping` |
| `EncodeFrameFails` | the text's preparation or `draw_ui_pass` returns an error: nothing is drawn and no bookkeeping is done, but the digest of the native batches was stored before |
| `UpdateViewport` | `update_viewport` with another size |
| `failed`, `excused` | history variables |

`Dirty` takes from Relay what Relay's proof gives: a frame marks at least what
changed since the frame last drawn. `excused` collects the cells the rules give
no way to repaint, so that `OnlyKnownGapsAreStale` can say that there are no
others. The reasons are the four parts of `Gaps`: a pool whose length nobody
compares lost its last primitive (`Unwatched`); a primitive paints, or painted,
outside the bounds taken of it (`Unbounded`); a vector glyph, a filled path or
the fading of a group changed, which nothing notices (`Unmarked`); a native
view changed in a frame whose encode failed (`Forgotten`). Without any one of
them TLC finds the property violated.

### LogicLoop, LogicThreadProofs

A frame is reduced to what of the outside world it shows: how many inputs,
results, sizes and programs, and how many ticks the animations have left.
The loop's steps are those of `spawn_logic_from_view`: `DrainResults`,
`DrainInputs`, `Evaluate`, `Publish`, `Decide`, and the park, which ends at a
signal or at its timeout. `Decide` models `wants_another_frame` with the
evaluation order of the code, in which the flag of a reload is taken only when
no animation has answered first. The window's thread is a winit loop: one
event at a time, and a draw is two steps because the logic thread may publish
between them. Width and height are stored one after the other. The I/O pool
queues a result and signals in two steps. A result that fails, or that changes
nothing, is not among the results counted. The surface may refuse any frame:
`RedrawLost` is always possible, and the history variable `refused` remembers
that it happened, because the code then asks for nothing again. `MaxEvents`
bounds all that comes from outside, of whatever kind.

### Bridge, BridgeProofs

The tree is a set of *scopes* that come and go, and each holds effects; a
*screen* is a scope that is released when it is popped, any other one (the
branch of a `when`, a row of a `for`) is kept. `pc` follows the logic thread
through a tick and, inside `render_frame`, through the loop that walks, settles
and releases until a pass changes nothing.

| Bridge | code |
|---|---|
| `Deliver`, `EndResults` | `apply_io_results`: `resume` or `fire_timer` for each result, then `drain_calls` |
| `Reload` | `follow` with a new program: `reset_bridge_state` and a tree lowered afresh |
| `Dispatch`, `BeginFrame` | `dispatch_events`; `tick` and `render_frame` up to its loop, with `release_frame_scopes` |
| `Walk` | `reconcile_structure`, which marks effects and retires popped screens, and the sweep that starts `settle_effects` |
| `Unmount`, `Mount`, `Change`, `NextPhase` | the three loops of `settle_effects`, one effect per step |
| `EndPass` | `drain_calls`, `release_retired` and the loop's exit |
| `Measure` | `fire_measures`, after the loop |
| `ReplyArrives`, `TimerTicks` | the tasks of `spawn_call` and `spawn_timer` |
| `seen`, `mounted`, `started`, `timer` | the fields of `EffectSlot` (`seen` as "equal to `frame_seq`", `started` as "`last` is not empty") |
| `held` | whether `release_frame_scopes` kept the scopes of earlier frames |

Whatever an action of the program does is `Act`: it may raise a call, move the
values a change effect watches, and choose another tree, popping screens. Which
one is open, so the model has every program over these effects.

### Store, DurableMap, StoreProofs

A call is a task that takes the Store's mutex and keeps it until it answers;
between its steps any other task goes on, and any process may die.

| Store | code |
|---|---|
| `Place`, `Acquire` | `spawn_call`; `with_state` taking the mutex |
| `Load`, `Read` | the first use reads the file (what cannot be read counts as empty, and is reported once); `get` and `keys` |
| `Apply` | `mutate`: memory changes and a copy is taken, before anything is written |
| `Create`, `Fill`, `Rename` | `store_atomically`: a temporary file of a name of its own, its contents, the rename |
| `WriteFails`, `RenameFails`, `Acknowledge` | its error returns and the reply |
| `Crash` | the process of one Store ends; another may open the file again |
| `cache`, `lock`, `disk`, `temp` | `Inner::map`, its mutex, the file, the temporary files |

`Stores` stand for processes, or for two Stores in one process: the file is all
they share. A value in `Lossy` (a number that is not finite) is written as
null. `DurableMap` is one map per Store that is read and saved whole.

### Reactive, ReactiveProofs

A slot holds a scope: a memo or a binding, whose compute reads one source and,
when that is truthy, another, so that dependencies change from run to run.
Memos may read memos. An evaluation is a stack of frames, one source per step,
as a dirty memo is computed in the middle of its reader.

| Reactive | code |
|---|---|
| `Open`, `Drop` | `push_scope` with `open_memo` or `open_value_binding`; `drop_scope`, which frees the slot and raises its generation |
| `Write`, `Cascade` | `write_signal`, `mark_scope` |
| `BeginTick`, `PullNext`, `EndPull` | `begin_tick`, `pull`; `ran` is "`last_epoch` is this tick's" |
| `ReadSignal`, `ReadCached`, `ReadDirty`, `ReadRetired`, `Peek` | `read_signal`, `read_memo` in a compute, and outside any |
| `Enter`, `Return` | `clear_deps` and the end of `evaluate_scope` |

`Reference` evaluates every scope from the signals alone; `NoWriteIsMissed`
compares it with what the scopes hold.

### VectorJit, VectorJitProofs

| VectorJit | code |
|---|---|
| `Lookup` (`DrawResident`, `Dispatch`) | `lookup_or_dispatch`, one icon of a frame |
| `Read`, `Deliver` | a worker: it reads the file, then generates and sends |
| `BeginDrain`, `TakeResult`, `EndDrain` | `drain_ready`: acknowledgements, results, the uploads of the frame |
| `PlaceInFreeCell`, `PlaceOverVictim`, `NoRoom`, `PlaceRegenerated`, `GenerationFailed` | `place_glyph`, `alloc_cell_or_evict` and the error arms |
| `Save`, `Invalidate` | an edit; `invalidate` of what the watcher reported |
| `Publish`, `Present` | the frame in the relay's slot; `apply_uploads`, the acknowledgements and the draw |

The relay is reduced to its slot of one frame, which is what loses uploads. An
icon's field is its handle and the version of its file.

### Navigation, NavigationProofs

The container is a record that one reconciliation passes through the code's
steps: `Finish`, `NavigateTo` (`Found`, `TooDeep`, `MountOn`), `BeginAnim`,
`Complete`, `LiveOf`. `phase` is the order of a tick: results and input, the
announcement (`FireRouteChange`), taps, then `Reconcile` until nothing changes.
`Navigate`, `Replace` and `Back` write the path from any place the program runs
in. A transition is over when `elapsed` says so; a swipe is `BeginSwipe`,
`DriveSwipe` and one of the releases. Screens carry an identity, so that one
that was dropped and mounted anew is told from one that was kept.

### Reload, LogicThreadProofs

Of a program, Reload keeps the declaration of one `var` of its root view, the
rest of that view's body, and which other views there are. `Truncate` and
`Write` are an editor's save; `Hear`, `Settle`, `Read`, `DropStale` and `Send`
the watcher's thread and `LatestWins::publish`; `Take`, `Release` and
`Dispatch` the tick, in `byard dev` (`gated`) or in an app that follows its
project. `Apply` is `apply_program`. `skipped`, `loose` and `overtaken` remember
that one of the known gaps was taken: a program without a root, types that are
not written, a held program applied over a newer one.

### Events, EventsProofs

A *frame* is what a render leaves to the router: the layout's elements in
order, those that were painted in order, where they are, which are disabled.
What a position hits (`Hit`, `HitAny`, `PressOwner`, `FocusableAt`, `Fires`)
are functions of the frame. Handlers write signals, so any frame may follow any
other. Of frames it is assumed only that no element is built or painted twice,
that what is painted was built, and that a radio group or a tab list, which is
opened and closed around the children of one box, does not reach from the page
into an overlay painted over it (`GroupsAssumption`). `Step`, `Lowest` and
`Topmost` find the element that keys or the pointer go to next by where it is
painted, which is the order in which the router registers regions.

| Events | code |
|---|---|
| `PointerDown`, `PointerUp`, `StrayUp`, `Drag`, `Hover` | `dispatch` of the pointer's events; `pace` stands for the distances and times that tell taps, double taps and long presses apart |
| `Tab`, `GroupKey`, `Press`, `Escape` | `dispatch` of the keys the router handles itself |
| `FocusElement` | `focus_element`, asked for by an assistive technology |
| `StealFocus`, `FireOn`, `Captured` | `steal_focus`, `fire_on_elem`, `captured_drag` |
| `Render` | `clear_handlers`, `follow_elements` with `follow_focus` and `follow_pointer`, and the registration of the new frame |
| `told`, `inside` | the `focused` vars that are true; who heard `pointer_enter` and not `pointer_exit` |

The router knows elements by their place in the layout; `took` and `tapped`
remember which elements the press and the last tap were on. `Unrecorded` are
the elements whose identity the layout does not record (everything but boxes),
`strays` and `unheard` those that could not be told, being out of sight or
disabled.

## Runs

Bounds are chosen so that every race can happen and something can go wrong
twice; a larger instance adds repetition only.

| Run | Instance | What it shows |
|---|---|---|
| `relay` | 2 looks, pools of 0 to 2, 3 frames, requests and writes | the picture on the screen is exact; full redraws and layer writes survive skipped, abandoned and failed frames, in order, and are carried only while owed; Relay implements Display |
| `encoder_gaps` | 5 cells, every trait of a pool, any encode failing | every stale cell has one of the listed reasons, so where none applies repainting one rectangle is exact; an unchanged frame costs nothing |
| `encoder_unnoticed` | a box, a filled path, a fading container | finding: a filled path that is new is not repainted |
| `logic_loop` | 2 events of any kind, animations of 1 tick, any frame refused | no result sleeps behind a closed gate; what changed is shown with no further event; closing ends; a quiet program stops drawing |
| `bridge_scopes` | a branch and a screen, one effect of each kind, 1 call, 2 writes, 1 reload, 3 passes | nothing outlives its scope, scopes are held for answers that come, the mounted effects are the tree's |
| `store` | 2 Stores, 2 calls at a time, 2 keys, a value that JSON has and one that it has not | the file says what callers were told; every call is answered; Store implements DurableMap |
| `reactive` | 2 Boolean signals, 3 scopes opened in any slot | nothing is missed, run twice, or run for a scope that is gone |
| `vector` | 3 icons, 2 cells, 1 edit, 5 workers | a cell has one icon, an icon one generation; what is drawn is what was asked for |
| `navigation` | 3 routes and a path without one, at most 2 screens, stack or tabs | the stack is whole; path, screen and announcement agree; screens keep their place |
| `reload` | a program and four edits of it, the empty file and a broken one, 3 saves | values fit the tree, state goes only with its declaration, the saved program runs |
| `reload_stale` | the same | finding: a held program is applied over a newer one |
| `events` | 7 elements, 3 spots, 3 frames: a page, the page with a row inserted, one element out of sight and two disabled, the page under a dialog with one element gone | who was told is told, a click is the press, a dialog shuts the page out |

The state spaces of Encoder, Navigation and Events are finite without a
counter: frames, navigations and gestures follow each other for ever (screens'
identities go round, `MaxScreens` of them). Store is bounded by its calls, each
placed once: two of them meet between any two steps of a write, and two Stores
over the file is one more than most programs have. Relay is bounded by `MaxPublished`;
`OneThingAtATime` keeps pools of two primitives apart from requests and writes,
since flags and what a frame asks for are merged side by side. LogicLoop is
bounded by the number of outside events, Bridge by what the program may still do (`MaxCalls`, `MaxWrites`, `MaxReloads`) and by the ticks
an `every` may pile up (`MaxQueue`); two writes are enough to leave a scope,
come back to it and be caught by a late answer. `MaxPasses` is the code's
`MAX_INSTANCE_DEPTH`, made small so that a render can run out of passes.
Reactive is bounded by `MaxOpens`: three scopes are a chain of two memos under
a binding, two paths to one binding, or a slot that is used again while both
its neighbours name it. VectorJit is bounded by workers and edits: five
generations fill the atlas, evict, and regenerate. Reload is bounded by
`MaxSaves`: one program runs, one is held, one overtakes it. `reactive` and
`vector` use symmetry, of the signals, and of the icons and the cells; both
check safety only.

The check for deadlock is off in `logic_loop`, because a closed program stops,
and in `store`, where every call has been answered or has died in the end;
everywhere else the system always has a step to take.

Every property of a passing run has a mutant in `PROJECT.json`: a `Faulty...`
operator in the module, a plausible mistake in the code, with which TLC finds
the property violated. No action uses these operators.

## Fairness

- *LogicLoop*: weak fairness of each thread's own steps (a thread the scheduler
  runs does its next step; a park times out; winit delivers a queued event and
  a requested redraw). Nothing is assumed of the outside: no input, result,
  resize or reload has to happen, the window need not be closed, and a surface
  may refuse every frame. `ChangeIsShown` is owed only while none was refused:
  a refusal uses up the redraw request, and nothing asks again.
- *Store*: weak fairness of each call's task, as the pool runs its tasks. A
  process need not die, nor stay up.
- *Reload*: weak fairness of an editor's second write, of the watcher's thread
  and of the ticks. Nobody has to save, press or release.
- *Relay, Encoder, Bridge, Reactive, VectorJit, Navigation, Events*: none; their
  properties are of safety. A call may never be answered, a worker may never
  finish, and the loop may park for ever with nothing to do. That a frame in
  the slot is drawn at all cannot be said of the hand-off alone, as the window
  asks for a frame only when it is told to; it is `ChangeIsShown`, of LogicLoop,
  where a draw needs a request.

## Proofs

`FrameProofs` proves about Relay, from `RelayAssumption` alone (the pool bound and the
frame bound are naturals, requests are Booleans, writes are sequences of
looks), for every value of the constants:

- `TypeCorrect`: `Spec => []TypeOK`.
- `NoDirtyBitIsLost`: `Spec => []ScreenShowsItsFrame`.
- `HandoffImplementsDisplay`: `Spec => ImplementsDisplay`.
- `OwedIsCarried`: `Spec => []CarriesWhatIsOwed`.

The second is not inductive: that the screen shows the frame last drawn says
nothing of the frame about to be drawn. `Handoff` adds three facts. *Versions*
orders slot, hands and watermark. *Pictures* says that a frame in anybody's
hand is the picture its version was evaluated to. *Coverage* is the heart:
a frame covers a picture when it marks every position where they differ, and
the slot covers the screen, the frame in the render thread's hand covers the
screen and is covered by the slot, and the frame being built covers the slot.
Two lemmas about the code's operators carry it: flags computed against a
picture cover that picture (`CompareCovers`), and merging composes
(`MergeCovers`: if f covers g and g covers s, then f with g's flags folded in
covers s), also when the lengths differ. The one delicate step is
`CarryForward` with a stale watermark: reading an older watermark only merges
more, and reading the current one means that the slot's frame is on the screen.

The refinement maps each action to a step of Display or to a stutter: the swap
publishes, the encode draws (with `Handoff` for the picture it draws), all else
leaves pictures and screen alone. `OwedIsCarried` needs one more invariant,
`Debts`, about what a frame asks for rather than what it shows. *Redraws*: the
slot, the frame in the render thread's hand and the frame about to be swapped
in each carry every full redraw asked for since the last draw that was settled.
*Only owed*: they carry none older. *Writes*: the last write in a frame is the
newest issued up to its version, and the layer stands at some version between
the one shown and the one in the slot, since an encode that failed may have
uploaded already. The newest writer of a version exists for any number of
versions (`NewestIsAWriter`), by the well-foundedness of the naturals.

It proves about Encoder, from `EncoderAssumption` (every pool of a frame is a sequence,
of primitives that paint cells of the screen), for any screen, any contents and
any opaque looks:

- `EncoderTypeCorrect`, `PictureIsCurrent`: `EncoderSpec => []EncoderTypeOK`,
  `EncoderSpec => []OnlyKnownGapsAreStale`. The invariant adds that the bounds
  kept are those of the last frame encoded, also after the texture was lost,
  and so is the digest of the native batches unless the last encode failed
  (`Bookkept`). The argument is about one cell outside the scissor
  (`KeptInkIsCurrent`): no primitive that changed paints it or painted it, as
  far as reach and bounds say; a pool whose length is compared lost nothing at
  its end; what is not measured did not change or is excused; and a digest that
  is not the last frame's hides no change that is not excused. An encode that
  fails draws nothing and keeps the rest (`EncodeFrameFailsInvariant`).
- `RepeatedFrameIsSkipped`: `EncoderSpec => UnchangedFrameIsNotDrawn`, an action
  property.

`FrameProofs` and `LogicThreadProofs` hold the proofs of two components each,
which share no variable; the specifications of Encoder and LogicLoop are called
`EncoderSpec` and `LoopSpec` so that both of a pair can be extended.

`BridgeProofs` proves the four invariants `bridge_scopes` checks, from
`BridgeAssumption` alone (screens are scopes, every effect has a kind and a
home, the bounds are naturals), for any tree, any effects and any bounds:

- `TypeCorrect`: `Spec => []TypeOK`. `DrainFacts`, on what placing the queued
  calls does to the table, and `ActFacts`, on what an action of the program may
  touch, are the lemmas all later proofs cite.
- `ScopesTakeTheirCalls`: `Spec => []NothingSurvivesItsScope`. A call is opened
  some time after it was raised, and its effect may have left in between; so
  `ScopeInv` follows the queue as well: an owner in it is mounted (or exempt),
  the queue is empty when a walk decides who leaves, and the effects about to
  act in a phase are mounted. `BeginFrame` and `EndPass` draining the queue
  before the walk is what the argument hangs on.
- `TheTreeIsMounted`: `Spec => []MountedIsTheTree`, from `TreeInv`: the first
  walk of a render starts with nothing met.
- `ScopesAreHeld`: `Spec => []HeldWhileAwaited`, from `HoldInv`: nothing of a
  handler's is queued while the render settles, so no such call is opened after
  the decision to hold was made.
- `TimersEndWithTheirScope` and `WhatIsOpenIsAnswered`:
  `Spec => []TimersFollowTheirScope` and `Spec => []NothingWaitsForEver`, from
  one `TimerInv`. Neither holds by itself: that an unmount cancels the right
  task needs the slot, the continuation and the task to name each other
  (`SlotTimers`, `OpenTimers`), and that a tick does not close an `every`, nor
  a reply a timer, needs to know what the ids in the pool and in its queue were
  opened as (`RepliesAreToCalls`).

- `ScopesTakeEverything` and `WaitsEnd`: `Spec => []NothingOutlivesItsScope` and
  `Spec => []WaitsAreHeldAndEnd`, the conjunctions of these that the run checks.

`StoreProofs` proves, from `StoreAssumption` (there is a Store and a key; values
without a JSON form are values; the markers of an absent value, of no file, of
a torn one and of an unread cache are not values or maps), for any Stores,
calls, keys and values:

- `TypeCorrect`: `Spec => []TypeOK`.
- `TheFileIsWhatWasSaid`: `Spec => []FileIsWhatWasSaid`. The invariant `Saved`
  says that one call at a time is past its lock on a Store (`Exclusive`), that
  the copy it writes is still that Store's memory, and that its temporary file
  is that copy (`Copies`); so a rename puts the memory of its Store into the
  file (`RenamedIsOnDisk`, `MemoryIsSaved`), and memory is always among what
  callers may have been told (`MemoryIsOwed`). Each step of a write, each way
  it fails and the death of a process is a lemma.
- `StoreImplementsDurableMap`: `Spec => ImplementsDurableMap`, a step at a time:
  a rename saves, an apply changes memory, a load reads back, a crash forgets.

`VectorJitProofs` proves, from `VectorAssumption` (cells are finitely many, no
icon, cell or field is the marker of none, the bounds are naturals), for any
icons and cells:

- `TypeCorrect`: `Spec => []TypeOK`; that upload ids stay within their bound
  takes a count of the workers and results each generation leaves (`Counted`).
- `CellsHaveOneOwner`: `Spec => []OneOwnerEach`, from `OneGeneration` and
  `Owners`. An entry that waits for a regeneration still holds its cell, so
  owners are all entries with a cell and not the resident ones.
- `TextureKeepsUp` and `ScreenShowsTheIcon`: `Spec => []TextureIsCurrent` and
  `Spec => []DrawnIsTheIcon`. Between the frame that uploads and the frame that
  draws there is a slot of one frame, which later frames replace. The argument
  is that an upload goes on being attached until it is acknowledged (`Building`),
  that an upload's number names one icon and one cell for ever (`Identities`,
  `SlotIsIdentified`), so an acknowledgement that comes late can only be for
  what is in the texture, which nothing in the slot would overwrite
  (`AckedIsSettled`), and that a frame in the slot brings the texels of what it
  draws or finds them there (`SlotIsDrawable`).

`LogicThreadProofs` proves about LogicLoop, from `LogicLoopAssumption` (the bounds
are naturals):

- `LoopTypeCorrect`: `LoopSpec => []LoopTypeOK`, with what a frame can show bounded by what
  has happened (`Happened`).
- `NoWakeUpIsLost`: `LoopSpec => []NoResultSleeps`. Inductive is what holds from the
  moment the queue was drained and not only in the park: a result that is left
  in the queue stands beside an open gate or a sender about to open it
  (`QueuedIsSignalled`). It is the order of the code that makes it so: queue,
  then signal; take the gate, then drain.

It proves about Reload, from `ReloadAssumption` (a program's root declares the
type it is annotated with or none; the markers of an empty, broken or missing
program are no programs), for any programs and any number of saves:

- `TypeCorrect` and `ValuesStayFit`: `Spec => []TypeOK`,
  `Spec => []ValuesFitTheTree`; `ApplyEnds` sums up what `apply_program` leaves.
- `EditsKeepState`: `Spec => OnlyRetypedStateIsLost`, an action property: every
  apply that changes the tree keeps the `var` or has a reason not to.

`ReactiveProofs` proves, from `ReactiveAssumption` (truthy values are values,
what a dead memo reads as and the reference's marker are not, at least one scope
can be opened, a signal is not a scope's id), for any signals, any computes of
the form modelled and any number of scopes opened, retired and reused:

- `TypeCorrect`, `LinksStayMutual`: `Spec => []TypeOK`, `Spec => []LinksAreMutual`.
- `NothingIsMissed`: `Spec => []NoWriteIsMissed`.
- `EvaluatedOnce`: `Spec => OnceATick`, an action property.

None of them is inductive. `CleanIsRight` compares with an evaluation of unbounded
depth; the invariant says it one step at a time instead: a clean scope holds
what its compute yields from what its sources hold now, and is subscribed to
each of them, none of which is dirty (`CleanIsFed`). That this gives
`CleanIsRight` is an induction over the depth of the reference (`DeeperAgrees`,
`CleanScopesAreRight`). For a write to preserve it, the cascade must leave no
clean reader of a marked memo. `Cascade` is bounded in the model, so that it is
closed has to be shown: every visit but the last reaches a scope that was not
reached before, and there are no more scopes than slots (`CascadeFacts`). An
evaluation under way holds what it has read, from sources it is subscribed to
(`Evaluations`), and no evaluation comes back to itself, since a closure names
only what was there when it was lowered: there is a ranking of slots that falls
along reads and up the stack (`Acyclic`). That no scope is evaluated twice
follows from `Computed`: what was evaluated since the last write or tick is
clean or on the stack. Recursion and induction are over sets of naturals
(`NatIsInductive`, from the well-foundedness of `<`), as the induction theorems
that take an operator cannot be used.

`NavigationProofs` proves, from `NavigationAssumption` (what routes match are
paths, the first path among them; the marker of none is neither a path nor a
transition), for any paths, any `max_depth` (none included), and any number of
identities:

- `TypeCorrect`, `StackStaysWhole`, `PathAndNewsAgree`: `Spec => []TypeOK`,
  `Spec => []StackIsWhole`, `Spec => []ScreenPathAndNewsAgree`.
- `ScreensStay`: `Spec => ScreensArePreserved`, an action property.

The three invariants are about moments (a painted frame, a moment at rest); the
inductive one, `Standing`, says what holds throughout: a transition runs between
two screens there are, towards the current one, and only a stack pops
(`Stands`); what is at rest was announced or is about to be (`Announces`); the
screen of the path followed last is the current one, or, under a finger, the
one that leaves (`Follows`), which is why a swipe that is let go of needs no
path of its own. `Keep`, `Complete`, `Finish`, `BeginAnim`, `MountOn` and
`NavigateTo` have a lemma each about any container they are applied to, and a
reconciliation is their composition (`AskedFacts`, `DoneFacts`).

`EventsProofs` proves, from `EventsAssumption` and `GroupsAssumption` (elements
are finitely many, frames are as said above, `None` is no element and no press),
for any elements, frames, handlers, groups and overlays:

- `TypeCorrect`, `EveryoneStaysTold`: `Spec => []TypeOK`,
  `Spec => []EveryoneIsTold`.
- `InputIsRouted`: `Spec => InputGoesWhereItMay`, an action property: the three
  promises about clicks, overlays and focus.

The invariant `EvInv` ties each place the router holds to an element the history
knows: the focus to whose signal it set (`FocusIsHeld`), the press to what was
pressed (`PressIsHeld`), the last tap to what was tapped (`TapIsHeld`), hover to
who was told (`HoverIsHeld`); it says nothing of an element the layout does not
record. A step on one frame is `Allowed`, a lemma for each input; a render keeps
the invariant because following moves each place to where its element is
(`FollowFacts`, `FollowedElement`). What is hit is always what is reachable and
painted last (`TopmostFacts`, `ReachFacts`), and what is hit by a click is what
was pressed because both are the topmost that takes a press
(`ClickOfTheTopmost`). `Min` and `Max` over places are there by well-foundedness,
since the induction theorems that take an operator cannot be used.

Two statements had to be corrected on the way, and TLC shows both older forms
false on the instance that now checks the new ones. That an element the pointer
left was told so holds only where it listens to `pointer_exit`: one that hears
`pointer_enter` alone is told nothing. That a click goes to the pressed element
holds only where it takes a press in the frame of the release: one that was
disabled in between and only took focus leaves the click to what is under it.

The proofs are of the model: what it leaves out (nested scopes, calls without
arms) they leave out too.

Model-checked only: liveness, which under fairness is out of the proof system's
reach (`ChangeIsShown`, `ClosedAppEnds`, `SettledAppDrawsNothing`, `EveryCallIsAnswered`, `SavedProgramRuns`). Every
invariant and every action property of a passing run is proved.
`NewestIsApplied` and `EveryChangeIsRepainted`, which runs refute, are not
candidates.

## What the runs found

Two runs are expected to be violated; `PROJECT.json` quotes the line each
contradicts.

- `encoder_unnoticed`: a filled path adds nothing to the scissor, has no count
  and asks for no full redraw, so a frame in which only it changed is skipped.
  Without filled paths the property is violated by a container that fades: a
  group's opacity is in no digest.
- `reload_stale`: a save that is compatible with the running program is applied
  at once and leaves an older program, held behind a press, where it is; on
  release the older one is applied over the newer, and stays until the next
  save.

Other gaps are written into the properties, which hold but for them, and each
is among the hazards at its line:

- *Encoder*: what a shadowed box or a wrapped line of text covered is recorded
  too small; an atlas upload is clipped away when something else is dirty; the
  end of a pool that is not counted may go unnoticed; a change of a native view
  is forgotten when the encode that noticed it fails.
- *LogicLoop*: a refused surface, a new size and the frame an animation settles
  in wake nobody.
- *Bridge*: the `on unmount` of a screen mounted and popped in one render runs a
  frame later, when its scopes are gone; a late reply to a call that an unmount
  dropped is dropped too, with nothing said; a call placed by an `on unmount`
  belongs to nobody.
- *Store*: after a write that failed, memory and file differ until the next one;
  a file that could not be read is replaced whole; of two Stores over one path
  the last to write wins, for all keys.
- *VectorJit*: an edit that arrives while a worker is on the icon is ignored; an
  icon edited before its texels were acknowledged is no longer sent.
- *Navigation*: a path written while a finger is on the edge; a `replace` of the
  path that is shown, which stays armed for the next push.
- *Reload*: a program without a root on either side of an apply is applied by
  half, so that the old tree stays; types that are not written agree with any.
- *Events*: an element that is out of sight or disabled is not told that focus
  or the pointer left it; what is not a box is lost sight of when it moves; keys
  reach what has focus under a dialog.

## What is not modelled

`PROJECT.json` lists every part with its status. In the modules above:

- *Relay* leaves out the other per-frame lists that are rebuilt whole (they
  have nothing to carry), and the host's reaction to an encode error: the
  winit host ends, other hosts may go on, and the model lets it go on.
- *Encoder* leaves out the scissor's margin of two pixels, draw order, clip
  masks, the rotation of groups with the frame in which a rotation ends, and
  what the GPU does with a draw.
- *LogicLoop* leaves out the accessibility tree (nobody listens, so no frame
  carries one), IME, the Poll-mode host of the development runner, and
  programs that fail to compile.
- *Bridge* leaves out calls without arms, the requests of native views, the
  engine's own timers, arguments and captured parameters, and scopes within
  scopes. Results that arrive while others are applied may be applied with
  them, where the code takes the batch that was there. A transition that ends
  by the clock is an input. A reload that changes nothing is not a step.
- *Store* leaves out where the file lies, and methods and arguments that are
  refused before anything happens.
- *Reactive* leaves out the structural scopes of `when` and `for`, untracked
  reads, and computes that write.
- *VectorJit* leaves out the caches on disk and the fields compiled ahead of
  time, which only make a worker faster.
- *Navigation* leaves out route parameters, nested containers, and two
  containers over one path.
- *Reload* leaves out themes, assets, the set of watched files, and roots that
  instantiate other views.
- *Events* takes the events of a tick one by one: the merging of moves before
  that is left out, as are light dismissal, the drag latch and `focus_visible`
  (they only style), keys and text that go on to the focused element, scrolling
  and its gestures, and native views. A key that repeats does nothing.
- The front end, expression evaluation, layout and painting are sequential
  translations with large inputs, covered by unit tests; GPU calls, native
  views and platform adapters are external.
