------------------------------ MODULE Reactive ------------------------------
(***************************************************************************)
(* The reactive core of the interpreter: signals, memos computed on demand, *)
(* and bindings that a tick pulls.  A write marks what depends on it and    *)
(* computes nothing; a pull evaluates what is queued; an evaluation records *)
(* what it reads, and only that.  Scopes come and go between pulls, and the *)
(* slot of one that went is taken by the next to come.                      *)
(*                                                                         *)
(* Everything happens on one thread; what is hard is the order.  A compute  *)
(* is pure, reads one source and, when that is truthy, another.             *)
(***************************************************************************)
EXTENDS Naturals, Sequences, FiniteSets, Functions

CONSTANTS Signals,
          Values,      \* of a signal
          Truthy,      \* those after which a compute reads on
          Unit,        \* what a memo that is gone reads as
          Gone,        \* no value: what a retired memo is to the reference
          MaxOpens     \* bound: how many scopes are ever opened

Slots   == 1 .. MaxOpens
Ids     == [slot : Slots, gen : 0 .. MaxOpens]

ASSUME ReactiveAssumption ==
  /\ Truthy \subseteq Values /\ Unit \notin Values /\ Gone \notin Values \cup {Unit}
  /\ MaxOpens \in Nat \ {0} /\ Signals \cap Ids = {}

Sources == Signals \cup Ids
Bodies  == [test : Sources, then : Sources]
Nothing == [test |-> Unit, then |-> Unit]
Results == Values \cup {Unit}

VARIABLES value,      \* per signal: its value
          listeners,  \* per signal: SignalCell::subscribers
          kind,       \* per slot: what scope it holds
          gen,        \* per slot: its generation
          body,       \* per slot: its compute
          cache,      \* per slot: a memo's cache, a binding's last_written
          dirty,      \* per slot
          deps,       \* per slot: what its scope read when it last ran
          subs,       \* per slot: who read its memo
          free,       \* retired slots, the last retired on top
          queue,      \* dirty_bindings
          pulling,    \* inside `pull`
          ran,        \* inside a pull: slots whose last_epoch is the tick's
          stack,      \* the evaluations under way
          opens,      \* how many scopes were opened
          computed    \* history: the ids evaluated since the last write or tick
vars == <<value, listeners, kind, gen, body, cache, dirty, deps, subs, free,
          queue, pulling, ran, stack, opens, computed>>
-----------------------------------------------------------------------------
IsLive(i) == kind[i.slot] \in {"memo", "binding"} /\ gen[i.slot] = i.gen
IdOf(s)   == [slot |-> s, gen |-> gen[s]]
Live      == {i \in Ids : IsLive(i)}
LiveMemos == {i \in Live : kind[i.slot] = "memo"}
Idle      == ~pulling /\ stack = << >>

\* The scopes one marking visit goes on to: live and not marked yet.
Unmarked(is) == {i \in is : IsLive(i) /\ ~dirty[i.slot]}

\* Marks the readers of the signal and stops there.
FaultyCascade(from) == Unmarked(from)

(* The cascade of mark_scope: it goes through memos to their readers, and does *)
(* not enter a scope that is dirty already.                                   *)
Cascade(from) ==
  LET reach[n \in 0 .. MaxOpens] ==
        IF n = 0 THEN Unmarked(from)
        ELSE reach[n - 1] \cup
             Unmarked(UNION {subs[i.slot] : i \in {j \in reach[n - 1] : kind[j.slot] = "memo"}})
  IN reach[MaxOpens]

\* Links from the sources of a scope to it, taken off.
UnlinkListeners(i) == [g \in Signals |-> IF g \in deps[i.slot] THEN listeners[g] \ {i}
                                                               ELSE listeners[g]]
\* A scope that runs again stays in the lists of the memos it read before.
FaultyUnlinkSubs(i) == subs
UnlinkSubs(i) == [s \in Slots |-> IF \E m \in deps[i.slot] \cap Ids : m.slot = s
                                    THEN subs[s] \ {i} ELSE subs[s]]

NextSource(f) == IF f.at = 1 THEN body[f.id.slot].test ELSE body[f.id.slot].then
Top    == stack[Len(stack)]
Below  == SubSeq(stack, 1, Len(stack) - 1)
Begun(i) == [id |-> i, at |-> 1, seen |-> Unit]
Saw(v) == Append(Below, [Top EXCEPT !.at = IF @ = 1 /\ v \in Truthy THEN 2 ELSE 3, !.seen = v])
-----------------------------------------------------------------------------
Init ==
  /\ value \in [Signals -> Values]
  /\ listeners = [g \in Signals |-> {}]
  /\ kind = [s \in Slots |-> "none"]
  /\ gen = [s \in Slots |-> 0]
  /\ body = [s \in Slots |-> Nothing]
  /\ cache = [s \in Slots |-> Unit]
  /\ dirty = [s \in Slots |-> FALSE]
  /\ deps = [s \in Slots |-> {}]
  /\ subs = [s \in Slots |-> {}]
  /\ free = << >> /\ queue = {} /\ pulling = FALSE
  /\ ran = {} /\ stack = << >> /\ opens = 0 /\ computed = {}

\* Reads the top of the free list and leaves it there.
FaultyFreeAfterOpen == free
FreeAfterOpen == IF free # << >> THEN SubSeq(free, 1, Len(free) - 1) ELSE free

(* A scope is lowered: a closure over signals and over memos that exist.    *)
(* A binding is queued at once, a memo waits for its first read.   *)
Open(k, b) ==
  /\ Idle /\ opens < MaxOpens
  /\ LET s == IF free # << >> THEN free[Len(free)]
              ELSE CHOOSE n \in Slots : kind[n] = "none" /\ \A m \in 1 .. n - 1 : kind[m] # "none"
     IN /\ free' = FreeAfterOpen
        /\ kind' = [kind EXCEPT ![s] = k]
        /\ body' = [body EXCEPT ![s] = b]
        /\ cache' = [cache EXCEPT ![s] = Unit]
        /\ dirty' = [dirty EXCEPT ![s] = TRUE]
        /\ ran' = ran \ {s}
        /\ queue' = IF k = "binding" THEN queue \cup {IdOf(s)} ELSE queue
  /\ opens' = opens + 1
  /\ UNCHANGED <<value, listeners, gen, deps, subs, pulling, stack, computed>>

Write(g, v) ==
  /\ Idle
  /\ value' = [value EXCEPT ![g] = v]
  /\ LET marked == Cascade(listeners[g])
     IN /\ dirty' = [s \in Slots |-> dirty[s] \/ \E i \in marked : i.slot = s]
        /\ queue' = queue \cup {i \in marked : kind[i.slot] = "binding"}
  /\ computed' = {}
  /\ UNCHANGED <<listeners, kind, gen, body, cache, deps, subs, free, pulling, ran, stack, opens>>

BeginTick ==
  /\ Idle /\ queue # {}
  /\ pulling' = TRUE /\ computed' = {}
  /\ UNCHANGED <<value, listeners, kind, gen, body, cache, dirty, deps, subs, free, queue, ran,
                 stack, opens>>

\* clear_deps, then the compute.
Enter(i) ==
  /\ listeners' = UnlinkListeners(i)
  /\ subs' = UnlinkSubs(i)
  /\ deps' = [deps EXCEPT ![i.slot] = {}]
  /\ computed' = computed \cup {i}

PullNext ==
  /\ pulling /\ stack = << >>
  /\ \E i \in queue :
       /\ queue' = queue \ {i}
       /\ IF IsLive(i) /\ i.slot \notin ran
            THEN /\ ran' = ran \cup {i.slot}
                 /\ Enter(i)
                 /\ stack' = << Begun(i) >>
            ELSE UNCHANGED <<ran, listeners, subs, deps, computed, stack>>
  /\ UNCHANGED <<value, kind, gen, body, cache, dirty, free, pulling, opens>>

EndPull ==
  /\ pulling /\ stack = << >> /\ queue = {}
  /\ pulling' = FALSE /\ ran' = {}
  /\ UNCHANGED <<value, listeners, kind, gen, body, cache, dirty, deps, subs, free, queue,
                 stack, opens, computed>>

\* The painter, an action or an arm reads a memo, in no scope.
Peek(m) ==
  /\ Idle
  /\ IsLive(m) /\ kind[m.slot] = "memo" /\ dirty[m.slot]
  /\ Enter(m) /\ stack' = << Begun(m) >>
  /\ UNCHANGED <<value, kind, gen, body, cache, dirty, free, queue, pulling, ran, opens>>

Evaluating == stack # << >> /\ Top.at < 3

ReadSignal ==
  /\ Evaluating /\ NextSource(Top) \in Signals
  /\ LET g == NextSource(Top)
     IN /\ listeners' = [listeners EXCEPT ![g] = @ \cup {Top.id}]
        /\ deps' = [deps EXCEPT ![Top.id.slot] = @ \cup {g}]
        /\ stack' = Saw(value[g])
  /\ UNCHANGED <<value, kind, gen, body, cache, dirty, subs, free, queue, pulling, ran, opens,
                 computed>>

\* The memo's screen is gone, and so is its id.
ReadRetired ==
  /\ Evaluating /\ NextSource(Top) \in Ids
  /\ ~IsLive(NextSource(Top))
  /\ stack' = Saw(Unit)
  /\ UNCHANGED <<value, listeners, kind, gen, body, cache, dirty, deps, subs, free, queue,
                 pulling, ran, opens, computed>>

ReadCached ==
  /\ Evaluating /\ NextSource(Top) \in Ids
  /\ LET m == NextSource(Top)
     IN /\ IsLive(m) /\ ~dirty[m.slot]
        /\ subs' = [subs EXCEPT ![m.slot] = @ \cup {Top.id}]
        /\ deps' = [deps EXCEPT ![Top.id.slot] = @ \cup {m}]
        /\ stack' = Saw(cache[m.slot])
  /\ UNCHANGED <<value, listeners, kind, gen, body, cache, dirty, free, queue, pulling, ran,
                 opens, computed>>

(* A dirty memo is subscribed to and then computed; its reader goes on when it *)
(* has its value, which is ReadCached.                                        *)
ReadDirty ==
  /\ Evaluating /\ NextSource(Top) \in Ids
  /\ LET m == NextSource(Top)
     IN /\ IsLive(m) /\ dirty[m.slot]
        /\ subs' = [UnlinkSubs(m) EXCEPT ![m.slot] = @ \cup {Top.id}]
        /\ deps' = [deps EXCEPT ![Top.id.slot] = @ \cup {m}, ![m.slot] = {}]
        /\ listeners' = UnlinkListeners(m)
        /\ computed' = computed \cup {m}
        /\ stack' = Append(stack, Begun(m))
  /\ UNCHANGED <<value, kind, gen, body, cache, dirty, free, queue, pulling, ran, opens>>

\* A memo keeps its mark after it was computed.
FaultyReturn ==
  /\ stack # << >> /\ Top.at = 3
  /\ cache' = [cache EXCEPT ![Top.id.slot] = Top.seen]
  /\ dirty' = [dirty EXCEPT ![Top.id.slot] = kind[Top.id.slot] = "memo"]
  /\ stack' = Below
  /\ UNCHANGED <<value, listeners, kind, gen, body, deps, subs, free, queue, pulling, ran, opens,
                 computed>>

\* A memo caches what it computed, a binding writes its field of the frame.
Return ==
  /\ stack # << >> /\ Top.at = 3
  /\ cache' = [cache EXCEPT ![Top.id.slot] = Top.seen]
  /\ dirty' = [dirty EXCEPT ![Top.id.slot] = FALSE]
  /\ stack' = Below
  /\ UNCHANGED <<value, listeners, kind, gen, body, deps, subs, free, queue, pulling, ran, opens,
                 computed>>

(* A scope is retired: everything that points at it is undone, except queue *)
(* entries, which its generation disowns.                                   *)
Drop(i) ==
  /\ Idle /\ IsLive(i)
  /\ listeners' = UnlinkListeners(i)
  /\ subs' = [UnlinkSubs(i) EXCEPT ![i.slot] = {}]
  /\ deps' = [s \in Slots |-> IF s = i.slot THEN {}
                              ELSE IF IdOf(s) \in subs[i.slot] THEN deps[s] \ {i} ELSE deps[s]]
  /\ kind' = [kind EXCEPT ![i.slot] = "free"]
  /\ gen' = [gen EXCEPT ![i.slot] = @ + 1]
  /\ dirty' = [dirty EXCEPT ![i.slot] = FALSE]
  /\ body' = [body EXCEPT ![i.slot] = Nothing]
  /\ cache' = [cache EXCEPT ![i.slot] = Unit]
  /\ free' = Append(free, i.slot)
  /\ UNCHANGED <<value, queue, pulling, ran, stack, opens, computed>>
-----------------------------------------------------------------------------
\* What a closure can name when it is lowered; a source that is read again is
\* found subscribed to.
InScope  == Signals \cup LiveMemos
Readings == {b \in [test : InScope, then : InScope] : b.test # b.then}

Evaluate == PullNext \/ EndPull \/ ReadSignal \/ ReadRetired \/ ReadCached \/ ReadDirty \/ Return

Next ==
  \/ \E k \in {"memo", "binding"}, b \in Readings : Open(k, b)
  \/ \E g \in Signals, v \in Values : Write(g, v)
  \/ \E i \in Live : Peek(i) \/ Drop(i)
  \/ BeginTick \/ Evaluate

Spec     == Init /\ [][Next]_vars
-----------------------------------------------------------------------------
TypeOK ==
  /\ value \in [Signals -> Values] /\ listeners \in [Signals -> SUBSET Ids]
  /\ kind \in [Slots -> {"none", "memo", "binding", "free"}] /\ gen \in [Slots -> 0 .. MaxOpens]
  /\ body \in [Slots -> Bodies \cup {Nothing}] /\ cache \in [Slots -> Results] /\ dirty \in [Slots -> BOOLEAN]
  /\ deps \in [Slots -> SUBSET Sources] /\ subs \in [Slots -> SUBSET Ids]
  /\ free \in Seq(Slots) /\ IsInjective(free)
  /\ Range(free) = {s \in Slots : kind[s] = "free"}
  /\ queue \subseteq Ids /\ pulling \in BOOLEAN /\ ran \subseteq Slots
  /\ stack \in Seq([id : Live, at : 1 .. 3, seen : Results])
  /\ opens \in 0 .. MaxOpens /\ computed \subseteq Ids

(* What a scope would compute now, from the signals alone; Gone when its      *)
(* compute comes across a memo that was retired.                             *)
Reference ==
  LET at[n \in 0 .. MaxOpens] ==
        [x \in Sources |->
           IF x \in Signals THEN value[x]
           ELSE IF n = 0 \/ ~IsLive(x) THEN Gone
           ELSE LET first == at[n - 1][body[x.slot].test]
                IN IF first \in Truthy THEN at[n - 1][body[x.slot].then] ELSE first]
  IN at[MaxOpens]

(* A scope that is not marked holds what evaluating everything from scratch  *)
(* would give it: no write is missed through any chain of memos, whatever    *)
(* was opened, retired and put in a retired slot in between.                 *)
CleanIsRight ==
  \A i \in Live : ~dirty[i.slot] => Reference[i] \in {Gone, cache[i.slot]}

(* Nothing on the screen is forgotten: a marked binding is queued or being   *)
(* evaluated, so the pull that empties the queue leaves every binding clean. *)
DirtyIsQueued ==
  \A i \in Live : kind[i.slot] = "binding" /\ dirty[i.slot]
                   => i \in queue \/ \E n \in 1 .. Len(stack) : stack[n].id = i

(* No write is missed by what the next frame shows: right now, or by the     *)
(* next pull.                                                               *)
NoWriteIsMissed == CleanIsRight /\ DirtyIsQueued

(* What a scope recorded as read and who is recorded as its reader agree,    *)
(* and neither end of a link is a retired scope: a slot that is used again   *)
(* is never run, nor marked, for its former occupant.                        *)
LinksAreMutual ==
  /\ \A g \in Signals : listeners[g] = {i \in Live : g \in deps[i.slot]}
  /\ \A m \in Live : subs[m.slot] = {i \in Live : m \in deps[i.slot]}
  /\ \A s \in Slots : deps[s] \cap Ids \subseteq LiveMemos

(* No scope is evaluated twice between two writes of a tick, however many    *)
(* paths lead from a signal to it.                                          *)
OnceATick ==
  [][\A i \in Ids : Len(stack') > Len(stack) /\ stack'[Len(stack')].id = i
                      => i \notin computed]_vars
=============================================================================
