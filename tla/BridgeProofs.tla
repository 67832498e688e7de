---------------------------- MODULE BridgeProofs ----------------------------
(***************************************************************************)
(* Proofs about Bridge, for any scopes, effects and bounds: its types, and *)
(* that nothing in flight survives the scope that started it.              *)
(***************************************************************************)
EXTENDS Bridge, TLAPS

Owners == Effects \cup {0}
Answers == [ kind : { "reply", "tick" }, id : 1..nextId ]
Open == [ owner : Owners, kind : { "call", "every", "after" } ]

\* What an action of the program may touch, whatever it does.
LEMMA ActFacts ==
  ASSUME NEW owner, NEW still, Act(owner, still), TreeOK
  PROVE  /\ queue' = queue \/ queue' = Append(queue, owner)
         /\ wanted' \subseteq Scopes /\ popped' \subseteq Screens
         /\ moved' = still \/ moved' = started'
BY DEF Act, TreeOK

\* Draining the queue opens what was in it under fresh ids and empties it.
LEMMA DrainFacts ==
  ASSUME DrainCalls, TableOK
  PROVE  /\ nextId' \in Nat /\ nextId <= nextId'
         /\ continuations' \in [ DOMAIN continuations' -> Open ]
         /\ DOMAIN continuations' \subseteq 1..nextId'
         /\ flying' \subseteq 1..nextId'
         /\ queue' = << >>
         /\ \A id \in DOMAIN continuations' :
              \/ /\ id \in DOMAIN continuations
                 /\ continuations'[id] = continuations[id]
              \/ \E n \in DOMAIN queue : continuations'[id].owner = queue[n]
<1> DEFINE ids == { Fresh(n) : n \in DOMAIN queue }
           Raiser(id) == queue[CHOOSE n \in DOMAIN queue : Fresh(n) = id]
           opened == [ id \in ids |-> [ owner |-> Raiser(id), kind |-> "call" ] ]
<1>1. /\ queue \in Seq(Owners) /\ Len(queue) \in Nat
      /\ DOMAIN queue = 1..Len(queue)
      /\ \A n \in DOMAIN queue : queue[n] \in Owners
  BY DEF TableOK, Owners
<1>2. ids \subseteq 1..(nextId + Len(queue))
  BY <1>1 DEF Fresh, TableOK
<1>3. \A id \in ids : \E n \in DOMAIN queue : Raiser(id) = queue[n]
  OBVIOUS
<1>4. \A id \in ids : opened[id] \in Open /\ opened[id].owner = Raiser(id)
  BY <1>1, <1>3 DEF Open
<1>5. /\ continuations' = With(opened)
      /\ flying' = flying \cup ids /\ nextId' = nextId + Len(queue) /\ queue' = << >>
  BY DEF DrainCalls
<1>6. /\ DOMAIN continuations' = ids \cup DOMAIN continuations
      /\ continuations' = [ id \in DOMAIN continuations' |->
                              IF id \in ids THEN opened[id] ELSE continuations[id] ]
  <2>1. DOMAIN opened = ids
    OBVIOUS
  <2> HIDE DEF opened, ids
  <2> QED BY <1>5, <2>1 DEF With
<1> HIDE DEF opened, ids, Raiser
<1>7. \A id \in DOMAIN continuations' :
        continuations'[id] = IF id \in ids THEN opened[id] ELSE continuations[id]
  BY <1>6
<1>8. \A id \in DOMAIN continuations : continuations[id] \in Open
  BY DEF TableOK, Open, Owners
<1>9. continuations' \in [ DOMAIN continuations' -> Open ]
  <2>1. \A id \in DOMAIN continuations' : continuations'[id] \in Open
    BY <1>4, <1>6, <1>7, <1>8
  <2>2. continuations' = [ id \in DOMAIN continuations' |-> continuations'[id] ]
    BY <1>6, <1>7
  <2> QED BY <2>1, <2>2
<1>10. nextId' \in Nat /\ nextId <= nextId'
  BY <1>1, <1>5 DEF TableOK
<1>11. DOMAIN continuations' \subseteq 1..nextId' /\ flying' \subseteq 1..nextId'
  BY <1>1, <1>2, <1>5, <1>6, <1>10 DEF TableOK
<1>12. \A id \in DOMAIN continuations' :
              \/ /\ id \in DOMAIN continuations
                 /\ continuations'[id] = continuations[id]
              \/ \E n \in DOMAIN queue : continuations'[id].owner = queue[n]
  BY <1>3, <1>4, <1>6, <1>7
<1> QED BY <1>5, <1>9, <1>10, <1>11, <1>12

(***************************************************************************)
(* Types.                                                                  *)
(***************************************************************************)

\* An action of the program keeps the types of what it may touch.
LEMMA ActTypes ==
  ASSUME NEW owner \in Owners, NEW still, Act(owner, still),
         TreeOK, TableOK, still \subseteq started'
  PROVE  /\ queue' \in Seq(Owners)
         /\ wanted' \subseteq Scopes /\ popped' \subseteq Screens
         /\ moved' \subseteq started'
BY ActFacts DEF TableOK, Owners

\* Ids handed out later do not disturb the answers already queued.
LEMMA InboxGrows ==
  ASSUME InboxOK, TableOK, inbox' = inbox, nextId' \in Nat, nextId <= nextId'
  PROVE  InboxOK'
<1>1. Answers \subseteq Answers'
  BY DEF TableOK, Answers
<1>2. \A S, T : S \subseteq T => Seq(S) \subseteq Seq(T)
  OBVIOUS
<1>3. inbox \in Seq(Answers) /\ (InboxOK' <=> inbox' \in Seq(Answers'))
  BY DEF InboxOK, Answers
<1> QED  BY <1>1, <1>2, <1>3

\* The initial state is well typed.
LEMMA InitTypes == Init => TypeOK
<1> SUFFICES ASSUME Init PROVE TypeOK
  OBVIOUS
<1>1. TreeOK
  <2>1. MaxPasses \in Nat
    BY BridgeAssumption DEF BridgeAssumption
  <2>2. /\ pc = "idle" /\ wanted \in SUBSET Scopes /\ passes = 0
        /\ popped = {} /\ tree = {} /\ retired = {} /\ dropped = {}
        /\ held \in BOOLEAN /\ changed \in BOOLEAN
    BY DEF Init
  <2> QED  BY <2>1, <2>2 DEF TreeOK
<1>2. SlotsOK
  BY DEF Init, SlotsOK, Effects
<1>3. TableOK
  BY DEF Init, TableOK
<1>4. InboxOK
  BY DEF Init, InboxOK
<1> QED  BY <1>1, <1>2, <1>3, <1>4 DEF TypeOK

\* Every step of either side keeps the types.
LEMMA NextTypes == TypeOK /\ [Next]_vars => TypeOK'
<1> SUFFICES ASSUME TypeOK, [Next]_vars PROVE TypeOK'
  OBVIOUS
<1> USE DEF TypeOK
<1>1. CASE Deliver
  <2>1. inbox' \in Seq(Answers)
    <3>1. inbox \in Seq(Answers) /\ inbox # << >> /\ inbox' = Tail(inbox)
      BY <1>1 DEF Deliver, InboxOK, Answers
    <3> QED  BY <3>1
  <2>2. /\ nextId' = nextId /\ flying' = flying /\ ticking' = ticking
        /\ started' = started /\ pc' = "drain"
    BY <1>1 DEF Deliver, slots
  <2>3. /\ continuations' \in [ DOMAIN continuations' -> Open ]
        /\ DOMAIN continuations' \subseteq DOMAIN continuations
        /\ discarded' \subseteq discarded
    BY <1>1 DEF Deliver, Resume, FireTimer, Without, TableOK, Open, Owners
  <2>4. /\ queue' \in Seq(Owners)
        /\ wanted' \subseteq Scopes /\ popped' \subseteq Screens
        /\ moved' \subseteq started'
    <3>1. Act(0, moved) \/ UNCHANGED acting
      BY <1>1 DEF Deliver, Resume, FireTimer
    <3>2. CASE Act(0, moved)
      BY <2>2, <3>2, ActTypes DEF SlotsOK, Owners
    <3>3. CASE UNCHANGED acting
      BY <2>2, <3>3 DEF acting, SlotsOK, TreeOK, TableOK, Owners
    <3> QED  BY <3>1, <3>2, <3>3
  <2>5. TreeOK'
    BY <1>1, <2>2, <2>4 DEF Deliver, structure, settling, TreeOK
  <2>6. SlotsOK'
    BY <1>1, <2>2, <2>4 DEF Deliver, slots, settling, SlotsOK
  <2>7. TableOK'
    BY <2>2, <2>3, <2>4 DEF TableOK, Open, Owners
  <2>8. InboxOK'
    BY <2>1, <2>2 DEF InboxOK, Answers
  <2> QED  BY <2>5, <2>6, <2>7, <2>8
<1>2. CASE EndResults
  <2>1. /\ nextId' \in Nat /\ nextId <= nextId'
        /\ continuations' \in [ DOMAIN continuations' -> Open ]
        /\ DOMAIN continuations' \subseteq 1..nextId'
        /\ flying' \subseteq 1..nextId' /\ queue' \in Seq(Owners)
    <3>1. CASE DrainCalls
      BY <3>1, DrainFacts
    <3>2. CASE UNCHANGED << continuations, flying, nextId, queue >>
      BY <3>2 DEF TableOK, Open, Owners
    <3> QED  BY <1>2, <3>1, <3>2 DEF EndResults
  <2>2. UNCHANGED << structure, slots, discarded, wanted, popped, moved, used,
                     held, settling, ticking, inbox >> /\ pc' = "follow"
    BY <1>2 DEF EndResults
  <2>3. TreeOK'
    BY <2>2 DEF structure, settling, TreeOK
  <2>4. SlotsOK'
    BY <2>1, <2>2 DEF slots, settling, SlotsOK, TableOK
  <2>5. TableOK'
    BY <2>1, <2>2 DEF TableOK, Open, Owners
  <2>6. InboxOK'
    BY <2>1, <2>2, InboxGrows
  <2> QED  BY <2>3, <2>4, <2>5, <2>6
<1>3. CASE Reload
  <2>1. UNCHANGED << retired, nextId, held, settling, flying, inbox >> /\ pc' = "dispatch"
    BY <1>3 DEF Reload
  <2>2. TreeOK'
    BY <1>3, <2>1 DEF Reload, settling, TreeOK
  <2>3. SlotsOK'
    BY <1>3, <2>1 DEF Reload, settling, SlotsOK, TableOK
  <2>4. TableOK'
    BY <1>3, <2>1 DEF Reload, TableOK
  <2>5. InboxOK'
    BY <2>1 DEF InboxOK
  <2> QED  BY <2>2, <2>3, <2>4, <2>5
<1>4. CASE Dispatch \/ Measure
  <2>1. /\ UNCHANGED << structure, slots, table, held, settling, pool >>
        /\ Act(0, moved) /\ pc' \in { "tick", "idle" }
    BY <1>4 DEF Dispatch, Measure
  <2>2. /\ queue' \in Seq(Owners)
        /\ wanted' \subseteq Scopes /\ popped' \subseteq Screens
        /\ moved' \subseteq started'
    BY <2>1, ActTypes DEF slots, SlotsOK, Owners
  <2>3. TreeOK'
    BY <2>1, <2>2 DEF structure, settling, TreeOK
  <2>4. SlotsOK'
    BY <2>1, <2>2 DEF slots, settling, table, pool, SlotsOK
  <2>5. TableOK'
    BY <2>1, <2>2 DEF table, pool, TableOK, Owners
  <2>6. InboxOK'
    BY <2>1 DEF table, pool, InboxOK
  <2> QED  BY <2>3, <2>4, <2>5, <2>6
<1>5. CASE BeginFrame
  <2>1. /\ UNCHANGED << structure, mounted, started, timer, discarded, wanted, popped,
                        moved, used, todo, arriving, changed, ticking, inbox >>
        /\ pc' = "walk" /\ DrainCalls /\ held' = HasPendingReplies
        /\ seen' = {} /\ passes' = 0
    BY <1>5 DEF BeginFrame
  <2>2. /\ nextId' \in Nat /\ nextId <= nextId' /\ queue' = << >>
        /\ continuations' \in [ DOMAIN continuations' -> Open ]
        /\ DOMAIN continuations' \subseteq 1..nextId'
        /\ flying' \subseteq 1..nextId'
    BY <2>1, DrainFacts
  <2>3. TreeOK'
    BY <2>1, BridgeAssumption DEF BridgeAssumption, structure, HasPendingReplies, TreeOK
  <2>4. SlotsOK'
    BY <2>1, <2>2 DEF SlotsOK, TableOK
  <2>5. TableOK'
    BY <2>1, <2>2 DEF TableOK, Open, Owners
  <2>6. InboxOK'
    BY <2>1, <2>2, InboxGrows
  <2> QED  BY <2>3, <2>4, <2>5, <2>6
<1>6. CASE Walk
  <2>1. /\ UNCHANGED << dropped, started, timer, table, wanted, moved, queue, used,
                        held, passes, pool >>
        /\ pc' = "unmount" /\ tree' = wanted /\ retired' = retired \cup popped
        /\ popped' = {} /\ seen' = Met /\ mounted' = Met
        /\ todo' = mounted \ Met /\ arriving' = Met \ mounted
        /\ changed' \in BOOLEAN
    BY <1>6 DEF Walk
  <2>2. Met \subseteq Effects
    BY DEF Met, InTree, SlotsOK
  <2>3. TreeOK'
    BY <2>1 DEF TreeOK
  <2>4. SlotsOK'
    BY <2>1, <2>2 DEF table, pool, SlotsOK
  <2>5. TableOK'
    BY <2>1 DEF table, pool, TableOK
  <2>6. InboxOK'
    BY <2>1 DEF table, pool, InboxOK
  <2> QED  BY <2>3, <2>4, <2>5, <2>6
<1>7. CASE NextPhase
  <2>1. /\ UNCHANGED << structure, slots, table, acting, held, changed, passes, pool >>
        /\ pc' \in { "mount", "change" } /\ arriving' = {}
        /\ todo' = arriving \/ todo' \subseteq mounted
    BY <1>7 DEF NextPhase
  <2>2. TreeOK'
    BY <2>1 DEF structure, acting, TreeOK
  <2>3. SlotsOK'
    BY <2>1 DEF slots, table, acting, pool, SlotsOK
  <2>4. TableOK'
    BY <2>1 DEF table, acting, pool, TableOK
  <2>5. InboxOK'
    BY <2>1 DEF table, pool, InboxOK
  <2> QED  BY <2>2, <2>3, <2>4, <2>5
<1>8. CASE EndPass
  <2>1. /\ UNCHANGED << tree, slots, discarded, wanted, popped, moved, used, held, todo,
                        arriving, changed, ticking, inbox >>
        /\ DrainCalls /\ dropped' = dropped \cup retired /\ retired' = {}
    BY <1>8 DEF EndPass
  <2>2. /\ nextId' \in Nat /\ nextId <= nextId' /\ queue' = << >>
        /\ continuations' \in [ DOMAIN continuations' -> Open ]
        /\ DOMAIN continuations' \subseteq 1..nextId'
        /\ flying' \subseteq 1..nextId'
    BY <2>1, DrainFacts
  <2>3. pc' \in { "measure", "walk" } /\ passes' \in 0..(MaxPasses + 1)
    BY <1>8, BridgeAssumption DEF EndPass, BridgeAssumption, TreeOK
  <2>4. TreeOK'
    BY <2>1, <2>3 DEF TreeOK
  <2>5. SlotsOK'
    BY <2>1, <2>2 DEF slots, SlotsOK, TableOK
  <2>6. TableOK'
    BY <2>1, <2>2 DEF TableOK, Open, Owners
  <2>7. InboxOK'
    BY <2>1, <2>2, InboxGrows
  <2> QED  BY <2>4, <2>5, <2>6, <2>7
<1>9. ASSUME NEW e \in Effects, Unmount(e) PROVE TypeOK'
  <2>1. /\ UNCHANGED << pc, structure, seen, mounted, discarded, nextId, held, arriving,
                        changed, passes, flying, inbox >>
        /\ todo' = todo \ { e } /\ continuations' = Without(OwnedBy(e))
        /\ ticking' = ticking \ Cancelled(e) /\ timer' = [ timer EXCEPT ![e] = 0 ]
        /\ started' = started \ { e }
        /\ Act(e, moved \cap started') \/ NoAct
    BY <1>9 DEF Unmount
  <2>2. /\ queue' \in Seq(Owners)
        /\ wanted' \subseteq Scopes /\ popped' \subseteq Screens
        /\ moved' \subseteq started'
    <3>1. CASE Act(e, moved \cap started')
      BY <3>1, ActTypes DEF Owners
    <3>2. CASE NoAct
      BY <3>2 DEF NoAct, TreeOK, TableOK, Owners
    <3> QED  BY <2>1, <3>1, <3>2
  <2>3. TreeOK'
    BY <2>1, <2>2 DEF structure, TreeOK
  <2>4. SlotsOK'
    BY <2>1, <2>2 DEF SlotsOK, TableOK
  <2>5. TableOK'
    BY <2>1, <2>2 DEF Without, TableOK, Owners
  <2>6. InboxOK'
    BY <2>1 DEF InboxOK
  <2> QED  BY <2>3, <2>4, <2>5, <2>6
<1>10. ASSUME NEW e \in Effects, Mount(e) PROVE TypeOK'
  <2>1. /\ UNCHANGED << pc, structure, seen, mounted, discarded, held, arriving, changed,
                        passes, flying, inbox >>
        /\ todo' = todo \ { e } /\ started' = started
        /\ Act(e, moved) \/ NoAct
    BY <1>10 DEF Mount
  <2>2. /\ queue' \in Seq(Owners)
        /\ wanted' \subseteq Scopes /\ popped' \subseteq Screens
        /\ moved' \subseteq started'
    <3>1. CASE Act(e, moved)
      BY <2>1, <3>1, ActTypes DEF SlotsOK, Owners
    <3>2. CASE NoAct
      BY <3>2 DEF NoAct, TreeOK, TableOK, Owners
    <3> QED  BY <2>1, <3>1, <3>2
  <2>3. /\ nextId' \in Nat /\ nextId <= nextId'
        /\ continuations' \in [ DOMAIN continuations' -> Open ]
        /\ DOMAIN continuations' \subseteq 1..nextId'
        /\ timer' \in [ Effects -> 0..nextId' ] /\ ticking' \subseteq 1..nextId'
    <3>1. CASE UNCHANGED << continuations, nextId, timer, ticking >>
      BY <3>1 DEF TableOK, SlotsOK, Open, Owners
    <3>2. CASE /\ Kind[e] \in { "every", "after" }
               /\ continuations' = With([ id \in { Fresh(1) } |->
                                            [ owner |-> e, kind |-> Kind[e] ] ])
               /\ nextId' = nextId + 1
               /\ timer' = [ timer EXCEPT ![e] = Fresh(1) ]
               /\ ticking' = ticking \cup { Fresh(1) }
      <4>1. Fresh(1) = nextId'
        BY <3>2 DEF Fresh
      <4>2. [ owner |-> e, kind |-> Kind[e] ] \in Open
        BY <3>2 DEF Open, Owners
      <4>3. continuations' \in [ DOMAIN continuations' -> Open ]
        BY <3>2, <4>2 DEF With, TableOK, Open, Owners
      <4>4. DOMAIN continuations' = DOMAIN continuations \cup { nextId' }
        BY <3>2, <4>1 DEF With
      <4> QED  BY <3>2, <4>1, <4>3, <4>4 DEF TableOK, SlotsOK
    <3> QED  BY <1>10, <3>1, <3>2 DEF Mount
  <2>4. TreeOK'
    BY <2>1, <2>2 DEF structure, TreeOK
  <2>5. SlotsOK'
    BY <2>1, <2>2, <2>3 DEF SlotsOK
  <2>6. TableOK'
    BY <2>1, <2>2, <2>3 DEF TableOK, Open, Owners
  <2>7. InboxOK'
    BY <2>1, <2>3, InboxGrows
  <2> QED  BY <2>4, <2>5, <2>6, <2>7
<1>11. ASSUME NEW e \in Effects, Change(e) PROVE TypeOK'
  <2>1. /\ UNCHANGED << pc, structure, seen, mounted, timer, table, held, arriving, passes,
                        pool >>
        /\ todo' = todo \ { e } /\ started' = started \cup { e }
        /\ changed' \in BOOLEAN
        /\ Act(e, moved \ { e }) \/ NoAct
    BY <1>11 DEF Change
  <2>2. /\ queue' \in Seq(Owners)
        /\ wanted' \subseteq Scopes /\ popped' \subseteq Screens
        /\ moved' \subseteq started'
    <3>1. CASE Act(e, moved \ { e })
      BY <2>1, <3>1, ActTypes DEF SlotsOK, Owners
    <3>2. CASE NoAct
      BY <3>2 DEF NoAct, TreeOK, TableOK, Owners
    <3> QED  BY <2>1, <3>1, <3>2
  <2>3. TreeOK'
    BY <2>1, <2>2 DEF structure, TreeOK
  <2>4. SlotsOK'
    BY <2>1, <2>2 DEF table, pool, SlotsOK
  <2>5. TableOK'
    BY <2>1, <2>2 DEF table, pool, TableOK, Owners
  <2>6. InboxOK'
    BY <2>1 DEF table, pool, InboxOK
  <2> QED  BY <2>3, <2>4, <2>5, <2>6
<1>12. CASE ReplyArrives \/ \E e \in Effects : TimerTicks(e)
  <2>1. /\ UNCHANGED << pc, structure, slots, table, acting, held, settling >>
        /\ flying' \subseteq flying /\ ticking' \subseteq ticking
    BY <1>12 DEF ReplyArrives, TimerTicks
  <2>2. PICK a \in Answers : inbox' = Append(inbox, a)
    <3>1. CASE ReplyArrives
      BY <3>1 DEF ReplyArrives, TableOK, Answers
    <3>2. CASE \E e \in Effects : TimerTicks(e)
      BY <3>2 DEF TimerTicks, SlotsOK, Answers
    <3> QED  BY <1>12, <3>1, <3>2
  <2>3. TreeOK'
    BY <2>1 DEF structure, acting, settling, TreeOK
  <2>4. SlotsOK'
    BY <2>1 DEF slots, table, acting, settling, SlotsOK
  <2>5. TableOK'
    BY <2>1 DEF table, acting, TableOK
  <2>6. InboxOK'
    <3>1. inbox \in Seq(Answers)
      BY DEF InboxOK, Answers
    <3>2. inbox' \in Seq(Answers)
      BY <2>2, <3>1
    <3>3. nextId' = nextId
      BY <2>1 DEF table
    <3> QED  BY <3>2, <3>3 DEF InboxOK, Answers
  <2> QED  BY <2>3, <2>4, <2>5, <2>6
<1>13. CASE UNCHANGED vars
  BY <1>13 DEF vars, structure, slots, table, acting, settling, pool,
               TreeOK, SlotsOK, TableOK, InboxOK
<1> QED  BY <1>1, <1>2, <1>3, <1>4, <1>5, <1>6, <1>7, <1>8, <1>9, <1>10, <1>11,
            <1>12, <1>13 DEF Next

\* Types: every reachable state is well typed, and every id open, running or
\* answered is one that has been handed out.
THEOREM TypeCorrect == Spec => []TypeOK
<1> QED  BY InitTypes, NextTypes, PTL DEF Spec

(***************************************************************************)
(* Nothing in flight survives the scope that started it.                   *)
(***************************************************************************)

\* What unmounting has to look after: mounted effects, and leaving ones.
Alive == mounted \cup (IF pc = "unmount" THEN todo ELSE {})

\* Owners no unmount drops: none (0), and an `on unmount` itself.
Exempt(e) == e = 0 \/ Kind[e] = "unmount"

\* The inductive invariant.  A call raised is not open yet, so the queue has
\* to be followed too: it is empty when a walk decides who leaves.  And the
\* effects about to act in a phase are mounted.
ScopeInv ==
  /\ \A id \in DOMAIN continuations :
       Exempt(continuations[id].owner) \/ continuations[id].owner \in Alive
  /\ \A n \in DOMAIN queue : Exempt(queue[n]) \/ queue[n] \in mounted
  /\ started \subseteq Alive
  /\ pc = "walk" => queue = << >>
  /\ pc = "unmount" => arriving \subseteq mounted
  /\ pc \in { "mount", "change" } => todo \subseteq mounted

\* An action of an exempt or mounted effect leaves such owners in the queue.
LEMMA ActRaises ==
  ASSUME NEW owner \in Owners, NEW still, Act(owner, still), TypeOK, ScopeInv,
         Exempt(owner) \/ owner \in mounted
  PROVE  \A n \in DOMAIN queue' : Exempt(queue'[n]) \/ queue'[n] \in mounted
<1>1. queue \in Seq(Owners)
  BY DEF TypeOK, TableOK, Owners
<1>2. CASE queue' = queue
  BY <1>2 DEF ScopeInv
<1>3. CASE queue' = Append(queue, owner)
  <2>1. /\ DOMAIN queue' = DOMAIN queue \cup { Len(queue) + 1 }
        /\ queue'[Len(queue) + 1] = owner
        /\ \A n \in DOMAIN queue : queue'[n] = queue[n]
    BY <1>1, <1>3
  <2> QED  BY <2>1 DEF ScopeInv
<1> QED  BY <1>2, <1>3, ActFacts DEF TypeOK

\* Draining opens for owners that the queue's invariant has looked after.
LEMMA DrainOpens ==
  ASSUME DrainCalls, TypeOK, ScopeInv
  PROVE  /\ \A id \in DOMAIN continuations' :
              Exempt(continuations'[id].owner) \/ continuations'[id].owner \in Alive
         /\ queue' = << >>
BY DrainFacts DEF TypeOK, ScopeInv, Alive

\* The invariant holds at the start.
LEMMA InitScope == Init => ScopeInv
BY DEF Init, ScopeInv, Alive

\* Every step keeps it.
LEMMA NextScope == TypeOK /\ ScopeInv /\ [Next]_vars => ScopeInv'
<1> SUFFICES ASSUME TypeOK, ScopeInv, [Next]_vars PROVE ScopeInv'
  OBVIOUS
<1> \A n : n \notin DOMAIN << >>
  OBVIOUS
<1>1. CASE Deliver
  <2>1. /\ pc' = "drain" /\ pc # "unmount" /\ mounted' = mounted /\ started' = started
        /\ \A id \in DOMAIN continuations' :
             id \in DOMAIN continuations /\ continuations'[id] = continuations[id]
    BY <1>1 DEF Deliver, Resume, FireTimer, Without, slots
  <2>2. \A n \in DOMAIN queue' : Exempt(queue'[n]) \/ queue'[n] \in mounted
    <3>1. Act(0, moved) \/ UNCHANGED acting
      BY <1>1 DEF Deliver, Resume, FireTimer
    <3>2. CASE Act(0, moved)
      BY <3>2, ActRaises DEF Exempt, Owners
    <3>3. CASE UNCHANGED acting
      BY <3>3 DEF acting, ScopeInv
    <3> QED  BY <3>1, <3>2, <3>3
  <2> QED  BY <2>1, <2>2 DEF ScopeInv, Alive
<1>2. CASE EndResults \/ BeginFrame
  <2>1. /\ mounted' = mounted /\ started' = started
        /\ pc # "unmount" /\ pc' \in { "follow", "walk" }
    BY <1>2 DEF EndResults, BeginFrame, slots
  <2>2. CASE DrainCalls
    BY <2>1, <2>2, DrainOpens DEF ScopeInv, Alive
  <2>3. CASE EndResults /\ UNCHANGED << continuations, flying, nextId, queue >>
    BY <2>1, <2>3 DEF EndResults, ScopeInv, Alive
  <2> QED  BY <1>2, <2>2, <2>3 DEF EndResults, BeginFrame
<1>3. CASE Reload
  BY <1>3 DEF Reload, ScopeInv, Alive
<1>4. CASE Dispatch \/ Measure
  <2>1. /\ UNCHANGED << slots, table >> /\ Act(0, moved)
        /\ pc # "unmount" /\ pc' \in { "tick", "idle" }
    BY <1>4 DEF Dispatch, Measure
  <2>2. \A n \in DOMAIN queue' : Exempt(queue'[n]) \/ queue'[n] \in mounted
    BY <2>1, ActRaises DEF Exempt, Owners
  <2> QED  BY <2>1, <2>2 DEF slots, table, ScopeInv, Alive
<1>5. CASE Walk
  <2>1. /\ UNCHANGED << started, continuations, queue >> /\ queue = << >>
        /\ pc = "walk" /\ pc' = "unmount"
        /\ mounted' = Met /\ todo' = mounted \ Met /\ arriving' = Met \ mounted
    BY <1>5 DEF Walk, table, ScopeInv
  <2>2. Alive \subseteq Alive'
    BY <2>1 DEF Alive
  <2> QED  BY <2>1, <2>2 DEF ScopeInv
<1>6. CASE NextPhase
  BY <1>6 DEF NextPhase, slots, table, acting, ScopeInv, Alive
<1>7. CASE EndPass
  <2>1. /\ UNCHANGED slots /\ DrainCalls
        /\ pc = "change" /\ pc' \in { "measure", "walk" }
    BY <1>7 DEF EndPass
  <2> QED  BY <2>1, DrainOpens DEF slots, ScopeInv, Alive
<1>8. ASSUME NEW e \in Effects, Unmount(e) PROVE ScopeInv'
  <2>1. /\ pc = "unmount" /\ pc' = pc /\ mounted' = mounted /\ arriving' = arriving
        /\ todo' = todo \ { e } /\ started' = started \ { e }
        /\ continuations' = Without(OwnedBy(e))
        /\ (Kind[e] = "unmount" /\ Act(e, moved \cap started')) \/ NoAct
    BY <1>8 DEF Unmount
  <2>2. \A id \in DOMAIN continuations' :
          /\ id \in DOMAIN continuations /\ continuations'[id] = continuations[id]
          /\ continuations[id].owner # e
    BY <2>1 DEF Without, OwnedBy
  <2>3. \A n \in DOMAIN queue' : Exempt(queue'[n]) \/ queue'[n] \in mounted
    <3>1. CASE Kind[e] = "unmount" /\ Act(e, moved \cap started')
      BY <3>1, ActRaises DEF Exempt, Owners
    <3>2. CASE NoAct
      BY <3>2 DEF NoAct, ScopeInv
    <3> QED  BY <2>1, <3>1, <3>2
  <2> QED  BY <2>1, <2>2, <2>3 DEF ScopeInv, Alive
<1>9. ASSUME NEW e \in Effects, Mount(e) PROVE ScopeInv'
  <2>1. /\ pc = "mount" /\ pc' = pc /\ mounted' = mounted
        /\ todo' = todo \ { e } /\ started' = started /\ e \in todo
        /\ Act(e, moved) \/ NoAct
    BY <1>9 DEF Mount, IsFirst
  <2>2. e \in mounted
    BY <2>1 DEF ScopeInv
  <2>3. \A id \in DOMAIN continuations' :
          \/ id \in DOMAIN continuations /\ continuations'[id] = continuations[id]
          \/ continuations'[id].owner = e
    BY <1>9 DEF Mount, With
  <2>4. \A n \in DOMAIN queue' : Exempt(queue'[n]) \/ queue'[n] \in mounted
    <3>1. CASE Act(e, moved)
      BY <2>2, <3>1, ActRaises DEF Owners
    <3>2. CASE NoAct
      BY <3>2 DEF NoAct, ScopeInv
    <3> QED  BY <2>1, <3>1, <3>2
  <2> QED  BY <2>1, <2>2, <2>3, <2>4 DEF ScopeInv, Alive
<1>10. ASSUME NEW e \in Effects, Change(e) PROVE ScopeInv'
  <2>1. /\ pc = "change" /\ pc' = pc /\ mounted' = mounted
        /\ todo' = todo \ { e } /\ started' = started \cup { e } /\ e \in todo
        /\ continuations' = continuations
        /\ Act(e, moved \ { e }) \/ NoAct
    BY <1>10 DEF Change, IsFirst, table
  <2>2. e \in mounted
    BY <2>1 DEF ScopeInv
  <2>3. \A n \in DOMAIN queue' : Exempt(queue'[n]) \/ queue'[n] \in mounted
    <3>1. CASE Act(e, moved \ { e })
      BY <2>2, <3>1, ActRaises DEF Owners
    <3>2. CASE NoAct
      BY <3>2 DEF NoAct, ScopeInv
    <3> QED  BY <2>1, <3>1, <3>2
  <2> QED  BY <2>1, <2>2, <2>3 DEF ScopeInv, Alive
<1>11. CASE ReplyArrives \/ \E e \in Effects : TimerTicks(e)
  BY <1>11 DEF ReplyArrives, TimerTicks, slots, table, acting, settling, ScopeInv, Alive
<1>12. CASE UNCHANGED vars
  BY <1>12 DEF vars, slots, table, acting, settling, ScopeInv, Alive
<1> QED  BY <1>1, <1>2, <1>3, <1>4, <1>5, <1>6, <1>7, <1>8, <1>9, <1>10, <1>11,
            <1>12 DEF Next

\* The invariant says what the property asks for.
LEMMA ScopeInvSuffices == ScopeInv => NothingSurvivesItsScope
BY DEF ScopeInv, NothingSurvivesItsScope, Alive, Exempt

\* No continuation and no remembered value outlives the scope it belongs to,
\* whatever the program does, the pool answers and a reload replaces.
THEOREM ScopesTakeTheirCalls == Spec => []NothingSurvivesItsScope
<1>1. Init => TypeOK /\ ScopeInv
  BY InitTypes, InitScope
<1>2. (TypeOK /\ ScopeInv) /\ [Next]_vars => (TypeOK /\ ScopeInv)'
  BY NextTypes, NextScope
<1> QED  BY <1>1, <1>2, ScopeInvSuffices, PTL DEF Spec

(***************************************************************************)
(* The mounted effects are the tree's.                                     *)
(***************************************************************************)

\* The first walk of a render starts with nothing met.
TreeInv ==
  /\ MountedIsTheTree
  /\ pc = "walk" /\ passes = 0 => seen = {}

\* The mounted effects are the tree's after every walk, for any program.
THEOREM TheTreeIsMounted == Spec => []MountedIsTheTree
<1>1. Init => TreeInv
  BY DEF Init, TreeInv, MountedIsTheTree
<1>2. TypeOK /\ TreeInv /\ [Next]_vars => TreeInv'
  <2> SUFFICES ASSUME TypeOK, TreeInv, [Next]_vars PROVE TreeInv'
    OBVIOUS
  <2> USE DEF TreeInv, MountedIsTheTree
  <2>1. CASE Walk
    <3>1. /\ pc = "walk" /\ passes' = passes /\ tree' = wanted /\ pc' = "unmount"
          /\ mounted' = seen \cup InTree(wanted)
      BY <2>1 DEF Walk, Met
    <3> QED  BY <3>1 DEF InTree
  <2>2. CASE Deliver \/ EndResults \/ Reload \/ Dispatch \/ BeginFrame \/ Measure
    BY <2>2 DEF Deliver, EndResults, Reload, Dispatch, BeginFrame, Measure
  <2>3. CASE EndPass
    <3>1. passes \in Nat
      BY BridgeAssumption DEF BridgeAssumption, TypeOK, TreeOK
    <3>2. /\ pc = "change" /\ tree' = tree /\ mounted' = mounted
          /\ (pc' = "measure" /\ passes' = passes) \/ (pc' = "walk" /\ passes' = passes + 1)
      BY <2>3 DEF EndPass, slots
    <3> QED  BY <3>1, <3>2 DEF InTree
  <2>4. CASE UNCHANGED << tree, mounted, seen, passes >> /\ (pc' = pc \/ NextPhase)
    BY <2>4 DEF NextPhase, InTree
  <2>5. CASE NextPhase \/ ReplyArrives \/ UNCHANGED vars
             \/ \E e \in Effects : Unmount(e) \/ Mount(e) \/ Change(e) \/ TimerTicks(e)
    <3>1. UNCHANGED << tree, mounted, seen, passes >> /\ (pc' = pc \/ NextPhase)
      BY <2>5 DEF NextPhase, ReplyArrives, Unmount, Mount, Change, TimerTicks, vars,
                  structure, slots, settling
    <3> QED  BY <2>4, <3>1
  <2> QED  BY <2>1, <2>2, <2>3, <2>5 DEF Next
<1>3. TreeInv => MountedIsTheTree
  BY DEF TreeInv
<1> QED  BY <1>1, <1>2, <1>3, TypeCorrect, PTL DEF Spec

(***************************************************************************)
(* The scopes a reply needs are held.                                      *)
(***************************************************************************)

Rendering == { "walk", "unmount", "mount", "change", "measure" }

\* While the render settles, what it raises is owned by an effect, so no call
\* of a handler is opened after the decision to hold.
HoldInv ==
  /\ HeldWhileAwaited
  /\ pc = "walk" => queue = << >>
  /\ pc \in { "unmount", "mount", "change" } => \A n \in DOMAIN queue : queue[n] # 0

\* An effect raises no call of owner 0.
LEMMA EffectRaises ==
  ASSUME NEW e \in Effects, NEW still, Act(e, still) \/ NoAct, TypeOK,
         \A n \in DOMAIN queue : queue[n] # 0
  PROVE  \A n \in DOMAIN queue' : queue'[n] # 0
<1>1. queue \in Seq(Owners) /\ e # 0
  BY DEF TypeOK, TableOK, Owners, Effects
<1>2. queue' = queue \/ queue' = Append(queue, e)
  BY ActFacts DEF NoAct, TypeOK
<1>3. CASE queue' = Append(queue, e)
  BY <1>1, <1>3
<1> QED  BY <1>2, <1>3

\* While a frame renders, the scopes of a handler whose call is awaited are
\* held, however calls, replies and reloads interleave.
THEOREM ScopesAreHeld == Spec => []HeldWhileAwaited
<1>1. Init => HoldInv
  BY DEF Init, HoldInv, HeldWhileAwaited
<1>2. TypeOK /\ HoldInv /\ [Next]_vars => HoldInv'
  <2> SUFFICES ASSUME TypeOK, HoldInv, [Next]_vars PROVE HoldInv'
    OBVIOUS
  <2> USE DEF HoldInv, HeldWhileAwaited
  <2> \A n : n \notin DOMAIN << >>
    OBVIOUS
  <2>1. CASE Deliver \/ EndResults \/ Reload \/ Dispatch \/ Measure
    BY <2>1 DEF Deliver, EndResults, Reload, Dispatch, Measure
  <2>2. CASE BeginFrame
    <3>1. /\ pc' = "walk" /\ held' = HasPendingReplies /\ queue' = << >>
      BY <2>2, DrainFacts DEF BeginFrame, TypeOK
    <3> QED  BY <3>1 DEF HasPendingReplies, Calls
  <2>3. CASE Walk
    BY <2>3 DEF Walk, table, Calls
  <2>4. CASE NextPhase
    BY <2>4 DEF NextPhase, table, acting, Calls
  <2>5. CASE EndPass
    <3>1. /\ pc = "change" /\ pc' \in { "measure", "walk" } /\ held' = held /\ DrainCalls
      BY <2>5 DEF EndPass
    <3>2. \A id \in Calls' : continuations'[id].owner = 0 => id \in Calls
                                                /\ continuations[id].owner = 0
      BY <3>1, DrainFacts DEF TypeOK, Calls
    <3> QED  BY <3>1, <3>2, DrainFacts DEF TypeOK
  <2>6. ASSUME NEW e \in Effects, Unmount(e) \/ Mount(e) \/ Change(e) PROVE HoldInv'
    <3>1. /\ pc' = pc /\ pc \in { "unmount", "mount", "change" } /\ held' = held
          /\ \E still : Act(e, still) \/ NoAct
      BY <2>6 DEF Unmount, Mount, Change
    <3>2. \A n \in DOMAIN queue' : queue'[n] # 0
      BY <3>1, EffectRaises
    <3>3. \A id \in Calls' : id \in Calls /\ continuations'[id] = continuations[id]
      <4>1. CASE Unmount(e)
        BY <4>1 DEF Unmount, Without, Calls
      <4>2. CASE Mount(e)
        BY <4>2 DEF Mount, With, Calls
      <4>3. CASE Change(e)
        BY <4>3 DEF Change, table, Calls
      <4> QED  BY <2>6, <4>1, <4>2, <4>3
    <3> QED  BY <3>1, <3>2, <3>3
  <2>7. CASE ReplyArrives \/ (\E e \in Effects : TimerTicks(e)) \/ UNCHANGED vars
    BY <2>7 DEF ReplyArrives, TimerTicks, vars, table, acting, Calls
  <2> QED  BY <2>1, <2>2, <2>3, <2>4, <2>5, <2>6, <2>7 DEF Next
<1>3. HoldInv => HeldWhileAwaited
  BY DEF HoldInv
<1> QED  BY <1>1, <1>2, <1>3, TypeCorrect, PTL DEF Spec

(***************************************************************************)
(* Timers, and what is open, end with their scope or with their answer.    *)
(***************************************************************************)

\* Mounted effects whose own mounting this pass has not come to yet.
Late == IF pc = "unmount" THEN arriving ELSE IF pc = "mount" THEN todo ELSE {}

\* A slot holds a timer only while its effect is alive and has been mounted,
\* no two slots hold the same one, no task runs that no slot holds, and an
\* `every` that has been mounted has its task and its continuation.  The
\* effects that leave are not among the mounted.
SlotTimers ==
  /\ pc = "unmount" => todo \cap mounted = {}
  /\ \A e \in Effects : timer[e] # 0 => e \in Alive \ Late
  /\ \A e, f \in Effects : timer[e] = timer[f] /\ timer[e] # 0 => e = f
  /\ \A id \in ticking : \E e \in Effects : timer[e] = id
  /\ \A e \in mounted \ Late :
       Kind[e] = "every" => timer[e] \in ticking \cap DOMAIN continuations

\* The continuation of a slot's timer is that slot's, the other way round for
\* the continuations that are not calls, and an `every` is open only while
\* its task runs.
OpenTimers ==
  /\ \A e \in Effects : timer[e] \in DOMAIN continuations =>
       continuations[timer[e]].owner = e /\ continuations[timer[e]].kind = Kind[e]
  /\ \A id \in DOMAIN continuations : continuations[id].kind # "call" =>
       \E e \in Effects : timer[e] = id
  /\ \A id \in DOMAIN continuations : continuations[id].kind = "every" =>
       id \in ticking

\* What the pool runs as a call or has answered with a reply is a call.
RepliesAreToCalls ==
  /\ \A id \in flying \cap DOMAIN continuations : continuations[id].kind = "call"
  /\ \A n \in DOMAIN inbox :
       inbox[n].kind = "reply" /\ inbox[n].id \in DOMAIN continuations =>
         continuations[inbox[n].id].kind = "call"

\* The inductive invariant.
TimerInv == SlotTimers /\ OpenTimers /\ RepliesAreToCalls /\ NothingWaitsForEver

\* Draining opens calls only, under ids no slot holds, and the pool gets them.
LEMMA DrainOpensCalls ==
  ASSUME DrainCalls, TableOK
  PROVE  /\ \A id \in DOMAIN continuations :
              id \in DOMAIN continuations' /\ continuations'[id] = continuations[id]
         /\ \A id \in DOMAIN continuations' \ DOMAIN continuations :
              id > nextId /\ id \in flying' /\ continuations'[id].kind = "call"
         /\ flying \subseteq flying'
         /\ \A id \in flying' \ flying :
              id \in DOMAIN continuations' => continuations'[id].kind = "call"
<1> DEFINE ids == { Fresh(n) : n \in DOMAIN queue }
           opened == [ id \in ids |->
                         [ owner |-> queue[CHOOSE n \in DOMAIN queue : Fresh(n) = id],
                           kind |-> "call" ] ]
<1>1. \A id \in ids : id > nextId /\ id \notin DOMAIN continuations
  BY DEF Fresh, TableOK
<1>2. DOMAIN opened = ids /\ \A id \in ids : opened[id].kind = "call"
  OBVIOUS
<1>3. continuations' = With(opened) /\ flying' = flying \cup ids
  BY DEF DrainCalls
<1> HIDE DEF ids, opened
<1>4. /\ DOMAIN continuations' = DOMAIN continuations \cup ids
      /\ \A id \in DOMAIN continuations' :
           continuations'[id] = IF id \in ids THEN opened[id] ELSE continuations[id]
  BY <1>2, <1>3 DEF With
<1> QED  BY <1>1, <1>2, <1>3, <1>4

\* The invariant holds at the start.
LEMMA InitTimers == Init => TimerInv
<1> SUFFICES ASSUME Init PROVE TimerInv
  OBVIOUS
<1>1. /\ \A e \in Effects : timer[e] = 0
      /\ ticking = {} /\ mounted = {} /\ flying = {}
      /\ DOMAIN continuations = {} /\ DOMAIN inbox = {}
  BY DEF Init
<1> QED  BY <1>1 DEF TimerInv, SlotTimers, OpenTimers, RepliesAreToCalls, NothingWaitsForEver

\* What SlotTimers reads is left alone by the steps outside the render's
\* phases; more ids may be open, but none is closed that an `every` needs.
LEMMA QuietSlots ==
  ASSUME TypeOK, SlotTimers, UNCHANGED << mounted, timer, ticking >>,
         pc \notin { "unmount", "mount" }, pc' \notin { "unmount", "mount" },
         \A e \in mounted : Kind[e] = "every" /\ timer[e] \in DOMAIN continuations
                              => timer[e] \in DOMAIN continuations'
  PROVE  SlotTimers'
BY DEF SlotTimers, Alive, Late, TypeOK, SlotsOK

\* Every answer queued names an id that has been handed out.
LEMMA AnswersAreNumbered ==
  ASSUME TypeOK PROVE \A n \in DOMAIN inbox : inbox[n].id \in 1..nextId
<1>1. inbox \in Seq(Answers) /\ \A a \in Answers : a.id \in 1..nextId
  BY DEF TypeOK, InboxOK, Answers
<1> QED  BY <1>1

\* Draining keeps the invariant of what is open.
LEMMA DrainKeeps ==
  ASSUME TypeOK, TimerInv, DrainCalls, UNCHANGED << timer, ticking, inbox >>
  PROVE  OpenTimers' /\ RepliesAreToCalls' /\ NothingWaitsForEver'
<1>1. /\ \A e \in Effects : timer[e] \in 0..nextId
      /\ \A id \in flying : id \in 1..nextId
      /\ \A n \in DOMAIN inbox : inbox[n].id \in 1..nextId
      /\ nextId \in Nat
  BY AnswersAreNumbered DEF TypeOK, SlotsOK, TableOK
<1>2. OpenTimers'
  BY <1>1, DrainOpensCalls DEF TypeOK, TimerInv, OpenTimers
<1>3. RepliesAreToCalls'
  BY <1>1, DrainOpensCalls DEF TypeOK, TimerInv, RepliesAreToCalls
<1>4. NothingWaitsForEver'
  BY DrainOpensCalls DEF TypeOK, TimerInv, NothingWaitsForEver
<1> QED  BY <1>2, <1>3, <1>4

\* Steps that touch neither the table nor the pool nor the slots' timers.
LEMMA QuietTable ==
  ASSUME TimerInv, UNCHANGED << table, pool, timer >>
  PROVE  OpenTimers' /\ RepliesAreToCalls' /\ NothingWaitsForEver'
BY DEF table, pool, TimerInv, OpenTimers, RepliesAreToCalls, NothingWaitsForEver

\* An answer closes what it answers, and nothing a running `every` needs.
LEMMA DeliverTimers == TypeOK /\ TimerInv /\ Deliver => TimerInv'
<1> SUFFICES ASSUME TypeOK, TimerInv, Deliver PROVE TimerInv'
  OBVIOUS
<1> DEFINE head == Head(inbox)
<1>1. /\ UNCHANGED << mounted, timer, ticking, flying >>
      /\ pc \in { "idle", "drain" } /\ pc' = "drain" /\ inbox' = Tail(inbox)
      /\ inbox # << >>
  BY DEF Deliver, slots
<1>2. /\ inbox \in Seq(Answers) /\ 1 \in DOMAIN inbox /\ head = inbox[1]
      /\ \A n \in DOMAIN inbox' : n + 1 \in DOMAIN inbox /\ inbox'[n] = inbox[n + 1]
      /\ \A n \in DOMAIN inbox : n # 1 =>
           n - 1 \in DOMAIN inbox' /\ inbox'[n - 1] = inbox[n]
  <2>1. inbox \in Seq(Answers)
    BY DEF TypeOK, InboxOK, Answers
  <2> QED  BY <1>1, <2>1
<1>3. /\ \A id \in DOMAIN continuations' :
           id \in DOMAIN continuations /\ continuations'[id] = continuations[id]
      /\ \A id \in DOMAIN continuations : id # head.id => id \in DOMAIN continuations'
  BY DEF Deliver, Resume, FireTimer, Without, Spent
<1>4. head.id \in DOMAIN continuations' =>
        head.kind = "tick" /\ continuations[head.id].kind = "every"
  BY DEF Deliver, Resume, FireTimer, Without, Spent
<1>5. \A id \in DOMAIN continuations :
        continuations[id].kind = "every" => id \in DOMAIN continuations'
  <2>1. CASE head.kind = "reply"
    <3>1. head.id \in DOMAIN continuations => continuations[head.id].kind = "call"
      BY <1>2, <2>1 DEF TimerInv, RepliesAreToCalls
    <3> QED  BY <1>3, <3>1
  <2>2. CASE head.kind = "tick"
    BY <1>3, <2>2 DEF Deliver, Resume, FireTimer, Without, Spent
  <2> QED  BY <2>1, <2>2 DEF Deliver
<1> HIDE DEF head
<1>6. SlotTimers'
  <2>1. \A e \in mounted : Kind[e] = "every" /\ timer[e] \in DOMAIN continuations
                              => timer[e] \in DOMAIN continuations'
    BY <1>5 DEF TimerInv, OpenTimers, TypeOK, SlotsOK
  <2> QED  BY <1>1, <2>1, QuietSlots DEF TimerInv
<1>7. OpenTimers'
  BY <1>1, <1>3 DEF TimerInv, OpenTimers
<1>8. RepliesAreToCalls'
  BY <1>1, <1>2, <1>3 DEF TimerInv, RepliesAreToCalls
<1>9. NothingWaitsForEver'
  <2> SUFFICES ASSUME NEW id \in DOMAIN continuations'
               PROVE  id \in flying \cup ticking \/ \E n \in DOMAIN inbox' : inbox'[n].id = id
    BY <1>1 DEF NothingWaitsForEver
  <2>1. CASE id = head.id
    BY <1>3, <1>4, <2>1 DEF TimerInv, OpenTimers
  <2>2. CASE id # head.id
    BY <1>2, <1>3, <2>2 DEF TimerInv, NothingWaitsForEver
  <2> QED  BY <2>1, <2>2
<1> QED  BY <1>6, <1>7, <1>8, <1>9 DEF TimerInv

\* A leaving effect takes its continuations, its task and its slot with it.
LEMMA UnmountTimers ==
  ASSUME TypeOK, TimerInv, NEW e \in Effects, Unmount(e)
  PROVE  TimerInv'
<1>1. /\ pc = "unmount" /\ pc' = pc /\ e \in todo /\ todo' = todo \ { e }
      /\ UNCHANGED << mounted, arriving, flying, inbox >>
      /\ continuations' = Without(OwnedBy(e))
      /\ ticking' = ticking \ { timer[e] } /\ timer' = [ timer EXCEPT ![e] = 0 ]
  BY DEF Unmount, IsFirst, Cancelled
<1>2. /\ timer'[e] = 0
      /\ \A f \in Effects : f # e => timer'[f] = timer[f]
      /\ 0 \notin DOMAIN continuations /\ 0 \notin ticking
  BY <1>1 DEF TypeOK, SlotsOK, TableOK
<1>3. \A id \in DOMAIN continuations' :
        /\ id \in DOMAIN continuations /\ continuations'[id] = continuations[id]
        /\ continuations[id].owner # e
  BY <1>1 DEF Without, OwnedBy
<1>4. \A id \in DOMAIN continuations :
        continuations[id].owner # e => id \in DOMAIN continuations'
  BY <1>1 DEF Without, OwnedBy
<1>5. \A id \in DOMAIN continuations' : id # timer[e]
  BY <1>3 DEF TimerInv, OpenTimers
<1>6. SlotTimers'
  <2>1. /\ todo' \cap mounted' = {}
        /\ \A f \in Effects : timer'[f] # 0 => f \in Alive' \ Late'
    BY <1>1, <1>2 DEF TimerInv, SlotTimers, Alive, Late
  <2>2. \A f, g \in Effects : timer'[f] = timer'[g] /\ timer'[f] # 0 => f = g
    BY <1>2 DEF TimerInv, SlotTimers
  <2>3. \A id \in ticking' : \E f \in Effects : timer'[f] = id
    BY <1>1, <1>2 DEF TimerInv, SlotTimers
  <2>4. \A f \in mounted' \ Late' :
          Kind[f] = "every" => timer'[f] \in ticking' \cap DOMAIN continuations'
    <3> SUFFICES ASSUME NEW f \in mounted \ arriving, Kind[f] = "every"
                 PROVE  timer'[f] \in ticking' \cap DOMAIN continuations'
      BY <1>1 DEF Late
    <3>1. f # e /\ f \in Effects
      BY <1>1 DEF TimerInv, SlotTimers, TypeOK, SlotsOK
    <3>2. timer[f] \in ticking \cap DOMAIN continuations
      BY <1>1 DEF TimerInv, SlotTimers, Late
    <3>3. continuations[timer[f]].owner = f /\ timer[f] # timer[e]
      BY <1>2, <3>1, <3>2 DEF TimerInv, OpenTimers, SlotTimers
    <3> QED  BY <1>1, <1>2, <1>4, <3>1, <3>2, <3>3
  <2> QED  BY <2>1, <2>2, <2>3, <2>4 DEF SlotTimers
<1>7. OpenTimers'
  BY <1>1, <1>2, <1>3, <1>5 DEF TimerInv, OpenTimers
<1>8. RepliesAreToCalls'
  BY <1>1, <1>3 DEF TimerInv, RepliesAreToCalls
<1>9. NothingWaitsForEver'
  BY <1>1, <1>3, <1>5 DEF TimerInv, NothingWaitsForEver
<1> QED  BY <1>6, <1>7, <1>8, <1>9 DEF TimerInv

\* A mounting effect that is a timer takes a slot that was empty.
LEMMA MountTimers ==
  ASSUME TypeOK, ScopeInv, TimerInv, NEW e \in Effects, Mount(e)
  PROVE  TimerInv'
<1>1. /\ pc = "mount" /\ pc' = pc /\ e \in todo /\ todo' = todo \ { e }
      /\ UNCHANGED << mounted, flying, inbox >>
      /\ e \in mounted /\ timer[e] = 0
  BY DEF Mount, IsFirst, ScopeInv, TimerInv, SlotTimers, Late
<1>2. CASE /\ Kind[e] \notin { "every", "after" }
           /\ UNCHANGED << continuations, nextId, timer, ticking >>
  <2>1. SlotTimers'
    BY <1>1, <1>2 DEF TimerInv, SlotTimers, Alive, Late
  <2>2. OpenTimers' /\ RepliesAreToCalls' /\ NothingWaitsForEver'
    BY <1>1, <1>2 DEF TimerInv, OpenTimers, RepliesAreToCalls, NothingWaitsForEver
  <2> QED  BY <2>1, <2>2 DEF TimerInv
<1>3. CASE /\ Kind[e] \in { "every", "after" }
           /\ continuations' = With([ id \in { Fresh(1) } |->
                                        [ owner |-> e, kind |-> Kind[e] ] ])
           /\ timer' = [ timer EXCEPT ![e] = Fresh(1) ]
           /\ ticking' = ticking \cup { Fresh(1) }
  <2> DEFINE new == Fresh(1)
             opened == [ id \in { new } |-> [ owner |-> e, kind |-> Kind[e] ] ]
  <2>1. /\ \A f \in Effects : timer[f] \in 0..nextId
        /\ timer'[e] = new /\ \A f \in Effects : f # e => timer'[f] = timer[f]
        /\ ticking \subseteq 1..nextId /\ DOMAIN continuations \subseteq 1..nextId
        /\ flying \subseteq 1..nextId /\ \A n \in DOMAIN inbox : inbox[n].id \in 1..nextId
        /\ new \notin 0..nextId /\ new # 0
    BY <1>3, AnswersAreNumbered DEF Fresh, TypeOK, SlotsOK, TableOK
  <2>2. /\ DOMAIN opened = { new }
        /\ opened[new].owner = e /\ opened[new].kind = Kind[e]
    OBVIOUS
  <2>3. continuations' = With(opened) /\ ticking' = ticking \cup { new }
    BY <1>3
  <2> HIDE DEF new, opened
  <2>4. /\ DOMAIN continuations' = DOMAIN continuations \cup { new }
        /\ continuations'[new].owner = e /\ continuations'[new].kind = Kind[e]
        /\ \A id \in DOMAIN continuations : continuations'[id] = continuations[id]
    BY <2>1, <2>2, <2>3 DEF With
  <2>5. SlotTimers'
    <3>1. \A f \in Effects : timer'[f] # 0 => f \in Alive' \ Late'
      BY <1>1, <2>1 DEF TimerInv, SlotTimers, Alive, Late
    <3>2. \A f, g \in Effects : timer'[f] = timer'[g] /\ timer'[f] # 0 => f = g
      BY <2>1 DEF TimerInv, SlotTimers
    <3>3. \A id \in ticking' : \E f \in Effects : timer'[f] = id
      BY <1>1, <2>1, <2>3 DEF TimerInv, SlotTimers
    <3>4. \A f \in mounted' \ Late' :
            Kind[f] = "every" => timer'[f] \in ticking' \cap DOMAIN continuations'
      BY <1>1, <2>1, <2>3, <2>4 DEF TimerInv, SlotTimers, Late, TypeOK, SlotsOK
    <3> QED  BY <1>1, <3>1, <3>2, <3>3, <3>4 DEF SlotTimers
  <2>6. OpenTimers'
    <3>1. \A f \in Effects : timer'[f] \in DOMAIN continuations' =>
            continuations'[timer'[f]].owner = f /\ continuations'[timer'[f]].kind = Kind[f]
      BY <2>1, <2>4 DEF TimerInv, OpenTimers
    <3>2. \A id \in DOMAIN continuations' : continuations'[id].kind # "call" =>
            \E f \in Effects : timer'[f] = id
      <4> SUFFICES ASSUME NEW id \in DOMAIN continuations, continuations[id].kind # "call"
                   PROVE  \E f \in Effects : timer'[f] = id
        BY <2>1, <2>4
      <4>1. PICK f \in Effects : timer[f] = id
        BY DEF TimerInv, OpenTimers
      <4> QED  BY <1>1, <2>1, <4>1
    <3>3. \A id \in DOMAIN continuations' :
            continuations'[id].kind = "every" => id \in ticking'
      BY <2>3, <2>4 DEF TimerInv, OpenTimers
    <3> QED  BY <3>1, <3>2, <3>3 DEF OpenTimers
  <2>7. RepliesAreToCalls'
    BY <1>1, <2>1, <2>4 DEF TimerInv, RepliesAreToCalls
  <2>8. NothingWaitsForEver'
    BY <1>1, <2>3, <2>4 DEF TimerInv, NothingWaitsForEver
  <2> QED  BY <2>5, <2>6, <2>7, <2>8 DEF TimerInv
<1> QED  BY <1>2, <1>3 DEF Mount

\* The pool answers what it runs: the answer takes the place of the task.
LEMMA PoolTimers ==
  TypeOK /\ TimerInv /\ (ReplyArrives \/ \E e \in Effects : TimerTicks(e)) => TimerInv'
<1> SUFFICES ASSUME TypeOK, TimerInv, ReplyArrives \/ \E e \in Effects : TimerTicks(e)
             PROVE  TimerInv'
  OBVIOUS
<1>1. inbox \in Seq(Answers)
  BY DEF TypeOK, InboxOK, Answers
<1>2. UNCHANGED << pc, mounted, todo, arriving, timer, continuations >>
  BY DEF ReplyArrives, TimerTicks, slots, table, settling
<1>3. CASE ReplyArrives
  <2>1. PICK id \in flying :
          /\ flying' = flying \ { id } /\ ticking' = ticking
          /\ inbox' = Append(inbox, [ kind |-> "reply", id |-> id ])
    BY <1>3 DEF ReplyArrives
  <2>2. /\ DOMAIN inbox' = DOMAIN inbox \cup { Len(inbox) + 1 }
        /\ inbox'[Len(inbox) + 1] = [ kind |-> "reply", id |-> id ]
        /\ \A n \in DOMAIN inbox : inbox'[n] = inbox[n]
    BY <1>1, <2>1
  <2>3. SlotTimers' /\ OpenTimers'
    BY <1>2, <2>1 DEF TimerInv, SlotTimers, OpenTimers, Alive, Late
  <2>4. RepliesAreToCalls'
    BY <1>2, <2>1, <2>2 DEF TimerInv, RepliesAreToCalls
  <2>5. NothingWaitsForEver'
    BY <1>2, <2>1, <2>2 DEF TimerInv, NothingWaitsForEver
  <2> QED  BY <2>3, <2>4, <2>5 DEF TimerInv
<1>4. ASSUME NEW e \in Effects, TimerTicks(e) PROVE TimerInv'
  <2>1. /\ timer[e] \in ticking /\ flying' = flying
        /\ ticking' = IF Kind[e] = "every" THEN ticking ELSE ticking \ { timer[e] }
        /\ inbox' = Append(inbox, [ kind |-> "tick", id |-> timer[e] ])
    BY <1>4 DEF TimerTicks
  <2>2. /\ DOMAIN inbox' = DOMAIN inbox \cup { Len(inbox) + 1 }
        /\ inbox'[Len(inbox) + 1] = [ kind |-> "tick", id |-> timer[e] ]
        /\ \A n \in DOMAIN inbox : inbox'[n] = inbox[n]
    BY <1>1, <2>1
  <2>3. SlotTimers'
    <3>1. timer[e] # 0
      BY <2>1 DEF TypeOK, SlotsOK
    <3> QED  BY <1>2, <2>1, <3>1 DEF TimerInv, SlotTimers, Alive, Late, TypeOK, SlotsOK
  <2>4. OpenTimers'
    BY <1>2, <2>1 DEF TimerInv, OpenTimers
  <2>5. RepliesAreToCalls'
    BY <1>2, <2>1, <2>2 DEF TimerInv, RepliesAreToCalls
  <2>6. NothingWaitsForEver'
    <3> SUFFICES ASSUME NEW id \in DOMAIN continuations
                 PROVE  \/ id \in flying' \cup ticking'
                        \/ \E n \in DOMAIN inbox' : inbox'[n].id = id
      BY <1>2 DEF NothingWaitsForEver
    <3>1. CASE id = timer[e]
      BY <2>2, <3>1
    <3>2. CASE id # timer[e]
      BY <2>1, <2>2, <3>2 DEF TimerInv, NothingWaitsForEver
    <3> QED  BY <3>1, <3>2
  <2> QED  BY <2>3, <2>4, <2>5, <2>6 DEF TimerInv
<1> QED  BY <1>3, <1>4

\* Every step keeps the invariant.
LEMMA NextTimers == TypeOK /\ ScopeInv /\ TimerInv /\ [Next]_vars => TimerInv'
<1> SUFFICES ASSUME TypeOK, ScopeInv, TimerInv, [Next]_vars PROVE TimerInv'
  OBVIOUS
<1>1. CASE Reload
  <2>1. /\ \A e \in Effects : timer'[e] = 0
        /\ mounted' = {} /\ ticking' = {} /\ DOMAIN continuations' = {}
        /\ pc' = "dispatch"
    BY <1>1 DEF Reload
  <2> QED  BY <2>1 DEF TimerInv, SlotTimers, OpenTimers, RepliesAreToCalls,
                       NothingWaitsForEver
<1>2. CASE EndResults \/ BeginFrame \/ EndPass
  <2>1. /\ UNCHANGED << mounted, timer, ticking, inbox >>
        /\ pc \notin { "unmount", "mount" } /\ pc' \notin { "unmount", "mount" }
        /\ DrainCalls \/ UNCHANGED << continuations, flying, nextId, queue >>
    BY <1>2 DEF EndResults, BeginFrame, EndPass, slots
  <2>2. CASE DrainCalls
    <3>1. SlotTimers'
      BY <2>1, <2>2, QuietSlots, DrainOpensCalls DEF TypeOK, TimerInv
    <3> QED  BY <2>1, <2>2, <3>1, DrainKeeps DEF TimerInv
  <2>3. CASE UNCHANGED << continuations, flying, nextId, queue >>
    <3>1. SlotTimers'
      BY <2>1, <2>3, QuietSlots DEF TimerInv
    <3> QED  BY <2>1, <2>3, <3>1 DEF TimerInv, OpenTimers, RepliesAreToCalls,
                                     NothingWaitsForEver
  <2> QED  BY <2>1, <2>2, <2>3
<1>3. CASE Dispatch \/ Measure
  <2>1. /\ UNCHANGED << slots, table, pool >>
        /\ pc \notin { "unmount", "mount" } /\ pc' \notin { "unmount", "mount" }
    BY <1>3 DEF Dispatch, Measure
  <2>2. SlotTimers'
    BY <2>1, QuietSlots DEF slots, table, pool, TimerInv
  <2> QED  BY <2>1, <2>2, QuietTable DEF slots, TimerInv
<1>4. CASE Walk
  <2>1. /\ pc = "walk" /\ pc' = "unmount" /\ UNCHANGED << timer, table, pool >>
        /\ mounted' = Met /\ todo' = mounted \ Met /\ arriving' = Met \ mounted
    BY <1>4 DEF Walk
  <2>2. SlotTimers'
    BY <2>1 DEF table, pool, TimerInv, SlotTimers, Alive, Late
  <2> QED  BY <2>1, <2>2, QuietTable DEF TimerInv
<1>5. CASE NextPhase
  <2>1. /\ UNCHANGED << slots, table, pool >> /\ todo = {}
        /\ \/ pc = "unmount" /\ pc' = "mount" /\ todo' = arriving
           \/ pc = "mount" /\ pc' = "change"
    BY <1>5 DEF NextPhase
  <2>2. SlotTimers'
    BY <2>1 DEF slots, table, pool, TimerInv, SlotTimers, Alive, Late
  <2> QED  BY <2>1, <2>2, QuietTable DEF slots, TimerInv
<1>6. ASSUME NEW e \in Effects, Change(e) PROVE TimerInv'
  <2>1. /\ pc = "change" /\ pc' = pc /\ UNCHANGED << mounted, timer, table, pool >>
    BY <1>6 DEF Change
  <2>2. SlotTimers'
    BY <2>1, QuietSlots DEF table, pool, TimerInv
  <2> QED  BY <2>1, <2>2, QuietTable DEF TimerInv
<1>7. CASE UNCHANGED vars
  <2>1. UNCHANGED << pc, slots, table, pool, settling >>
    BY <1>7 DEF vars
  <2>2. SlotTimers'
    BY <2>1 DEF slots, table, pool, settling, TimerInv, SlotTimers, Alive, Late
  <2> QED  BY <2>1, <2>2, QuietTable DEF slots, TimerInv
<1> QED  BY <1>1, <1>2, <1>3, <1>4, <1>5, <1>6, <1>7, DeliverTimers, UnmountTimers,
            MountTimers, PoolTimers DEF Next

\* Between renders and at their end no mounting is under way.
LEMMA TimerInvSuffices ==
  TypeOK /\ TimerInv => TimersFollowTheirScope /\ NothingWaitsForEver
<1> SUFFICES ASSUME TypeOK, TimerInv PROVE TimersFollowTheirScope
  BY DEF TimerInv
<1>1. \A id \in ticking : \E e \in Effects : timer[e] = id /\ e \in Alive
  BY DEF TypeOK, SlotsOK, TimerInv, SlotTimers
<1>2. pc = "measure" => \A e \in mounted : Kind[e] = "every" =>
        timer[e] \in ticking \cap DOMAIN continuations
  BY DEF TimerInv, SlotTimers, Late
<1> QED  BY <1>1, <1>2 DEF TimersFollowTheirScope, Alive

\* No timer task leaks and no timer of a mounted effect is lost, whatever
\* leaves the tree, comes back or is reloaded.
THEOREM TimersEndWithTheirScope == Spec => []TimersFollowTheirScope
<1>1. Init => TypeOK /\ ScopeInv /\ TimerInv
  BY InitTypes, InitScope, InitTimers
<1>2. (TypeOK /\ ScopeInv /\ TimerInv) /\ [Next]_vars => (TypeOK /\ ScopeInv /\ TimerInv)'
  BY NextTypes, NextScope, NextTimers
<1> QED  BY <1>1, <1>2, TimerInvSuffices, PTL DEF Spec

\* Whatever is open has its answer running or queued: nothing holds the
\* scopes of later frames for ever.
THEOREM WhatIsOpenIsAnswered == Spec => []NothingWaitsForEver
<1>1. Init => TypeOK /\ ScopeInv /\ TimerInv
  BY InitTypes, InitScope, InitTimers
<1>2. (TypeOK /\ ScopeInv /\ TimerInv) /\ [Next]_vars => (TypeOK /\ ScopeInv /\ TimerInv)'
  BY NextTypes, NextScope, NextTimers
<1> QED  BY <1>1, <1>2, TimerInvSuffices, PTL DEF Spec

\* Nothing a scope has in flight, call or timer, outlives it.
THEOREM ScopesTakeEverything == Spec => []NothingOutlivesItsScope
BY ScopesTakeTheirCalls, TimersEndWithTheirScope, PTL DEF NothingOutlivesItsScope

\* Scopes are held while an answer is awaited, and every answer awaited is on
\* its way.
THEOREM WaitsEnd == Spec => []WaitsAreHeldAndEnd
BY ScopesAreHeld, WhatIsOpenIsAnswered, PTL DEF WaitsAreHeldAndEnd
=============================================================================
