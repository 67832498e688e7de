--------------------------- MODULE ReactiveProofs ---------------------------
(***************************************************************************)
(* Proofs about the reactive core for any signals, any compute of the form  *)
(* modelled and any number of scopes opened, retired and opened again.      *)
(***************************************************************************)
EXTENDS Reactive, FiniteSetTheorems, SequenceTheorems, WellFoundedInduction, TLAPS

(***************************************************************************)
(* The inductive invariant, in the parts the proofs below need together.    *)
(***************************************************************************)

IsScope(s) == kind[s] \in {"memo", "binding"}
Reads(i)   == {body[i.slot].test, body[i.slot].then}
OnStack    == {stack[n].id : n \in 1 .. Len(stack)}

\* A slot is taken, given back and taken again; an id once retired stays so.
Counted ==
  /\ \A s \in Slots : gen[s] + (IF IsScope(s) THEN 1 ELSE 0) <= opens
  /\ Cardinality({s \in Slots : kind[s] # "none"}) <= opens

Retired(x) == x.gen < gen[x.slot]

\* What a closure can name is a memo there is, or one that was retired since.
Bodied ==
  \A i \in Live : /\ body[i.slot] \in Bodies
                  /\ \A x \in Reads(i) \cap Ids : x \in LiveMemos \/ Retired(x)

\* An empty slot is linked to nothing.
Unlinked == \A s \in Slots : ~IsScope(s) => deps[s] = {} /\ subs[s] = {}

\* A closure names only what was there when it was lowered: no evaluation
\* comes back to itself.
Acyclic ==
  \E rank \in [Slots -> 0 .. opens] :
    /\ \A i \in Live : \A x \in Reads(i) \cap Live : rank[x.slot] < rank[i.slot]
    /\ \A n, k \in 1 .. Len(stack) : n < k => rank[stack[k].id.slot] < rank[stack[n].id.slot]

\* The queue holds marked bindings, and ids that are gone; a pull runs each
\* slot at most once.
Queued ==
  /\ \A i \in queue : Retired(i) \/ (IsLive(i) /\ kind[i.slot] = "binding" /\ dirty[i.slot])
  /\ queue \cap OnStack = {}
  /\ ~pulling => ran = {}
  /\ \A s \in ran : IdOf(s) \notin queue

\* What was evaluated is clean, or still under way.
Computed ==
  \A i \in computed : Retired(i) \/ (IsLive(i) /\ (~dirty[i.slot] \/ i \in OnStack))

\* The value a compute reads now, and whether its reader would be told of a
\* change of it.
Alive(x)   == x \in Signals \/ IsLive(x)
Val(x)     == IF x \in Signals THEN value[x] ELSE cache[x.slot]
Fed(i, x)  == x \in deps[i.slot] /\ (x \in Signals \/ ~dirty[x.slot])

\* `v` is what the compute of `i` yields from what it reads, all of which it is
\* told of; nothing is said once it has come across a memo that is gone.
Yields(i, v) ==
  LET b == body[i.slot]
  IN  Alive(b.test) =>
        /\ Fed(i, b.test)
        /\ Val(b.test) \notin Truthy => v = Val(b.test)
        /\ Val(b.test) \in Truthy /\ Alive(b.then) => Fed(i, b.then) /\ v = Val(b.then)

\* An evaluation under way is of a marked scope, and holds what it has read.
IsUnderWay(f) ==
  LET b == body[f.id.slot]
  IN  /\ dirty[f.id.slot]
      /\ f.at = 2 => /\ Alive(b.test) /\ Fed(f.id, b.test)
                     /\ f.seen = Val(b.test) /\ f.seen \in Truthy
      /\ f.at = 3 => Yields(f.id, f.seen)

Evaluations == \A n \in 1 .. Len(stack) : IsUnderWay(stack[n])

\* CleanIsRight, one step at a time.
CleanIsFed == \A i \in Live : ~dirty[i.slot] => Yields(i, cache[i.slot])

IInv == /\ TypeOK /\ Counted /\ Bodied /\ Unlinked /\ LinksAreMutual /\ Acyclic
        /\ Queued /\ DirtyIsQueued /\ Computed /\ Evaluations /\ CleanIsFed

(***************************************************************************)
(* Constants, ids and the stack.                                           *)
(***************************************************************************)

LEMMA ConstantFacts ==
  /\ MaxOpens \in Nat /\ MaxOpens >= 1 /\ Slots = 1 .. MaxOpens
  /\ Truthy \subseteq Values /\ Unit \notin Truthy /\ Gone \notin Truthy
  /\ Gone \notin Results
  /\ \A x \in Ids : x \notin Signals
BY ReactiveAssumption DEF Slots, Results

LEMMA IdFacts ==
  ASSUME TypeOK
  PROVE  /\ \A x \in Ids : x.slot \in Slots /\ x.gen \in Nat /\ gen[x.slot] \in Nat
         /\ \A i \in Live : i \in Ids /\ i = IdOf(i.slot) /\ i.slot \in Slots
                              /\ IsScope(i.slot) /\ IsLive(i) /\ ~Retired(i)
         /\ \A s \in Slots : IdOf(s) \in Ids /\ IdOf(s).slot = s
                              /\ (IsScope(s) <=> IdOf(s) \in Live)
         /\ \A i, j \in Live : i.slot = j.slot => i = j
         /\ \A x \in Ids : IsLive(x) <=> x \in Live
<1>1. gen \in [Slots -> 0 .. MaxOpens] /\ MaxOpens \in Nat
  BY ConstantFacts DEF TypeOK
<1>2. \A x \in Ids : x.slot \in Slots /\ x.gen \in Nat /\ x.gen \in 0 .. MaxOpens
                       /\ gen[x.slot] \in Nat /\ x = [slot |-> x.slot, gen |-> x.gen]
  BY <1>1 DEF Ids
<1>3. \A s \in Slots : IdOf(s) \in Ids /\ IdOf(s).slot = s /\ IdOf(s).gen = gen[s]
  BY <1>1 DEF IdOf, Ids
<1>4. \A i \in Live : i \in Ids /\ IsScope(i.slot) /\ IsLive(i) /\ i.gen = gen[i.slot]
  BY DEF Live, IsLive, IsScope
<1>5. \A i \in Live : i = IdOf(i.slot)
  BY <1>2, <1>4 DEF IdOf
<1>6. \A i \in Live : ~Retired(i)
  BY <1>2, <1>4 DEF Retired
<1>7. \A s \in Slots : IsScope(s) <=> IdOf(s) \in Live
  BY <1>3 DEF Live, IsLive, IsScope
<1> QED  BY <1>2, <1>3, <1>4, <1>5, <1>6, <1>7 DEF Live

LEMMA OneLess ==
  ASSUME NEW k \in Nat, k >= 1
  PROVE  1 <= k - 1 \/ (~(1 <= k - 1) /\ k - 1 = 0)
OBVIOUS

LEMMA FrontFacts ==
  ASSUME NEW S, NEW q \in Seq(S), q # << >>
  PROVE  /\ Len(q) \in Nat /\ Len(q) >= 1 /\ q[Len(q)] \in S
         /\ SubSeq(q, 1, Len(q) - 1) \in Seq(S)
         /\ Len(SubSeq(q, 1, Len(q) - 1)) = Len(q) - 1
         /\ \A n \in 1 .. Len(q) - 1 : SubSeq(q, 1, Len(q) - 1)[n] = q[n]
<1>1. Len(q) \in Nat /\ Len(q) >= 1 /\ q[Len(q)] \in S
  OBVIOUS
<1>2. 1 \in Int /\ Len(q) - 1 \in Int /\ \A n \in 1 .. Len(q) - 1 : q[n] \in S
  BY <1>1
<1>3. /\ SubSeq(q, 1, Len(q) - 1) \in Seq(S)
      /\ Len(SubSeq(q, 1, Len(q) - 1))
           = IF 1 <= Len(q) - 1 THEN (Len(q) - 1) - 1 + 1 ELSE 0
      /\ \A n \in 1 .. (Len(q) - 1) - 1 + 1 :
           SubSeq(q, 1, Len(q) - 1)[n] = q[1 + n - 1]
  BY <1>2, SubSeqProperties
<1>4. (Len(q) - 1) - 1 + 1 = Len(q) - 1 /\ \A n \in Nat : 1 + n - 1 = n
  BY <1>1
<1>5. 1 <= Len(q) - 1 \/ (~(1 <= Len(q) - 1) /\ Len(q) - 1 = 0)
  BY <1>1, OneLess
<1>6. Len(SubSeq(q, 1, Len(q) - 1)) = Len(q) - 1
  <2>1. CASE 1 <= Len(q) - 1
    BY <1>3, <1>4, <2>1
  <2>2. CASE ~(1 <= Len(q) - 1) /\ Len(q) - 1 = 0
    <3>1. Len(SubSeq(q, 1, Len(q) - 1)) = 0
      BY <1>3, <2>2
    <3> QED  BY <2>2, <3>1
  <2> QED  BY <1>5, <2>1, <2>2
<1>7. ASSUME NEW n \in 1 .. Len(q) - 1 PROVE SubSeq(q, 1, Len(q) - 1)[n] = q[n]
  <2>1. n \in 1 .. (Len(q) - 1) - 1 + 1 /\ 1 + n - 1 = n
    BY <1>4
  <2>2. SubSeq(q, 1, Len(q) - 1)[n] = q[1 + n - 1]
    BY <1>3, <2>1
  <2> QED  BY <2>1, <2>2
<1> QED  BY <1>1, <1>3, <1>6, <1>7

Frames == [id : Live, at : 1 .. 3, seen : Results]

LEMMA StackFacts ==
  ASSUME TypeOK, stack # << >>
  PROVE  /\ Len(stack) \in Nat /\ Len(stack) >= 1 /\ Top = stack[Len(stack)]
         /\ Top \in Frames /\ Top.id \in Live
         /\ Below \in Seq(Frames) /\ Len(Below) = Len(stack) - 1
         /\ \A n \in 1 .. Len(stack) - 1 : Below[n] = stack[n]
         /\ \A n \in 1 .. Len(stack) : stack[n] \in Frames /\ stack[n].id \in Live
<1>1. stack \in Seq(Frames)
  BY DEF TypeOK, Frames
<1>2. \A n \in 1 .. Len(stack) : stack[n] \in Frames
  BY <1>1
<1>3. \A f \in Frames : f.id \in Live
  BY DEF Frames
<1> HIDE DEF Frames
<1>4. /\ Len(stack) \in Nat /\ Len(stack) >= 1
      /\ Below \in Seq(Frames) /\ Len(Below) = Len(stack) - 1
      /\ \A n \in 1 .. Len(stack) - 1 : Below[n] = stack[n]
  BY <1>1, FrontFacts DEF Below
<1> QED  BY <1>2, <1>3, <1>4 DEF Top

\* A compute goes on with what it was given.
LEMMA SawFacts ==
  ASSUME TypeOK, Evaluating, NEW v \in Results, stack' = Saw(v)
  PROVE  /\ stack' \in Seq(Frames) /\ Len(stack') = Len(stack)
         /\ \A n \in 1 .. Len(stack) - 1 : stack'[n] = stack[n]
         /\ stack'[Len(stack)].id = Top.id /\ stack'[Len(stack)].seen = v
         /\ stack'[Len(stack)].at = IF Top.at = 1 /\ v \in Truthy THEN 2 ELSE 3
         /\ \A n \in 1 .. Len(stack) : stack'[n].id = stack[n].id
<1> DEFINE at == IF Top.at = 1 /\ v \in Truthy THEN 2 ELSE 3
<1> DEFINE f == [Top EXCEPT !.at = at, !.seen = v]
<1>1. /\ Len(stack) \in Nat /\ Len(stack) >= 1 /\ Top \in Frames
      /\ Below \in Seq(Frames) /\ Len(Below) = Len(stack) - 1
      /\ \A n \in 1 .. Len(stack) - 1 : Below[n] = stack[n]
  BY StackFacts DEF Evaluating
<1>2. stack' = Append(Below, f)
  BY DEF Saw
<1>a. at \in 1 .. 3
  OBVIOUS
<1> HIDE DEF at
<1>3. f \in Frames /\ f.id = Top.id /\ f.at = at /\ f.seen = v
  BY <1>1, <1>a DEF Frames
<1> HIDE DEF f
<1>4. /\ stack' \in Seq(Frames) /\ Len(stack') = Len(stack)
      /\ \A n \in 1 .. Len(stack) - 1 : stack'[n] = Below[n]
      /\ stack'[Len(stack)] = f
  BY <1>1, <1>2, <1>3
<1>5. \A n \in 1 .. Len(stack) : n \in 1 .. Len(stack) - 1 \/ n = Len(stack)
  BY <1>1
<1> QED  BY <1>1, <1>3, <1>4, <1>5 DEF at, Top

(***************************************************************************)
(* Marking.                                                                *)
(***************************************************************************)

LEMMA NatIsInductive ==
  ASSUME NEW S, 0 \in S, \A n \in Nat : n \in S => n + 1 \in S
  PROVE  Nat \subseteq S
<1> SUFFICES ASSUME Nat \ S # {} PROVE FALSE
  OBVIOUS
<1>1. PICK n \in Nat \ S : \A m \in Nat \ S : ~(<<m, n>> \in OpToRel(<, Nat))
  BY NatLessThanWellFounded, WFMin
<1>2. \A m \in Nat \ S : ~(m < n)
  BY <1>1 DEF OpToRel
<1>3. n # 0 /\ n - 1 \in Nat /\ (n - 1) + 1 = n
  OBVIOUS
<1> QED  BY <1>2, <1>3

\* The readers a memo's mark goes on to.
Readers(is) == Unmarked(UNION {subs[i.slot] : i \in {j \in is : kind[j.slot] = "memo"}})

\* Cascade as a sequence of visits.
Visits(from, reach) ==
  reach = [n \in 0 .. MaxOpens |->
             IF n = 0 THEN Unmarked(from) ELSE reach[n - 1] \cup Readers(reach[n - 1])]

LEMMA CascadeVisits ==
  ASSUME NEW from
  PROVE  \E reach : Visits(from, reach) /\ Cascade(from) = reach[MaxOpens]
<1> DEFINE Upto(f, k) == f = [n \in 0 .. k |-> IF n = 0 THEN Unmarked(from)
                                               ELSE f[n - 1] \cup Readers(f[n - 1])]
<1> DEFINE S == {k \in Nat : \E f : Upto(f, k)}
<1>1. 0 \in S
  <2> DEFINE f == [n \in 0 .. 0 |-> Unmarked(from)]
  <2>1. \A n \in 0 .. 0 : n = 0 /\ f[n] = Unmarked(from)
    OBVIOUS
  <2>2. f = [n \in 0 .. 0 |-> f[n]]
    OBVIOUS
  <2> HIDE DEF f
  <2>3. Upto(f, 0)
    BY <2>1, <2>2
  <2> QED  BY <2>3
<1>2. ASSUME NEW k \in Nat, k \in S PROVE k + 1 \in S
  <2>1. PICK f : Upto(f, k)
    BY <1>2
  <2> DEFINE g == [n \in 0 .. k + 1 |-> IF n <= k THEN f[n] ELSE f[k] \cup Readers(f[k])]
  <2>2. \A n \in 0 .. k : g[n] = f[n]
    OBVIOUS
  <2>3. \A n \in 0 .. k + 1 : g[n] = IF n = 0 THEN Unmarked(from)
                                     ELSE g[n - 1] \cup Readers(g[n - 1])
    <3> SUFFICES ASSUME NEW n \in 0 .. k + 1
                 PROVE  g[n] = IF n = 0 THEN Unmarked(from) ELSE g[n - 1] \cup Readers(g[n - 1])
      OBVIOUS
    <3>1. CASE n = 0
      <4>1. g[0] = f[0] /\ f[0] = Unmarked(from)
        BY <2>1
      <4> HIDE DEF g
      <4> QED  BY <3>1, <4>1
    <3>2. CASE n \in 1 .. k
      <4>1. g[n] = f[n] /\ g[n - 1] = f[n - 1]
        BY <2>2, <3>2
      <4> HIDE DEF g
      <4>2. f[n] = f[n - 1] \cup Readers(f[n - 1])
        <5>1. n \in 0 .. k /\ n # 0
          BY <3>2
        <5> QED  BY <2>1, <5>1
      <4> QED  BY <3>2, <4>1, <4>2
    <3>3. CASE n = k + 1
      <4>1. g[n] = f[k] \cup Readers(f[k]) /\ g[n - 1] = f[k] /\ n # 0
        BY <3>3
      <4> HIDE DEF g
      <4> QED  BY <4>1
    <3> QED  BY <3>1, <3>2, <3>3
  <2>4. DOMAIN g = 0 .. k + 1 /\ g = [n \in 0 .. k + 1 |-> g[n]]
    OBVIOUS
  <2> HIDE DEF g
  <2>5. Upto(g, k + 1)
    BY <2>3, <2>4
  <2> QED  BY <2>5
<1>3. MaxOpens \in S
  <2> HIDE DEF S
  <2> QED  BY <1>1, <1>2, NatIsInductive, ConstantFacts
<1>4. PICK reach : Visits(from, reach)
  BY <1>3 DEF Visits
<1> HIDE DEF S, Upto
<1> QED  BY <1>4, ConstantFacts DEF Cascade, Visits, Readers

\* What a cascade reaches is live and unmarked, the first readers are in it, and
\* it goes on through memos until there is nobody left to tell: every visit but
\* the last reaches somebody new, and there are no more scopes than slots.
LEMMA LiveIsBounded ==
  ASSUME TypeOK
  PROVE  IsFiniteSet(Live) /\ Cardinality(Live) <= MaxOpens
<1> DEFINE f == [i \in Live |-> i.slot]
<1>1. \A i \in Live : i.slot \in Slots
  BY IdFacts
<1>2. \A i, j \in Live : i.slot = j.slot => i = j
  BY IdFacts
<1> HIDE DEF Live
<1>3. f \in [Live -> Slots] /\ IsInjective(f)
  BY <1>1, <1>2 DEF IsInjective
<1>4. f \in Injection(Live, Slots)
  BY <1>3 DEF Injection
<1>5. IsFiniteSet(Slots) /\ Cardinality(Slots) = MaxOpens
  <2>1. MaxOpens \in Nat /\ MaxOpens >= 1
    BY ConstantFacts
  <2>2. IsFiniteSet(1 .. MaxOpens) /\ Cardinality(1 .. MaxOpens) = IF 1 > MaxOpens THEN 0 ELSE MaxOpens - 1 + 1
    BY <2>1, FS_Interval
  <2> QED  BY <2>1, <2>2, ConstantFacts
<1> HIDE DEF f
<1> QED  BY <1>4, <1>5, FS_Injection

LEMMA CascadeFacts ==
  ASSUME TypeOK, NEW from \in SUBSET Ids
  PROVE  /\ Unmarked(from) \subseteq Cascade(from)
         /\ \A i \in Cascade(from) : i \in Live /\ ~dirty[i.slot]
         /\ Readers(Cascade(from)) \subseteq Cascade(from)
<1>1. PICK reach : Visits(from, reach) /\ Cascade(from) = reach[MaxOpens]
  BY CascadeVisits
<1>2. MaxOpens \in Nat
  BY ConstantFacts
<1>3. reach[0] = Unmarked(from)
  BY <1>1, <1>2 DEF Visits
<1>4. \A n \in Nat : n + 1 <= MaxOpens => reach[n + 1] = reach[n] \cup Readers(reach[n])
  <2> SUFFICES ASSUME NEW n \in Nat, n + 1 <= MaxOpens
               PROVE  reach[n + 1] = reach[n] \cup Readers(reach[n])
    OBVIOUS
  <2>1. n + 1 \in 0 .. MaxOpens /\ n + 1 # 0 /\ (n + 1) - 1 = n
    BY <1>2
  <2> QED  BY <1>1, <2>1 DEF Visits
<1>5. \A is \in SUBSET Ids : \A i \in Unmarked(is) : i \in Live /\ ~dirty[i.slot]
  BY IdFacts DEF Unmarked
<1>6. \A is \in SUBSET Live : Readers(is) \subseteq Live /\ \A i \in Readers(is) : ~dirty[i.slot]
  <2> SUFFICES ASSUME NEW is \in SUBSET Live
               PROVE  Readers(is) \subseteq Live /\ \A i \in Readers(is) : ~dirty[i.slot]
    OBVIOUS
  <2>1. \A j \in is : subs[j.slot] \subseteq Ids
    BY IdFacts DEF TypeOK
  <2>2. UNION {subs[i.slot] : i \in {j \in is : kind[j.slot] = "memo"}} \in SUBSET Ids
    BY <2>1
  <2> QED  BY <1>5, <2>2 DEF Readers
<1> DEFINE Told(n) == /\ Unmarked(from) \subseteq reach[n]
                      /\ reach[n] \subseteq Live
                      /\ \A i \in reach[n] : ~dirty[i.slot]
                      /\ \/ Readers(reach[n]) \subseteq reach[n]
                         \/ Cardinality(reach[n]) >= n + 1
<1> DEFINE S == {n \in Nat : n <= MaxOpens => Told(n)}
<1>7. 0 \in S
  <2>1. Unmarked(from) \subseteq Live
    BY <1>5
  <2>2. IsFiniteSet(reach[0])
    BY <1>3, <2>1, LiveIsBounded, FS_Subset
  <2>3. reach[0] = {} \/ Cardinality(reach[0]) >= 1
    <3>1. Cardinality(reach[0]) \in Nat /\ (Cardinality(reach[0]) = 0 <=> reach[0] = {})
      BY <2>2, FS_CardinalityType, FS_EmptySet
    <3> QED  BY <3>1
  <2>4. Readers({}) = {}
    BY DEF Readers, Unmarked
  <2>5. Readers(reach[0]) \subseteq reach[0] \/ Cardinality(reach[0]) >= 0 + 1
    BY <2>3, <2>4
  <2> QED  BY <1>3, <1>5, <2>1, <2>5
<1>8. ASSUME NEW n \in Nat, n \in S PROVE n + 1 \in S
  <2> SUFFICES ASSUME n + 1 <= MaxOpens PROVE Told(n + 1)
    OBVIOUS
  <2>1. Told(n)
    BY <1>2, <1>8
  <2>2. reach[n + 1] = reach[n] \cup Readers(reach[n])
    BY <1>4
  <2>3. reach[n + 1] \subseteq Live /\ \A i \in reach[n + 1] : ~dirty[i.slot]
    BY <1>6, <2>1, <2>2
  <2>4. CASE Readers(reach[n]) \subseteq reach[n]
    <3>1. reach[n + 1] = reach[n]
      BY <2>2, <2>4
    <3> QED  BY <2>1, <2>4, <3>1
  <2>5. CASE ~(Readers(reach[n]) \subseteq reach[n])
    <3>1. Cardinality(reach[n]) >= n + 1
      BY <2>1, <2>5
    <3>2. reach[n] \subseteq reach[n + 1] /\ reach[n] # reach[n + 1]
      BY <2>2, <2>5
    <3>3. IsFiniteSet(reach[n + 1])
      BY <2>3, LiveIsBounded, FS_Subset
    <3>4. /\ Cardinality(reach[n]) <= Cardinality(reach[n + 1])
          /\ Cardinality(reach[n + 1]) # Cardinality(reach[n])
          /\ IsFiniteSet(reach[n])
      BY <3>2, <3>3, FS_Subset
    <3>5. Cardinality(reach[n]) \in Nat /\ Cardinality(reach[n + 1]) \in Nat
      BY <3>3, <3>4, FS_CardinalityType
    <3>6. Cardinality(reach[n + 1]) >= (n + 1) + 1
      BY <3>1, <3>4, <3>5
    <3> QED  BY <2>1, <2>2, <2>3, <3>6
  <2> QED  BY <2>4, <2>5
<1>9. Told(MaxOpens)
  <2> HIDE DEF Told
  <2>1. MaxOpens \in S
    <3> HIDE DEF S
    <3> QED  BY <1>2, <1>7, <1>8, NatIsInductive
  <2> QED  BY <1>2, <2>1
<1>10. Cardinality(reach[MaxOpens]) <= MaxOpens
  <2>1. reach[MaxOpens] \subseteq Live
    BY <1>9
  <2>2. /\ Cardinality(reach[MaxOpens]) <= Cardinality(Live)
        /\ IsFiniteSet(reach[MaxOpens])
    BY <2>1, LiveIsBounded, FS_Subset
  <2>3. Cardinality(reach[MaxOpens]) \in Nat /\ Cardinality(Live) \in Nat
    BY <2>2, LiveIsBounded, FS_CardinalityType
  <2> QED  BY <1>2, <2>2, <2>3, LiveIsBounded
<1>11. Cardinality(reach[MaxOpens]) \in Nat
  BY <1>9, LiveIsBounded, FS_Subset, FS_CardinalityType
<1> QED  BY <1>1, <1>2, <1>9, <1>10, <1>11

(***************************************************************************)
(* What the steps of an evaluation have in common.                         *)
(***************************************************************************)

LEMMA SameScopes ==
  ASSUME UNCHANGED <<kind, gen>>
  PROVE  /\ Live' = Live /\ LiveMemos' = LiveMemos
         /\ \A x \in Ids : IsLive(x)' = IsLive(x) /\ Retired(x)' = Retired(x)
         /\ \A s \in Slots : IdOf(s)' = IdOf(s) /\ IsScope(s)' = IsScope(s)
         /\ \A x \in Sources : Alive(x)' = Alive(x)
<1>1. Live' = Live
  BY DEF Live, IsLive
<1>2. LiveMemos' = LiveMemos
  BY <1>1 DEF LiveMemos
<1> QED  BY <1>1, <1>2 DEF IsLive, Retired, IdOf, IsScope, Alive

LEMMA SameBodies ==
  ASSUME Counted, Bodied, UNCHANGED <<kind, gen, body, opens>>
  PROVE  Counted' /\ Bodied'
<1>1. Counted'
  BY DEF Counted, IsScope
<1>2. Live' = Live /\ LiveMemos' = LiveMemos
  BY SameScopes
<1>3. Bodied'
  BY <1>2 DEF Bodied, Reads, Retired
<1> QED  BY <1>1, <1>3

\* The reads of a scope are sources, and only what is gone is not there.
LEMMA ReadFacts ==
  ASSUME TypeOK, Bodied, NEW i \in Live
  PROVE  /\ Reads(i) \subseteq Sources
         /\ body[i.slot].test \in Reads(i) /\ body[i.slot].then \in Reads(i)
         /\ \A x \in Reads(i) : x \in Signals \/ x \in LiveMemos \/ (x \in Ids /\ Retired(x))
         /\ \A x \in Reads(i) : Alive(x) <=> (x \in Signals \/ x \in LiveMemos)
<1>1. body[i.slot] \in Bodies
  BY DEF Bodied
<1>2. Reads(i) \subseteq Sources /\ body[i.slot].test \in Reads(i) /\ body[i.slot].then \in Reads(i)
  BY <1>1 DEF Bodies, Reads
<1>3. \A x \in Reads(i) : x \in Signals \/ x \in LiveMemos \/ (x \in Ids /\ Retired(x))
  BY <1>2 DEF Bodied, Sources
<1>4. \A x \in LiveMemos : x \in Live /\ x \in Ids
  BY DEF LiveMemos, Live
<1>5. \A x \in Ids : Retired(x) => ~IsLive(x)
  BY IdFacts
<1> QED  BY <1>2, <1>3, <1>4, <1>5, IdFacts DEF Alive

\* A compute yields what it did while what it reads is told to it and keeps
\* its value.
LEMMA YieldsKept ==
  ASSUME NEW i, NEW v, Yields(i, v), body'[i.slot] = body[i.slot],
         \A x \in Reads(i) : Alive(x)' => Alive(x),
         \A x \in Reads(i) : Alive(x)' /\ Fed(i, x) => Fed(i, x)' /\ Val(x)' = Val(x)
  PROVE  Yields(i, v)'
<1> DEFINE a == body[i.slot].test
<1> DEFINE b == body[i.slot].then
<1>1. a \in Reads(i) /\ b \in Reads(i)
  BY DEF Reads
<1>2. Alive(a) => /\ Fed(i, a)
                  /\ Val(a) \notin Truthy => v = Val(a)
                  /\ Val(a) \in Truthy /\ Alive(b) => Fed(i, b) /\ v = Val(b)
  BY DEF Yields
<1>3. Alive(a)' => /\ Fed(i, a)'
                   /\ Val(a)' \notin Truthy => v = Val(a)'
                   /\ Val(a)' \in Truthy /\ Alive(b)' => Fed(i, b)' /\ v = Val(b)'
  BY <1>1, <1>2
<1> QED  BY <1>3 DEF Yields, Alive, Fed, Val

LEMMA UnderWayKept ==
  ASSUME NEW f, IsUnderWay(f), body'[f.id.slot] = body[f.id.slot], dirty'[f.id.slot],
         \A x \in Reads(f.id) : Alive(x)' = Alive(x),
         \A x \in Reads(f.id) : Alive(x) /\ Fed(f.id, x) => Fed(f.id, x)' /\ Val(x)' = Val(x)
  PROVE  IsUnderWay(f)'
<1> DEFINE i == f.id
<1> DEFINE a == body[i.slot].test
<1>1. a \in Reads(i)
  BY DEF Reads
<1>2. f.at = 2 => Alive(a)' /\ Fed(i, a)' /\ f.seen = Val(a)' /\ f.seen \in Truthy
  BY <1>1 DEF IsUnderWay
<1>3. f.at = 3 => Yields(i, f.seen)'
  <2> SUFFICES ASSUME f.at = 3 PROVE Yields(i, f.seen)'
    OBVIOUS
  <2>1. Yields(i, f.seen)
    BY DEF IsUnderWay
  <2> QED  BY <2>1, YieldsKept
<1> QED  BY <1>2, <1>3 DEF IsUnderWay, Alive, Fed, Val

\* Nothing a compute looks at is touched.
LEMMA NothingRead ==
  ASSUME UNCHANGED <<value, kind, gen, body, cache, dirty, deps>>
  PROVE  /\ \A f : IsUnderWay(f) => IsUnderWay(f)'
         /\ \A i, v : Yields(i, v) => Yields(i, v)'
<1>1. \A x : Alive(x)' = Alive(x) /\ Val(x)' = Val(x) /\ \A i : Fed(i, x)' = Fed(i, x)
  BY DEF Alive, IsLive, Val, Fed
<1>2. ASSUME NEW i, NEW v, Yields(i, v) PROVE Yields(i, v)'
  BY <1>1, <1>2, YieldsKept
<1>3. ASSUME NEW f, IsUnderWay(f) PROVE IsUnderWay(f)'
  <2>1. dirty'[f.id.slot]
    BY <1>3 DEF IsUnderWay
  <2> QED  BY <1>1, <1>3, <2>1, UnderWayKept
<1> QED  BY <1>2, <1>3

\* Taking the links off a scope leaves it in no list at all.
LEMMA UnlinkFacts ==
  ASSUME TypeOK, Unlinked, LinksAreMutual, NEW i \in Live
  PROVE  /\ UnlinkListeners(i) = [g \in Signals |-> listeners[g] \ {i}]
         /\ UnlinkSubs(i) = [s \in Slots |-> subs[s] \ {i}]
<1>1. \A g \in Signals : g \notin deps[i.slot] => listeners[g] \ {i} = listeners[g]
  BY DEF LinksAreMutual
<1>2. UnlinkListeners(i) = [g \in Signals |-> listeners[g] \ {i}]
  BY <1>1 DEF UnlinkListeners
<1>3. ASSUME NEW s \in Slots, i \in subs[s]
      PROVE  \E m \in deps[i.slot] \cap Ids : m.slot = s
  <2>1. IsScope(s)
    BY <1>3 DEF Unlinked
  <2>2. IdOf(s) \in Live /\ IdOf(s).slot = s /\ IdOf(s) \in Ids
    BY <2>1, IdFacts
  <2>3. IdOf(s) \in deps[i.slot]
    BY <1>3, <2>2 DEF LinksAreMutual
  <2> QED  BY <2>2, <2>3
<1>4. \A s \in Slots : ~(\E m \in deps[i.slot] \cap Ids : m.slot = s) => subs[s] \ {i} = subs[s]
  BY <1>3
<1>5. UnlinkSubs(i) = [s \in Slots |-> subs[s] \ {i}]
  BY <1>4 DEF UnlinkSubs
<1> QED  BY <1>2, <1>5

\* A scope that is entered, from nowhere or from its reader, loses its links.
LEMMA EnteredLinks ==
  ASSUME TypeOK, Unlinked, LinksAreMutual, NEW i \in Live, UNCHANGED <<kind, gen>>, Enter(i)
  PROVE  /\ Unlinked' /\ LinksAreMutual'
         /\ listeners' \in [Signals -> SUBSET Ids] /\ subs' \in [Slots -> SUBSET Ids]
         /\ deps' \in [Slots -> SUBSET Sources]
<1>1. /\ listeners' = [g \in Signals |-> listeners[g] \ {i}]
      /\ subs' = [s \in Slots |-> subs[s] \ {i}]
      /\ deps' = [deps EXCEPT ![i.slot] = {}]
  BY UnlinkFacts DEF Enter
<1>2. i.slot \in Slots /\ \A j \in Live : j.slot \in Slots /\ (j.slot = i.slot => j = i)
  BY IdFacts
<1>3. /\ listeners \in [Signals -> SUBSET Ids] /\ subs \in [Slots -> SUBSET Ids]
      /\ deps \in [Slots -> SUBSET Sources]
  BY DEF TypeOK
<1>4. /\ Live' = Live /\ LiveMemos' = LiveMemos /\ \A s \in Slots : IsScope(s)' = IsScope(s)
  BY SameScopes
<1>5. \A s \in Slots : deps'[s] = IF s = i.slot THEN {} ELSE deps[s]
  BY <1>1, <1>3
<1>6. Unlinked'
  BY <1>1, <1>4, <1>5 DEF Unlinked
<1>7. \A g \in Signals : listeners'[g] = {j \in Live : g \in deps'[j.slot]}
  BY <1>1, <1>2, <1>5 DEF LinksAreMutual
<1>8. \A m \in Live : subs'[m.slot] = {j \in Live : m \in deps'[j.slot]}
  BY <1>1, <1>2, <1>5 DEF LinksAreMutual
<1>9. \A s \in Slots : deps'[s] \cap Ids \subseteq LiveMemos
  BY <1>5 DEF LinksAreMutual
<1>10. LinksAreMutual'
  BY <1>4, <1>7, <1>8, <1>9 DEF LinksAreMutual
<1>11. /\ listeners' \in [Signals -> SUBSET Ids] /\ subs' \in [Slots -> SUBSET Ids]
       /\ deps' \in [Slots -> SUBSET Sources]
  BY <1>1, <1>3
<1> QED  BY <1>6, <1>10, <1>11

\* A shorter stack of the same scopes is as acyclic.
LEMMA AcyclicKept ==
  ASSUME TypeOK, Acyclic, UNCHANGED <<kind, gen, body, opens>>,
         Len(stack') \in Nat, Len(stack) \in Nat, Len(stack') <= Len(stack),
         \A n \in 1 .. Len(stack') : stack'[n].id = stack[n].id
  PROVE  Acyclic'
<1>1. PICK rank \in [Slots -> 0 .. opens] :
        /\ \A i \in Live : \A x \in Reads(i) \cap Live : rank[x.slot] < rank[i.slot]
        /\ \A n, k \in 1 .. Len(stack) : n < k => rank[stack[k].id.slot] < rank[stack[n].id.slot]
  BY DEF Acyclic
<1>2. \A i \in Live' : \A x \in Reads(i)' \cap Live' : rank[x.slot] < rank[i.slot]
  BY <1>1, SameScopes DEF Reads
<1>3. \A n \in 1 .. Len(stack') : n \in 1 .. Len(stack)
  OBVIOUS
<1>4. \A n, k \in 1 .. Len(stack') : n < k => rank[stack'[k].id.slot] < rank[stack'[n].id.slot]
  BY <1>1, <1>3
<1>5. rank \in [Slots -> 0 .. opens']
  BY <1>1
<1> QED  BY <1>2, <1>4, <1>5 DEF Acyclic

\* The first evaluation of a stack.
LEMMA FirstEvaluation ==
  ASSUME TypeOK, Acyclic, UNCHANGED <<kind, gen, body, opens>>, NEW i \in Live,
         stack' = << Begun(i) >>
  PROVE  /\ Acyclic' /\ OnStack' = {i} /\ Len(stack') = 1
         /\ stack'[1].id = i /\ stack'[1].at = 1
         /\ stack' \in Seq([id : Live, at : 1 .. 3, seen : Results])
<1>1. Len(stack') = 1 /\ stack'[1] = Begun(i)
  OBVIOUS
<1>2. Begun(i).id = i /\ Begun(i).at = 1 /\ Begun(i) \in [id : Live, at : 1 .. 3, seen : Results]
  BY DEF Begun, Results
<1>3. PICK rank \in [Slots -> 0 .. opens] :
        \A j \in Live : \A x \in Reads(j) \cap Live : rank[x.slot] < rank[j.slot]
  BY DEF Acyclic
<1>4. \A j \in Live' : \A x \in Reads(j)' \cap Live' : rank[x.slot] < rank[j.slot]
  BY <1>3, SameScopes DEF Reads
<1>5. \A n, k \in 1 .. Len(stack') : ~(n < k)
  BY <1>1
<1>6. rank \in [Slots -> 0 .. opens']
  BY <1>3
<1>7. Acyclic'
  BY <1>4, <1>5, <1>6 DEF Acyclic
<1>8. OnStack' = {i}
  <2>1. \A n \in 1 .. Len(stack') : n = 1
    BY <1>1
  <2>2. OnStack' = {stack'[n].id : n \in 1 .. Len(stack')}
    BY DEF OnStack
  <2>3. 1 \in 1 .. Len(stack')
    BY <1>1
  <2> QED  BY <1>1, <1>2, <2>1, <2>2, <2>3
<1>9. stack' \in Seq([id : Live, at : 1 .. 3, seen : Results])
  BY <1>2
<1> QED  BY <1>1, <1>2, <1>7, <1>8, <1>9

\* Nothing is evaluated between ticks and between bindings.
LEMMA EmptyStack ==
  ASSUME stack = << >>
  PROVE  OnStack = {} /\ Len(stack) = 0 /\ \A n : n \notin 1 .. Len(stack)
<1>1. Len(stack) = 0
  OBVIOUS
<1> QED  BY <1>1 DEF OnStack

LEMMA BeginTickInvariant == IInv /\ BeginTick => IInv'
<1> SUFFICES ASSUME IInv, BeginTick PROVE IInv'
  OBVIOUS
<1> USE DEF IInv
<1>1. /\ UNCHANGED <<kind, gen, body, opens>> /\ pulling' = TRUE /\ computed' = {}
      /\ UNCHANGED <<value, listeners, cache, dirty, deps, subs, free, queue, ran, stack>>
  BY DEF BeginTick
<1>2. Live' = Live /\ LiveMemos' = LiveMemos
  BY <1>1, SameScopes
<1>3. TypeOK'
  BY <1>1, <1>2 DEF TypeOK
<1>4. Counted' /\ Bodied'
  BY <1>1, SameBodies
<1>5. Unlinked' /\ LinksAreMutual'
  BY <1>1, <1>2 DEF Unlinked, IsScope, LinksAreMutual
<1>6. Acyclic'
  BY <1>1, <1>2 DEF Acyclic, Reads
<1>7. Queued'
  BY <1>1 DEF Queued, Retired, IsLive, OnStack, IdOf
<1>8. DirtyIsQueued' /\ Computed'
  BY <1>1, <1>2 DEF DirtyIsQueued, Computed
<1>9. Evaluations'
  BY <1>1, NothingRead DEF Evaluations
<1>10. CleanIsFed'
  BY <1>1, <1>2, NothingRead DEF CleanIsFed
<1> QED  BY <1>3, <1>4, <1>5, <1>6, <1>7, <1>8, <1>9, <1>10

LEMMA EndPullInvariant == IInv /\ EndPull => IInv'
<1> SUFFICES ASSUME IInv, EndPull PROVE IInv'
  OBVIOUS
<1> USE DEF IInv
<1>1. /\ UNCHANGED <<kind, gen, body, opens>> /\ pulling' = FALSE /\ ran' = {}
      /\ UNCHANGED <<value, listeners, cache, dirty, deps, subs, free, queue, computed, stack>>
  BY DEF EndPull
<1>2. Live' = Live /\ LiveMemos' = LiveMemos
  BY <1>1, SameScopes
<1>3. TypeOK'
  BY <1>1, <1>2 DEF TypeOK
<1>4. Counted' /\ Bodied'
  BY <1>1, SameBodies
<1>5. Unlinked' /\ LinksAreMutual'
  BY <1>1, <1>2 DEF Unlinked, IsScope, LinksAreMutual
<1>6. Acyclic'
  BY <1>1, <1>2 DEF Acyclic, Reads
<1>7. Queued'
  BY <1>1 DEF Queued, Retired, IsLive, OnStack, IdOf
<1>8. DirtyIsQueued' /\ Computed'
  BY <1>1, <1>2 DEF DirtyIsQueued, Computed, Retired, IsLive, OnStack
<1>9. Evaluations'
  BY <1>1, NothingRead DEF Evaluations
<1>10. CleanIsFed'
  BY <1>1, <1>2, NothingRead DEF CleanIsFed
<1> QED  BY <1>3, <1>4, <1>5, <1>6, <1>7, <1>8, <1>9, <1>10

\* A marked scope is entered and nothing is under way: what a clean scope holds
\* does not depend on the links of a marked one.
LEMMA StartInvariant ==
  ASSUME IInv, NEW i \in Live, dirty[i.slot], stack = << >>, Enter(i), stack' = << Begun(i) >>,
         UNCHANGED <<value, kind, gen, body, cache, dirty, free, opens>>,
         queue' \subseteq queue, pulling' \in BOOLEAN, ran' \subseteq Slots
  PROVE  /\ TypeOK' /\ Counted' /\ Bodied' /\ Unlinked' /\ LinksAreMutual' /\ Acyclic'
         /\ Computed' /\ Evaluations' /\ CleanIsFed' /\ OnStack' = {i}
<1> USE DEF IInv
<1>1. Live' = Live /\ LiveMemos' = LiveMemos
  BY SameScopes
<1>2. Counted' /\ Bodied'
  BY SameBodies
<1>3. /\ Unlinked' /\ LinksAreMutual'
      /\ listeners' \in [Signals -> SUBSET Ids] /\ subs' \in [Slots -> SUBSET Ids]
      /\ deps' \in [Slots -> SUBSET Sources]
  BY EnteredLinks
<1>4. /\ Acyclic' /\ OnStack' = {i} /\ Len(stack') = 1
      /\ stack'[1].id = i /\ stack'[1].at = 1
      /\ stack' \in Seq([id : Live, at : 1 .. 3, seen : Results])
  BY FirstEvaluation
<1>5. computed' = computed \cup {i} /\ deps' = [deps EXCEPT ![i.slot] = {}]
  BY DEF Enter
<1>6. i \in Ids /\ \A j \in Live : j.slot \in Slots /\ (j.slot = i.slot => j = i)
  BY IdFacts
<1>7. TypeOK'
  <2>1. computed' \subseteq Ids
    BY <1>5, <1>6 DEF TypeOK
  <2>2. queue' \subseteq Ids
    BY DEF TypeOK
  <2> QED  BY <1>1, <1>3, <1>4, <2>1, <2>2 DEF TypeOK
<1>8. Computed'
  <2>1. OnStack = {}
    BY EmptyStack
  <2> QED  BY <1>1, <1>4, <1>5, <2>1, IdFacts DEF Computed, Retired, IsLive, Live
<1>9. Evaluations'
  <2>1. \A n \in 1 .. Len(stack') : stack'[n].id = i /\ stack'[n].at = 1
    BY <1>4
  <2> QED  BY <2>1 DEF Evaluations, IsUnderWay
<1>10. CleanIsFed'
  <2> SUFFICES ASSUME NEW j \in Live, ~dirty[j.slot] PROVE Yields(j, cache[j.slot])'
    BY <1>1 DEF CleanIsFed
  <2>1. Yields(j, cache[j.slot]) /\ j # i /\ j.slot # i.slot
    BY <1>6 DEF CleanIsFed
  <2>2. deps'[j.slot] = deps[j.slot]
    BY <1>5, <2>1
  <2>3. \A x : Alive(x)' = Alive(x) /\ Val(x)' = Val(x) /\ Fed(j, x)' = Fed(j, x)
    BY <2>2 DEF Alive, IsLive, Val, Fed
  <2>4. \A v : v = cache[j.slot] => Yields(j, v)'
    BY <2>1, <2>3, YieldsKept
  <2> QED  BY <2>4 DEF Yields, Alive, Fed, Val
<1> QED  BY <1>2, <1>3, <1>4, <1>7, <1>8, <1>9, <1>10

LEMMA PeekInvariant == ASSUME IInv, NEW m \in Live, Peek(m) PROVE IInv'
<1> USE DEF IInv
<1>1. /\ Idle /\ stack = << >> /\ dirty[m.slot] /\ kind[m.slot] = "memo" /\ Enter(m)
      /\ stack' = << Begun(m) >>
      /\ UNCHANGED <<value, kind, gen, body, cache, dirty, free, opens, queue, pulling, ran>>
  BY DEF Peek, Idle
<1>2. /\ TypeOK' /\ Counted' /\ Bodied' /\ Unlinked' /\ LinksAreMutual' /\ Acyclic'
      /\ Computed' /\ Evaluations' /\ CleanIsFed' /\ OnStack' = {m}
  BY <1>1, StartInvariant DEF TypeOK
<1>3. Live' = Live /\ LiveMemos' = LiveMemos
  BY <1>1, SameScopes
<1>4. OnStack = {} /\ \A n : n \notin 1 .. Len(stack)
  BY <1>1, EmptyStack
<1>5. m \notin queue
  BY <1>1, IdFacts DEF Queued
<1>6. Queued'
  BY <1>1, <1>2, <1>5 DEF Queued, Retired, IsLive, IdOf
<1>7. DirtyIsQueued'
  BY <1>1, <1>3, <1>4 DEF DirtyIsQueued
<1> QED  BY <1>2, <1>6, <1>7

LEMMA PullNextInvariant == IInv /\ PullNext => IInv'
<1> SUFFICES ASSUME IInv, PullNext PROVE IInv'
  OBVIOUS
<1> USE DEF IInv
<1>1. PICK i \in queue :
        /\ queue' = queue \ {i}
        /\ IF IsLive(i) /\ i.slot \notin ran
             THEN /\ ran' = ran \cup {i.slot}
                  /\ Enter(i)
                  /\ stack' = << Begun(i) >>
             ELSE UNCHANGED <<ran, listeners, subs, deps, computed, stack>>
  BY DEF PullNext
<1>2. /\ pulling /\ stack = << >>
      /\ UNCHANGED <<value, kind, gen, body, cache, dirty, free, pulling, opens>>
  BY DEF PullNext
<1>3. Live' = Live /\ LiveMemos' = LiveMemos
  BY <1>2, SameScopes
<1>4. OnStack = {} /\ Len(stack) = 0 /\ \A n : n \notin 1 .. Len(stack)
  BY <1>2, EmptyStack
<1>5. i \in Ids /\ \A j \in Live : j.slot \in Slots /\ j = IdOf(j.slot)
  BY IdFacts DEF TypeOK
<1>6. CASE IsLive(i) /\ i.slot \notin ran
  <2>1. i \in Live /\ dirty[i.slot]
    BY <1>5, <1>6, IdFacts DEF Queued
  <2>2. /\ TypeOK' /\ Counted' /\ Bodied' /\ Unlinked' /\ LinksAreMutual' /\ Acyclic'
        /\ Computed' /\ Evaluations' /\ CleanIsFed' /\ OnStack' = {i}
    BY <1>1, <1>2, <1>5, <1>6, <2>1, StartInvariant DEF TypeOK
  <2>3. Queued'
    <3>1. \A s \in ran' : IdOf(s) \notin queue'
      BY <1>1, <1>5, <1>6, <2>1 DEF Queued
    <3>2. queue' \cap OnStack' = {}
      BY <1>1, <2>2
    <3> QED  BY <1>1, <1>2, <3>1, <3>2 DEF Queued, Retired, IsLive, IdOf
  <2>4. DirtyIsQueued'
    <3>1. stack'[1].id = i /\ 1 \in 1 .. Len(stack')
      <4>1. Len(stack') = 1 /\ stack'[1] = Begun(i)
        BY <1>1, <1>6
      <4> QED  BY <4>1 DEF Begun
    <3> QED  BY <1>1, <1>2, <1>3, <1>4, <3>1 DEF DirtyIsQueued
  <2> QED  BY <2>2, <2>3, <2>4
<1>7. CASE ~(IsLive(i) /\ i.slot \notin ran)
  <2>1. UNCHANGED <<ran, listeners, subs, deps, computed, stack>>
    BY <1>1, <1>7
  <2>2. i \notin Live
    BY <1>5, <1>7, IdFacts DEF Queued
  <2>3. TypeOK'
    BY <1>1, <1>2, <1>3, <2>1 DEF TypeOK
  <2>4. Counted' /\ Bodied'
    BY <1>2, SameBodies
  <2>5. Unlinked' /\ LinksAreMutual'
    BY <1>2, <1>3, <2>1 DEF Unlinked, IsScope, LinksAreMutual
  <2>6. Acyclic'
    BY <1>2, <1>3, <2>1 DEF Acyclic, Reads
  <2>7. Queued'
    BY <1>1, <1>2, <2>1 DEF Queued, Retired, IsLive, OnStack, IdOf
  <2>8. DirtyIsQueued' /\ Computed'
    BY <1>1, <1>2, <1>3, <2>1, <2>2 DEF DirtyIsQueued, Computed, Retired, IsLive, OnStack
  <2>9. Evaluations'
    BY <1>2, <2>1, NothingRead DEF Evaluations
  <2>10. CleanIsFed'
    BY <1>2, <1>3, <2>1, NothingRead DEF CleanIsFed
  <2> QED  BY <2>3, <2>4, <2>5, <2>6, <2>7, <2>8, <2>9, <2>10
<1> QED  BY <1>6, <1>7

(***************************************************************************)
(* Reads.  A compute that reads is told of what it read, and goes on.       *)
(***************************************************************************)

LEMMA TopFacts ==
  ASSUME TypeOK, Bodied, Evaluating
  PROVE  /\ Top.id \in Live /\ Top.at \in {1, 2} /\ NextSource(Top) \in Reads(Top.id)
         /\ Len(stack) \in Nat /\ Len(stack) >= 1 /\ Top = stack[Len(stack)]
         /\ Len(stack) \in 1 .. Len(stack)
<1>1. /\ Top \in Frames /\ Top.id \in Live /\ Len(stack) \in Nat /\ Len(stack) >= 1
      /\ Top = stack[Len(stack)]
  BY StackFacts DEF Evaluating
<1>2. Top.at \in 1 .. 3 /\ Top.at < 3
  BY <1>1 DEF Frames, Evaluating
<1>3. NextSource(Top) \in Reads(Top.id)
  BY DEF NextSource, Reads
<1> QED  BY <1>1, <1>2, <1>3

\* What has been read stays read, whatever else is read.
LEMMA MoreDeps ==
  ASSUME TypeOK, Bodied, UNCHANGED <<value, kind, gen, body, cache, dirty>>,
         NEW i \in Live, deps[i.slot] \subseteq deps'[i.slot]
  PROVE  /\ \A v : Yields(i, v) => Yields(i, v)'
         /\ \A f : f.id = i /\ IsUnderWay(f) => IsUnderWay(f)'
<1>1. \A x : Alive(x)' = Alive(x) /\ Val(x)' = Val(x) /\ (Fed(i, x) => Fed(i, x)')
  BY DEF Alive, IsLive, Val, Fed
<1>2. ASSUME NEW v, Yields(i, v) PROVE Yields(i, v)'
  BY <1>1, <1>2, YieldsKept
<1>3. ASSUME NEW f, f.id = i, IsUnderWay(f) PROVE IsUnderWay(f)'
  <2>1. dirty'[f.id.slot]
    BY <1>3 DEF IsUnderWay
  <2> QED  BY <1>1, <1>3, <2>1, UnderWayKept
<1> QED  BY <1>2, <1>3

\* The same scopes under way.
LEMMA SameStack ==
  ASSUME TypeOK, Queued, DirtyIsQueued, Computed,
         UNCHANGED <<kind, gen, dirty, queue, pulling, ran, computed>>,
         Len(stack') = Len(stack), \A n \in 1 .. Len(stack) : stack'[n].id = stack[n].id
  PROVE  Queued' /\ DirtyIsQueued' /\ Computed'
<1>1. OnStack' = OnStack
  BY DEF OnStack
<1>2. Queued'
  BY <1>1 DEF Queued, Retired, IsLive, IdOf
<1>3. DirtyIsQueued' /\ Computed'
  BY <1>1, SameScopes DEF DirtyIsQueued, Computed, Retired, IsLive
<1> QED  BY <1>2, <1>3

LEMMA ReadInvariant ==
  ASSUME IInv, Evaluating, NEW v \in Results, stack' = Saw(v),
         NEW t, t = Top.id, NEW x, x = NextSource(Top),
         UNCHANGED <<value, kind, gen, body, cache, dirty, free, queue, pulling, ran, opens, computed>>,
         \A s \in Slots : deps[s] \subseteq deps'[s],
         Alive(x) => Fed(t, x)' /\ v = Val(x),
         ~Alive(x) => v = Unit
  PROVE  /\ stack' \in Seq([id : Live, at : 1 .. 3, seen : Results])
         /\ Counted' /\ Bodied' /\ Acyclic' /\ Queued' /\ DirtyIsQueued' /\ Computed'
         /\ Evaluations' /\ CleanIsFed'
<1> USE DEF IInv
<1>a. PICK a : a = body[t.slot].test
  OBVIOUS
<1>b. PICK b : b = body[t.slot].then
  OBVIOUS
<1> DEFINE f == stack'[Len(stack)]
<1>1. /\ t \in Live /\ Top.at \in {1, 2} /\ Len(stack) \in Nat /\ Len(stack) >= 1
      /\ Top = stack[Len(stack)] /\ Len(stack) \in 1 .. Len(stack)
  BY TopFacts
<1>2. /\ stack' \in Seq(Frames) /\ Len(stack') = Len(stack)
      /\ \A n \in 1 .. Len(stack) - 1 : stack'[n] = stack[n]
      /\ f.id = t /\ f.seen = v
      /\ f.at = IF Top.at = 1 /\ v \in Truthy THEN 2 ELSE 3
      /\ \A n \in 1 .. Len(stack) : stack'[n].id = stack[n].id
  BY SawFacts
<1>3. Live' = Live /\ LiveMemos' = LiveMemos
  BY SameScopes
<1>4. Counted' /\ Bodied'
  BY SameBodies
<1>5. Queued' /\ DirtyIsQueued' /\ Computed'
  BY <1>2, SameStack
<1>6. Acyclic'
  BY <1>1, <1>2, AcyclicKept
<1>7. \A i \in Live : i.slot \in Slots /\ deps[i.slot] \subseteq deps'[i.slot]
  BY IdFacts
<1>8. CleanIsFed'
  <2> SUFFICES ASSUME NEW j \in Live, ~dirty[j.slot] PROVE Yields(j, cache[j.slot])'
    BY <1>3 DEF CleanIsFed
  <2>1. \A w : Yields(j, w) => Yields(j, w)'
    BY <1>7, MoreDeps
  <2>2. \A w : w = cache[j.slot] => Yields(j, w)'
    BY <2>1 DEF CleanIsFed
  <2> QED  BY <2>2 DEF Yields, Alive, Fed, Val
<1>9. \A n \in 1 .. Len(stack) : stack[n].id \in Live /\ IsUnderWay(stack[n])
  BY <1>1, StackFacts DEF Evaluating, Evaluations
<1>10. \A n \in 1 .. Len(stack) - 1 : IsUnderWay(stack[n])'
  <2> SUFFICES ASSUME NEW n \in 1 .. Len(stack) - 1 PROVE \A g : g = stack[n] => IsUnderWay(g)'
    BY <1>2 DEF IsUnderWay, Yields, Alive, Fed, Val
  <2>1. n \in 1 .. Len(stack)
    BY <1>1
  <2> QED  BY <1>7, <1>9, <2>1, MoreDeps
<1>11. ASSUME NEW g, g = f PROVE IsUnderWay(g)'
  <2>1. g.id = t /\ g.seen = v /\ g.at = IF Top.at = 1 /\ v \in Truthy THEN 2 ELSE 3
    BY <1>2, <1>11
  <2>2. dirty[t.slot] /\ IsUnderWay(Top)
    BY <1>1, <1>9 DEF IsUnderWay
  <2>3. \A y : Alive(y)' = Alive(y) /\ Val(y)' = Val(y) /\ (Fed(t, y) => Fed(t, y)')
    BY <1>1, <1>7 DEF Alive, IsLive, Val, Fed
  <2>4. CASE Top.at = 1
    <3>1. x = a
      BY <1>a, <2>4 DEF NextSource
    <3>2. CASE v \in Truthy
      <4>1. Alive(a) /\ Fed(t, a)' /\ v = Val(a)
        BY <3>1, <3>2, ConstantFacts
      <4>2. g.at = 2 /\ Alive(a)' /\ Fed(t, a)' /\ g.seen = Val(a)' /\ g.seen \in Truthy
        BY <2>1, <2>3, <2>4, <3>2, <4>1
      <4>3. body'[g.id.slot].test = a /\ dirty'[g.id.slot] /\ g.at # 3 /\ g.id = t
        BY <1>a, <2>1, <2>2, <4>2
      <4>4. (body[g.id.slot].test = a /\ Alive(a) /\ Fed(g.id, a) /\ g.seen = Val(a))'
        BY <4>2, <4>3
      <4>5. /\ Alive(body[g.id.slot].test)' /\ Fed(g.id, body[g.id.slot].test)'
            /\ g.seen = Val(body[g.id.slot].test)'
        BY <4>4 DEF Alive, Fed, Val
      <4> QED  BY <4>2, <4>3, <4>5 DEF IsUnderWay, Alive, Fed, Val
    <3>3. CASE v \notin Truthy
      <4>1. g.at = 3
        BY <2>1, <3>3
      <4>2. Alive(a)' => Fed(t, a)' /\ v = Val(a)' /\ Val(a)' \notin Truthy
        BY <2>3, <3>1, <3>3
      <4>3. Yields(t, v)'
        BY <1>a, <4>2 DEF Yields, Alive, Fed, Val
      <4> QED  BY <2>1, <2>2, <4>1, <4>3 DEF IsUnderWay, Yields, Alive, Fed, Val
    <3> QED  BY <3>2, <3>3
  <2>5. CASE Top.at = 2
    <3>1. x = b /\ g.at = 3
      BY <1>b, <2>1, <2>5 DEF NextSource
    <3>2. Alive(a) /\ Fed(t, a) /\ Val(a) \in Truthy
      BY <1>a, <2>2, <2>5 DEF IsUnderWay
    <3>3. /\ Alive(a)' /\ Fed(t, a)' /\ Val(a)' \in Truthy
          /\ Alive(b)' => Fed(t, b)' /\ v = Val(b)'
      BY <2>3, <3>1, <3>2
    <3>4. Yields(t, v)'
      BY <1>a, <1>b, <3>3 DEF Yields, Alive, Fed, Val
    <3> QED  BY <2>1, <2>2, <3>1, <3>4 DEF IsUnderWay, Yields, Alive, Fed, Val
  <2> QED  BY <1>1, <2>4, <2>5
<1>12. Evaluations'
  <2> SUFFICES ASSUME NEW n \in 1 .. Len(stack) PROVE IsUnderWay(stack[n])'
    BY <1>2 DEF Evaluations
  <2>1. CASE n \in 1 .. Len(stack) - 1
    BY <1>10, <2>1
  <2>2. CASE n = Len(stack)
    BY <1>11, <2>2 DEF IsUnderWay, Yields, Alive, Fed, Val
  <2> QED  BY <1>1, <2>1, <2>2
<1> QED  BY <1>2, <1>4, <1>5, <1>6, <1>8, <1>12 DEF Frames

LEMMA ReadSignalInvariant == IInv /\ ReadSignal => IInv'
<1> SUFFICES ASSUME IInv, ReadSignal PROVE IInv'
  OBVIOUS
<1> USE DEF IInv
<1>1. PICK t : t = Top.id
  OBVIOUS
<1>2. PICK g : g = NextSource(Top)
  OBVIOUS
<1>3. /\ Evaluating /\ g \in Signals
      /\ listeners' = [listeners EXCEPT ![g] = @ \cup {t}]
      /\ deps' = [deps EXCEPT ![t.slot] = @ \cup {g}]
      /\ stack' = Saw(value[g])
      /\ UNCHANGED <<value, kind, gen, body, cache, dirty, subs, free, queue, pulling, ran, opens,
                     computed>>
  BY <1>1, <1>2 DEF ReadSignal
<1>4. t \in Live /\ t \in Ids /\ t.slot \in Slots /\ value[g] \in Results
      /\ IsScope(t.slot) /\ \A j \in Live : j.slot \in Slots /\ (j.slot = t.slot => j = t)
  BY <1>1, <1>3, TopFacts, IdFacts DEF TypeOK, Results
<1>5. /\ listeners \in [Signals -> SUBSET Ids] /\ deps \in [Slots -> SUBSET Sources]
      /\ g \in Sources /\ g \notin Ids
  BY <1>3, ConstantFacts DEF TypeOK, Sources
<1>6. /\ \A s \in Slots : deps'[s] = IF s = t.slot THEN deps[s] \cup {g} ELSE deps[s]
      /\ \A h \in Signals : listeners'[h] = IF h = g THEN listeners[h] \cup {t} ELSE listeners[h]
      /\ deps' \in [Slots -> SUBSET Sources] /\ listeners' \in [Signals -> SUBSET Ids]
  BY <1>3, <1>4, <1>5
<1>7. /\ stack' \in Seq([id : Live, at : 1 .. 3, seen : Results])
      /\ Counted' /\ Bodied' /\ Acyclic' /\ Queued' /\ DirtyIsQueued' /\ Computed'
      /\ Evaluations' /\ CleanIsFed'
  <2>1. Alive(g) /\ Val(g) = value[g] /\ Fed(t, g)'
    BY <1>3, <1>4, <1>6 DEF Alive, Val, Fed
  <2>2. \A s \in Slots : deps[s] \subseteq deps'[s]
    BY <1>6
  <2> QED  BY <1>1, <1>2, <1>3, <1>4, <2>1, <2>2, ReadInvariant
<1>8. Live' = Live /\ LiveMemos' = LiveMemos
  BY <1>3, SameScopes
<1>9. TypeOK'
  BY <1>3, <1>6, <1>7, <1>8 DEF TypeOK
<1>10. Unlinked' /\ LinksAreMutual'
  <2>1. Unlinked'
    BY <1>3, <1>4, <1>6 DEF Unlinked, IsScope
  <2>2. \A h \in Signals : listeners'[h] = {j \in Live : h \in deps'[j.slot]}
    BY <1>4, <1>6 DEF LinksAreMutual
  <2>3. \A m \in Live : subs'[m.slot] = {j \in Live : m \in deps'[j.slot]}
    <3>1. \A m \in Live, s \in Slots : m \in deps'[s] <=> m \in deps[s]
      BY <1>5, <1>6, IdFacts
    <3> QED  BY <1>3, <1>4, <3>1 DEF LinksAreMutual
  <2>4. \A s \in Slots : deps'[s] \cap Ids \subseteq LiveMemos
    BY <1>5, <1>6 DEF LinksAreMutual
  <2> QED  BY <1>8, <2>1, <2>2, <2>3, <2>4 DEF LinksAreMutual
<1> QED  BY <1>7, <1>9, <1>10

LEMMA ReadRetiredInvariant == IInv /\ ReadRetired => IInv'
<1> SUFFICES ASSUME IInv, ReadRetired PROVE IInv'
  OBVIOUS
<1> USE DEF IInv
<1>1. PICK t : t = Top.id
  OBVIOUS
<1>2. PICK x : x = NextSource(Top)
  OBVIOUS
<1>3. /\ Evaluating /\ x \in Ids /\ ~IsLive(x) /\ stack' = Saw(Unit)
      /\ UNCHANGED <<value, listeners, kind, gen, body, cache, dirty, deps, subs, free, queue,
                     pulling, ran, opens, computed>>
  BY <1>1, <1>2 DEF ReadRetired
<1>4. ~Alive(x) /\ Unit \in Results
  BY <1>3, ConstantFacts DEF Alive, Results
<1>7. /\ stack' \in Seq([id : Live, at : 1 .. 3, seen : Results])
      /\ Counted' /\ Bodied' /\ Acyclic' /\ Queued' /\ DirtyIsQueued' /\ Computed'
      /\ Evaluations' /\ CleanIsFed'
  BY <1>1, <1>2, <1>3, <1>4, ReadInvariant
<1>8. Live' = Live /\ LiveMemos' = LiveMemos
  BY <1>3, SameScopes
<1>9. TypeOK'
  BY <1>3, <1>7, <1>8 DEF TypeOK
<1>10. Unlinked' /\ LinksAreMutual'
  BY <1>3, <1>8 DEF Unlinked, IsScope, LinksAreMutual
<1> QED  BY <1>7, <1>9, <1>10

LEMMA ReadCachedInvariant == IInv /\ ReadCached => IInv'
<1> SUFFICES ASSUME IInv, ReadCached PROVE IInv'
  OBVIOUS
<1> USE DEF IInv
<1>1. PICK t : t = Top.id
  OBVIOUS
<1>2. PICK m : m = NextSource(Top)
  OBVIOUS
<1>3. /\ Evaluating /\ m \in Ids /\ IsLive(m) /\ ~dirty[m.slot]
      /\ subs' = [subs EXCEPT ![m.slot] = @ \cup {t}]
      /\ deps' = [deps EXCEPT ![t.slot] = @ \cup {m}]
      /\ stack' = Saw(cache[m.slot])
      /\ UNCHANGED <<value, listeners, kind, gen, body, cache, dirty, free, queue, pulling, ran,
                     opens, computed>>
  BY <1>1, <1>2 DEF ReadCached
<1>4. t \in Live /\ t \in Ids /\ t.slot \in Slots /\ m \in Live /\ m.slot \in Slots
      /\ IsScope(t.slot) /\ IsScope(m.slot)
      /\ \A j \in Live : j.slot \in Slots /\ (j.slot = t.slot => j = t) /\ (j.slot = m.slot => j = m)
  BY <1>1, <1>3, TopFacts, IdFacts
<1>5. /\ subs \in [Slots -> SUBSET Ids] /\ deps \in [Slots -> SUBSET Sources]
      /\ m \in Sources /\ m \notin Signals /\ cache[m.slot] \in Results
  BY <1>3, <1>4, ConstantFacts DEF TypeOK, Sources
<1>6. /\ \A s \in Slots : deps'[s] = IF s = t.slot THEN deps[s] \cup {m} ELSE deps[s]
      /\ \A s \in Slots : subs'[s] = IF s = m.slot THEN subs[s] \cup {t} ELSE subs[s]
      /\ deps' \in [Slots -> SUBSET Sources] /\ subs' \in [Slots -> SUBSET Ids]
  BY <1>3, <1>4, <1>5
<1>7. /\ stack' \in Seq([id : Live, at : 1 .. 3, seen : Results])
      /\ Counted' /\ Bodied' /\ Acyclic' /\ Queued' /\ DirtyIsQueued' /\ Computed'
      /\ Evaluations' /\ CleanIsFed'
  <2>1. Alive(m) /\ Val(m) = cache[m.slot] /\ Fed(t, m)'
    BY <1>3, <1>4, <1>5, <1>6 DEF Alive, Val, Fed
  <2>2. \A s \in Slots : deps[s] \subseteq deps'[s]
    BY <1>6
  <2> QED  BY <1>1, <1>2, <1>3, <1>5, <2>1, <2>2, ReadInvariant
<1>8. Live' = Live /\ LiveMemos' = LiveMemos
  BY <1>3, SameScopes
<1>9. TypeOK'
  BY <1>3, <1>6, <1>7, <1>8 DEF TypeOK
<1>10. m \in LiveMemos
  <2>1. m \in Reads(t)
    BY <1>1, <1>2, <1>3, TopFacts
  <2> QED  BY <1>3, <1>4, <2>1, IdFacts DEF Bodied
<1>11. Unlinked' /\ LinksAreMutual'
  <2>1. Unlinked'
    BY <1>3, <1>4, <1>6 DEF Unlinked, IsScope
  <2>2. \A h \in Signals : listeners'[h] = {j \in Live : h \in deps'[j.slot]}
    <3>1. \A h \in Signals, s \in Slots : h \in deps'[s] <=> h \in deps[s]
      BY <1>5, <1>6
    <3> QED  BY <1>3, <1>4, <3>1 DEF LinksAreMutual
  <2>3. \A n \in Live : subs'[n.slot] = {j \in Live : n \in deps'[j.slot]}
    BY <1>4, <1>6 DEF LinksAreMutual
  <2>4. \A s \in Slots : deps'[s] \cap Ids \subseteq LiveMemos
    BY <1>6, <1>10 DEF LinksAreMutual
  <2> QED  BY <1>8, <2>1, <2>2, <2>3, <2>4 DEF LinksAreMutual
<1> QED  BY <1>7, <1>9, <1>11

\* What a scope under way reads next is not under way itself.
LEMMA ReadIsNew ==
  ASSUME TypeOK, Bodied, Acyclic, Evaluating, NEW m \in Live, m = NextSource(Top),
         UNCHANGED <<kind, gen, body, opens>>, stack' = Append(stack, Begun(m))
  PROVE  /\ \A n \in 1 .. Len(stack) : stack[n].id # m /\ stack[n].id.slot # m.slot
         /\ m \notin OnStack /\ OnStack' = OnStack \cup {m} /\ Acyclic'
         /\ stack' \in Seq([id : Live, at : 1 .. 3, seen : Results])
         /\ Len(stack') = Len(stack) + 1 /\ \A n \in 1 .. Len(stack) : stack'[n] = stack[n]
         /\ stack'[Len(stack) + 1] = Begun(m) /\ Begun(m).id = m /\ Begun(m).at = 1
<1>1. PICK rank \in [Slots -> 0 .. opens] :
        /\ \A i \in Live : \A x \in Reads(i) \cap Live : rank[x.slot] < rank[i.slot]
        /\ \A n, k \in 1 .. Len(stack) : n < k => rank[stack[k].id.slot] < rank[stack[n].id.slot]
  BY DEF Acyclic
<1>2. /\ Top.id \in Live /\ m \in Reads(Top.id) /\ Len(stack) \in Nat /\ Len(stack) >= 1
      /\ Top = stack[Len(stack)] /\ Len(stack) \in 1 .. Len(stack)
      /\ \A n \in 1 .. Len(stack) : stack[n].id \in Live /\ stack[n] \in Frames
  BY TopFacts, StackFacts DEF Evaluating
<1>3. rank[m.slot] < rank[Top.id.slot]
  BY <1>1, <1>2
<1>4. opens \in Nat /\ \A i \in Live : rank[i.slot] \in Nat
  BY <1>1, IdFacts, ConstantFacts DEF TypeOK
<1>5. \A n \in 1 .. Len(stack) : rank[m.slot] < rank[stack[n].id.slot]
  <2> SUFFICES ASSUME NEW n \in 1 .. Len(stack) PROVE rank[m.slot] < rank[stack[n].id.slot]
    OBVIOUS
  <2>1. CASE n = Len(stack)
    BY <1>2, <1>3, <2>1
  <2>2. CASE n < Len(stack)
    <3>1. rank[Top.id.slot] < rank[stack[n].id.slot]
      BY <1>1, <1>2, <2>2
    <3> QED  BY <1>2, <1>3, <1>4, <3>1
  <2> QED  BY <1>2, <2>1, <2>2
<1>6. \A n \in 1 .. Len(stack) : stack[n].id # m /\ stack[n].id.slot # m.slot
  BY <1>2, <1>4, <1>5
<1>7. Begun(m).id = m /\ Begun(m).at = 1 /\ Begun(m) \in [id : Live, at : 1 .. 3, seen : Results]
  BY DEF Begun, Results
<1>8. /\ Len(stack') = Len(stack) + 1 /\ \A n \in 1 .. Len(stack) : stack'[n] = stack[n]
      /\ stack'[Len(stack) + 1] = Begun(m)
      /\ stack' \in Seq([id : Live, at : 1 .. 3, seen : Results])
  BY <1>7 DEF TypeOK
<1>9. OnStack' = OnStack \cup {m}
  <2>1. OnStack' = {stack'[n].id : n \in 1 .. Len(stack) + 1}
    BY <1>8 DEF OnStack
  <2>2. \A n \in 1 .. Len(stack) + 1 : n \in 1 .. Len(stack) \/ n = Len(stack) + 1
    BY <1>2
  <2>3. \A n \in 1 .. Len(stack) : n \in 1 .. Len(stack) + 1
    BY <1>2
  <2>4. Len(stack) + 1 \in 1 .. Len(stack) + 1
    BY <1>2
  <2> QED  BY <1>7, <1>8, <2>1, <2>2, <2>3, <2>4 DEF OnStack
<1>10. m \notin OnStack
  BY <1>6 DEF OnStack
<1>11. Acyclic'
  <2>1. \A i \in Live' : \A x \in Reads(i)' \cap Live' : rank[x.slot] < rank[i.slot]
    BY <1>1, SameScopes DEF Reads
  <2>2. ASSUME NEW n \in 1 .. Len(stack'), NEW k \in 1 .. Len(stack'), n < k
        PROVE  rank[stack'[k].id.slot] < rank[stack'[n].id.slot]
    <3>1. n \in 1 .. Len(stack)
      BY <1>2, <1>8, <2>2
    <3>2. CASE k = Len(stack) + 1
      BY <1>5, <1>7, <1>8, <3>1, <3>2
    <3>3. CASE k \in 1 .. Len(stack)
      BY <1>1, <1>8, <2>2, <3>1, <3>3
    <3> QED  BY <1>2, <1>8, <3>2, <3>3
  <2>3. rank \in [Slots -> 0 .. opens']
    BY <1>1
  <2> QED  BY <2>1, <2>2, <2>3 DEF Acyclic
<1> QED  BY <1>6, <1>7, <1>8, <1>9, <1>10, <1>11

LEMMA ReadDirtyInvariant == IInv /\ ReadDirty => IInv'
<1> SUFFICES ASSUME IInv, ReadDirty PROVE IInv'
  OBVIOUS
<1> USE DEF IInv
<1>1. PICK t : t = Top.id
  OBVIOUS
<1>2. PICK m : m = NextSource(Top)
  OBVIOUS
<1>3. /\ Evaluating /\ m \in Ids /\ IsLive(m) /\ dirty[m.slot]
      /\ subs' = [UnlinkSubs(m) EXCEPT ![m.slot] = @ \cup {t}]
      /\ deps' = [deps EXCEPT ![t.slot] = @ \cup {m}, ![m.slot] = {}]
      /\ listeners' = UnlinkListeners(m)
      /\ computed' = computed \cup {m}
      /\ stack' = Append(stack, Begun(m))
      /\ UNCHANGED <<value, kind, gen, body, cache, dirty, free, queue, pulling, ran, opens>>
  BY <1>1, <1>2 DEF ReadDirty
<1>4. t \in Live /\ t \in Ids /\ t.slot \in Slots /\ m \in Live /\ m.slot \in Slots
      /\ IsScope(t.slot) /\ IsScope(m.slot) /\ m \in Reads(t)
      /\ \A j \in Live : j.slot \in Slots /\ (j.slot = t.slot => j = t) /\ (j.slot = m.slot => j = m)
  BY <1>1, <1>2, <1>3, TopFacts, IdFacts
<1>5. /\ subs \in [Slots -> SUBSET Ids] /\ deps \in [Slots -> SUBSET Sources]
      /\ listeners \in [Signals -> SUBSET Ids]
      /\ m \in Sources /\ m \notin Signals
  BY <1>3, <1>4, ConstantFacts DEF TypeOK, Sources
<1>6. /\ \A n \in 1 .. Len(stack) : stack[n].id # m /\ stack[n].id.slot # m.slot
      /\ m \notin OnStack /\ OnStack' = OnStack \cup {m} /\ Acyclic'
      /\ stack' \in Seq([id : Live, at : 1 .. 3, seen : Results])
      /\ Len(stack') = Len(stack) + 1 /\ \A n \in 1 .. Len(stack) : stack'[n] = stack[n]
      /\ stack'[Len(stack) + 1] = Begun(m) /\ Begun(m).id = m /\ Begun(m).at = 1
  BY <1>2, <1>3, <1>4, ReadIsNew
<1>7. t # m /\ t.slot # m.slot /\ t \in OnStack
  <2>1. /\ t = stack[Len(stack)].id /\ Len(stack) \in 1 .. Len(stack)
    BY <1>1, <1>3, TopFacts
  <2> QED  BY <1>6, <2>1 DEF OnStack
<1>8. /\ \A s \in Slots : deps'[s] = IF s = m.slot THEN {}
                                     ELSE IF s = t.slot THEN deps[s] \cup {m} ELSE deps[s]
      /\ \A s \in Slots : subs'[s] = IF s = m.slot THEN (subs[s] \ {m}) \cup {t} ELSE subs[s] \ {m}
      /\ \A g \in Signals : listeners'[g] = listeners[g] \ {m}
      /\ deps' \in [Slots -> SUBSET Sources] /\ subs' \in [Slots -> SUBSET Ids]
      /\ listeners' \in [Signals -> SUBSET Ids]
  <2>1. /\ UnlinkListeners(m) = [g \in Signals |-> listeners[g] \ {m}]
        /\ UnlinkSubs(m) = [s \in Slots |-> subs[s] \ {m}]
    BY <1>4, UnlinkFacts
  <2>2. /\ \A g \in Signals : listeners'[g] = listeners[g] \ {m}
        /\ listeners' \in [Signals -> SUBSET Ids]
    BY <1>3, <1>5, <2>1
  <2>3. /\ \A s \in Slots : subs'[s] = IF s = m.slot THEN (subs[s] \ {m}) \cup {t} ELSE subs[s] \ {m}
        /\ subs' \in [Slots -> SUBSET Ids]
    <3>1. PICK u : u = UnlinkSubs(m)
      OBVIOUS
    <3>2. u \in [Slots -> SUBSET Ids] /\ \A s \in Slots : u[s] = subs[s] \ {m}
      BY <1>5, <2>1, <3>1
    <3>3. subs' = [u EXCEPT ![m.slot] = @ \cup {t}]
      BY <1>3, <3>1
    <3> QED  BY <1>4, <3>2, <3>3
  <2>4. /\ \A s \in Slots : deps'[s] = IF s = m.slot THEN {}
                                       ELSE IF s = t.slot THEN deps[s] \cup {m} ELSE deps[s]
        /\ deps' \in [Slots -> SUBSET Sources]
    BY <1>3, <1>4, <1>5, <1>7
  <2> QED  BY <2>2, <2>3, <2>4
<1>9. Live' = Live /\ LiveMemos' = LiveMemos /\ Counted' /\ Bodied'
  BY <1>3, SameScopes, SameBodies
<1>10. TypeOK'
  BY <1>3, <1>6, <1>8, <1>9 DEF TypeOK
<1>11. m \in LiveMemos
  BY <1>3, <1>4, IdFacts DEF Bodied
<1>12. Unlinked' /\ LinksAreMutual'
  <2>1. Unlinked'
    BY <1>3, <1>4, <1>8 DEF Unlinked, IsScope
  <2>2. \A g \in Signals : listeners'[g] = {j \in Live : g \in deps'[j.slot]}
    <3> SUFFICES ASSUME NEW g \in Signals
                 PROVE  listeners'[g] = {j \in Live : g \in deps'[j.slot]}
      OBVIOUS
    <3>1. listeners[g] = {j \in Live : g \in deps[j.slot]}
      BY DEF LinksAreMutual
    <3>2. \A j \in Live : g \in deps'[j.slot] <=> g \in deps[j.slot] /\ j # m
      BY <1>4, <1>5, <1>8
    <3> QED  BY <1>8, <3>1, <3>2
  <2>3. \A n \in Live : subs'[n.slot] = {j \in Live : n \in deps'[j.slot]}
    <3> SUFFICES ASSUME NEW n \in Live
                 PROVE  subs'[n.slot] = {j \in Live : n \in deps'[j.slot]}
      OBVIOUS
    <3>1. subs[n.slot] = {j \in Live : n \in deps[j.slot]}
      BY DEF LinksAreMutual
    <3>2. \A j \in Live : n \in deps'[j.slot] <=> (n \in deps[j.slot] /\ j # m) \/ (j = t /\ n = m)
      BY <1>4, <1>7, <1>8
    <3> QED  BY <1>4, <1>7, <1>8, <3>1, <3>2
  <2>4. \A s \in Slots : deps'[s] \cap Ids \subseteq LiveMemos
    BY <1>8, <1>11 DEF LinksAreMutual
  <2> QED  BY <1>9, <2>1, <2>2, <2>3, <2>4 DEF LinksAreMutual
<1>13. Queued'
  <2>1. m \notin queue
    BY <1>3, <1>4, <1>11, IdFacts DEF Queued, LiveMemos
  <2> QED  BY <1>3, <1>6, <2>1 DEF Queued, Retired, IsLive, IdOf
<1>14. DirtyIsQueued'
  <2>1. \A n \in 1 .. Len(stack) : n \in 1 .. Len(stack') /\ stack'[n].id = stack[n].id
    <3>1. Len(stack) \in Nat
      BY <1>3, TopFacts
    <3> QED  BY <1>6, <3>1
  <2> QED  BY <1>3, <1>9, <2>1 DEF DirtyIsQueued
<1>15. Computed'
  BY <1>3, <1>4, <1>6 DEF Computed, Retired, IsLive
<1>16. \A i \in Live : i # m => deps[i.slot] \subseteq deps'[i.slot]
  BY <1>4, <1>8
<1>17. Evaluations'
  <2> SUFFICES ASSUME NEW n \in 1 .. Len(stack') PROVE \A g : g = stack'[n] => IsUnderWay(g)'
    BY DEF Evaluations, IsUnderWay, Yields, Alive, Fed, Val
  <2>1. CASE n \in 1 .. Len(stack)
    <3>1. stack[n].id \in Live /\ stack[n].id # m /\ IsUnderWay(stack[n]) /\ stack'[n] = stack[n]
      BY <1>3, <1>6, <2>1, StackFacts DEF Evaluating, Evaluations
    <3> QED  BY <1>3, <1>16, <3>1, MoreDeps
  <2>2. CASE n = Len(stack) + 1
    BY <1>3, <1>6, <2>2 DEF IsUnderWay
  <2>3. Len(stack) \in Nat
    BY <1>3, TopFacts
  <2> QED  BY <1>6, <2>1, <2>2, <2>3
<1>18. CleanIsFed'
  <2> SUFFICES ASSUME NEW j \in Live, ~dirty[j.slot] PROVE Yields(j, cache[j.slot])'
    BY <1>3, <1>9 DEF CleanIsFed
  <2>1. j # m /\ deps[j.slot] \subseteq deps'[j.slot]
    BY <1>3, <1>16
  <2>2. \A w : w = cache[j.slot] => Yields(j, w)'
    BY <1>3, <2>1, MoreDeps DEF CleanIsFed
  <2> QED  BY <1>3, <2>2 DEF Yields, Alive, Fed, Val
<1> QED  BY <1>6, <1>9, <1>10, <1>12, <1>13, <1>14, <1>15, <1>17, <1>18

LEMMA ReturnInvariant == IInv /\ Return => IInv'
<1> SUFFICES ASSUME IInv, Return PROVE IInv'
  OBVIOUS
<1> USE DEF IInv
<1>1. PICK t : t = Top.id
  OBVIOUS
<1>2. PICK v : v = Top.seen
  OBVIOUS
<1>3. /\ stack # << >> /\ Top.at = 3 /\ stack' = Below
      /\ cache' = [cache EXCEPT ![t.slot] = v]
      /\ dirty' = [dirty EXCEPT ![t.slot] = FALSE]
      /\ UNCHANGED <<value, listeners, kind, gen, body, deps, subs, free, queue, pulling, ran, opens,
                     computed>>
  BY <1>1, <1>2 DEF Return
<1>4. /\ Len(stack) \in Nat /\ Len(stack) >= 1 /\ Top = stack[Len(stack)]
      /\ t \in Live /\ v \in Results
      /\ stack' \in Seq(Frames) /\ Len(stack') = Len(stack) - 1
      /\ \A n \in 1 .. Len(stack) - 1 : stack'[n] = stack[n]
      /\ \A n \in 1 .. Len(stack) : stack[n].id \in Live
  <2>1. Top \in Frames => Top.seen \in Results
    BY DEF Frames
  <2> QED  BY <1>1, <1>2, <1>3, <2>1, StackFacts
<1>5. Len(stack) \in 1 .. Len(stack) /\ \A n \in 1 .. Len(stack) - 1 : n \in 1 .. Len(stack)
  BY <1>4
<1>6. t \in Ids /\ t.slot \in Slots
      /\ \A j \in Live : j.slot \in Slots /\ (j.slot = t.slot => j = t)
  BY <1>4, IdFacts
<1>7. cache \in [Slots -> Results] /\ dirty \in [Slots -> BOOLEAN]
  BY DEF TypeOK
<1>8. /\ \A s \in Slots : dirty'[s] = IF s = t.slot THEN FALSE ELSE dirty[s]
      /\ \A s \in Slots : cache'[s] = IF s = t.slot THEN v ELSE cache[s]
      /\ cache' \in [Slots -> Results] /\ dirty' \in [Slots -> BOOLEAN]
  BY <1>3, <1>4, <1>6, <1>7
<1>9. Live' = Live /\ LiveMemos' = LiveMemos /\ Counted' /\ Bodied'
  BY <1>3, SameScopes, SameBodies
<1>10. TypeOK'
  BY <1>3, <1>4, <1>8, <1>9 DEF TypeOK, Frames
<1>11. Unlinked' /\ LinksAreMutual'
  BY <1>3, <1>9 DEF Unlinked, IsScope, LinksAreMutual
<1>12. Acyclic'
  BY <1>3, <1>4, AcyclicKept
<1>13. \A n \in 1 .. Len(stack) - 1 : stack[n].id # t
  <2>1. PICK rank \in [Slots -> 0 .. opens] :
          \A n, k \in 1 .. Len(stack) : n < k => rank[stack[k].id.slot] < rank[stack[n].id.slot]
    BY DEF Acyclic
  <2>2. opens \in Nat /\ rank[t.slot] \in Nat
    BY <1>6, <2>1, ConstantFacts DEF TypeOK
  <2>3. \A n \in 1 .. Len(stack) - 1 : rank[t.slot] < rank[stack[n].id.slot]
    <3>1. t = stack[Len(stack)].id
      BY <1>1, <1>4
    <3>2. \A n \in 1 .. Len(stack) - 1 : n < Len(stack)
      BY <1>4
    <3> QED  BY <1>5, <2>1, <3>1, <3>2
  <2> QED  BY <2>2, <2>3
<1>14. t \in OnStack /\ OnStack \subseteq OnStack' \cup {t} /\ OnStack' \subseteq OnStack
  <2>1. t \in OnStack
    BY <1>1, <1>4, <1>5 DEF OnStack
  <2>2. OnStack' = {stack[n].id : n \in 1 .. Len(stack) - 1}
    BY <1>4 DEF OnStack
  <2>3. \A n \in 1 .. Len(stack) : n \in 1 .. Len(stack) - 1 \/ n = Len(stack)
    BY <1>4
  <2> QED  BY <1>1, <1>4, <1>5, <2>1, <2>2, <2>3 DEF OnStack
<1>15. Queued'
  <2>1. ASSUME NEW i \in queue
        PROVE  Retired(i)' \/ (IsLive(i)' /\ kind'[i.slot] = "binding" /\ dirty'[i.slot])
    <3>1. CASE Retired(i)
      BY <1>3, <3>1 DEF Retired
    <3>2. CASE IsLive(i) /\ kind[i.slot] = "binding" /\ dirty[i.slot]
      <4>1. i \in Live /\ i # t
        BY <1>14, <2>1, <3>2, IdFacts DEF Queued, TypeOK
      <4> QED  BY <1>3, <1>6, <1>8, <3>2, <4>1 DEF IsLive
    <3> QED  BY <3>1, <3>2 DEF Queued
  <2>2. queue' \cap OnStack' = {}
    BY <1>3, <1>14 DEF Queued
  <2> QED  BY <1>3, <2>1, <2>2 DEF Queued, Retired, IsLive, IdOf
<1>16. DirtyIsQueued'
  <2> SUFFICES ASSUME NEW i \in Live, kind[i.slot] = "binding", dirty'[i.slot]
               PROVE  i \in queue \/ \E n \in 1 .. Len(stack') : stack'[n].id = i
    BY <1>3, <1>9 DEF DirtyIsQueued
  <2>1. i # t /\ dirty[i.slot]
    BY <1>6, <1>8
  <2>2. CASE i \in queue
    BY <2>2
  <2>3. CASE \E n \in 1 .. Len(stack) : stack[n].id = i
    <3>1. PICK n \in 1 .. Len(stack) : stack[n].id = i
      BY <2>3
    <3>2. n \in 1 .. Len(stack) - 1
      BY <1>1, <1>4, <2>1, <3>1
    <3> QED  BY <1>4, <3>1, <3>2
  <2> QED  BY <2>1, <2>2, <2>3 DEF DirtyIsQueued
<1>17. Computed'
  <2> SUFFICES ASSUME NEW i \in computed
               PROVE  Retired(i)' \/ (IsLive(i)' /\ (~dirty'[i.slot] \/ i \in OnStack'))
    BY <1>3 DEF Computed
  <2>1. CASE Retired(i)
    BY <1>3, <2>1 DEF Retired
  <2>2. CASE IsLive(i) /\ (~dirty[i.slot] \/ i \in OnStack)
    <3>1. i \in Live /\ IsLive(i)'
      BY <1>3, <2>2, IdFacts DEF TypeOK, IsLive
    <3> QED  BY <1>6, <1>8, <1>14, <2>2, <3>1
  <2> QED  BY <2>1, <2>2 DEF Computed
\* A scope that reads the one that returns was not told of it yet.
<1>18. dirty[t.slot] /\ Yields(t, v)
  BY <1>1, <1>2, <1>3, <1>4, <1>5 DEF Evaluations, IsUnderWay
<1>19. ASSUME NEW i \in Live, NEW x \in Reads(i), Alive(x), Fed(i, x)
       PROVE  Fed(i, x)' /\ Val(x)' = Val(x)
  <2>1. CASE x \in Signals
    BY <1>3, <1>19, <2>1 DEF Fed, Val
  <2>2. CASE x \notin Signals
    <3>1. x \in Live /\ ~dirty[x.slot] /\ x.slot # t.slot /\ x.slot \in Slots
      BY <1>18, <1>19, <2>2, ReadFacts, IdFacts DEF Fed, LiveMemos
    <3> QED  BY <1>3, <1>8, <1>19, <2>2, <3>1 DEF Fed, Val
  <2> QED  BY <2>1, <2>2
<1>20. \A i, x : Alive(x)' = Alive(x) /\ body'[i.slot] = body[i.slot]
  BY <1>3 DEF Alive, IsLive
<1>21. \A i \in Live : \A w : Yields(i, w) => Yields(i, w)'
  <2> SUFFICES ASSUME NEW i \in Live, NEW w, Yields(i, w) PROVE Yields(i, w)'
    OBVIOUS
  <2> QED  BY <1>19, <1>20, YieldsKept
<1>22. Evaluations'
  <2> SUFFICES ASSUME NEW n \in 1 .. Len(stack') PROVE \A g : g = stack'[n] => IsUnderWay(g)'
    BY DEF Evaluations, IsUnderWay, Yields, Alive, Fed, Val
  <2> SUFFICES ASSUME NEW g, g = stack'[n] PROVE IsUnderWay(g)'
    OBVIOUS
  <2>1. n \in 1 .. Len(stack) - 1 /\ n \in 1 .. Len(stack) /\ g = stack[n]
    BY <1>4, <1>5
  <2>2. IsUnderWay(g) /\ g.id \in Live /\ g.id # t
    BY <1>4, <1>13, <2>1 DEF Evaluations
  <2>3. dirty'[g.id.slot]
    BY <1>6, <1>8, <2>2 DEF IsUnderWay
  <2> QED  BY <1>19, <1>20, <2>2, <2>3, UnderWayKept
<1>23. CleanIsFed'
  <2> SUFFICES ASSUME NEW j \in Live, ~dirty'[j.slot] PROVE \A w : w = cache'[j.slot] => Yields(j, w)'
    BY <1>9 DEF CleanIsFed, Yields, Alive, Fed, Val
  <2>1. CASE j = t
    BY <1>6, <1>8, <1>18, <1>21, <2>1
  <2>2. CASE j # t
    <3>1. ~dirty[j.slot] /\ cache'[j.slot] = cache[j.slot]
      BY <1>6, <1>8, <2>2
    <3>2. Yields(j, cache[j.slot])
      BY <3>1 DEF CleanIsFed
    <3> QED  BY <1>21, <3>1, <3>2
  <2> QED  BY <2>1, <2>2
<1> QED  BY <1>9, <1>10, <1>11, <1>12, <1>15, <1>16, <1>17, <1>22, <1>23

(***************************************************************************)
(* Opening, writing and retiring, when nothing is evaluated.                *)
(***************************************************************************)

LEMMA IdleFacts ==
  ASSUME IInv, Idle
  PROVE  /\ stack = << >> /\ ~pulling /\ ran = {} /\ OnStack = {}
         /\ \A n : n \notin 1 .. Len(stack)
         /\ stack \in Seq({})
BY EmptyStack DEF IInv, Idle, Queued

LEMMA DropInvariant ==
  ASSUME IInv, NEW i \in Live, Drop(i)
  PROVE  IInv'
<1> USE DEF IInv
<1>1. /\ Idle
      /\ listeners' = UnlinkListeners(i)
      /\ subs' = [UnlinkSubs(i) EXCEPT ![i.slot] = {}]
      /\ deps' = [s \in Slots |-> IF s = i.slot THEN {}
                                  ELSE IF IdOf(s) \in subs[i.slot] THEN deps[s] \ {i} ELSE deps[s]]
      /\ kind' = [kind EXCEPT ![i.slot] = "free"]
      /\ gen' = [gen EXCEPT ![i.slot] = @ + 1]
      /\ dirty' = [dirty EXCEPT ![i.slot] = FALSE]
      /\ body' = [body EXCEPT ![i.slot] = Nothing]
      /\ cache' = [cache EXCEPT ![i.slot] = Unit]
      /\ free' = Append(free, i.slot)
      /\ UNCHANGED <<value, queue, pulling, ran, stack, opens, computed>>
  BY DEF Drop
<1>2. /\ stack = << >> /\ ~pulling /\ ran = {} /\ OnStack = {}
      /\ \A n : n \notin 1 .. Len(stack)
  BY <1>1, IdleFacts
<1>3. /\ i \in Ids /\ i.slot \in Slots /\ IsScope(i.slot) /\ i = IdOf(i.slot)
      /\ \A j \in Live : j \in Ids /\ j.slot \in Slots /\ (j.slot = i.slot => j = i)
  BY IdFacts
<1>4. /\ kind \in [Slots -> {"none", "memo", "binding", "free"}] /\ gen \in [Slots -> 0 .. MaxOpens]
      /\ opens \in Nat /\ opens <= MaxOpens /\ MaxOpens \in Nat
  BY ConstantFacts DEF TypeOK
<1>5. /\ \A s \in Slots : kind'[s] = IF s = i.slot THEN "free" ELSE kind[s]
      /\ \A s \in Slots : gen'[s] = IF s = i.slot THEN gen[s] + 1 ELSE gen[s]
  BY <1>1, <1>3, <1>4
<1>6. gen[i.slot] + 1 <= opens
  BY <1>3 DEF Counted
<1>7. Live' = Live \ {i} /\ LiveMemos' = LiveMemos \ {i}
  <2>1. \A x \in Ids : x.slot \in Slots
    BY IdFacts
  <2>2. \A x \in Ids : IsLive(x)' <=> IsLive(x) /\ x.slot # i.slot
    BY <1>5, <2>1 DEF IsLive
  <2>3. Live' = Live \ {i}
    BY <1>3, <2>2 DEF Live
  <2>4. \A x \in Live : x # i => kind'[x.slot] = kind[x.slot]
    BY <1>3, <1>5
  <2> QED  BY <2>3, <2>4 DEF LiveMemos
<1>8. \A x \in Ids : (Retired(x) => Retired(x)') /\ (x # i /\ IsLive(x) => IsLive(x)')
      /\ Retired(i)'
  <2>1. \A x \in Ids : x.slot \in Slots /\ x.gen \in Nat /\ gen[x.slot] \in Nat
    BY IdFacts
  <2>2. i.gen = gen[i.slot]
    BY IdFacts DEF IsLive
  <2>3. \A x \in Ids : Retired(x) => Retired(x)'
    BY <1>5, <2>1 DEF Retired
  <2>4. Retired(i)'
    BY <1>3, <1>5, <2>1, <2>2 DEF Retired
  <2>5. \A x \in Ids : x # i /\ IsLive(x) => IsLive(x)'
    BY <1>3, <1>7, IdFacts DEF Live
  <2> QED  BY <2>3, <2>4, <2>5
<1>9. /\ \A g \in Signals : listeners'[g] = listeners[g] \ {i}
      /\ listeners' \in [Signals -> SUBSET Ids]
      /\ \A s \in Slots : subs'[s] = IF s = i.slot THEN {} ELSE subs[s] \ {i}
      /\ subs' \in [Slots -> SUBSET Ids]
  <2>1. /\ UnlinkListeners(i) = [g \in Signals |-> listeners[g] \ {i}]
        /\ UnlinkSubs(i) = [s \in Slots |-> subs[s] \ {i}]
    BY UnlinkFacts
  <2>2. listeners \in [Signals -> SUBSET Ids] /\ subs \in [Slots -> SUBSET Ids]
    BY DEF TypeOK
  <2>3. /\ \A g \in Signals : listeners'[g] = listeners[g] \ {i}
        /\ listeners' \in [Signals -> SUBSET Ids]
    BY <1>1, <2>1, <2>2
  <2>4. PICK u : u = UnlinkSubs(i)
    OBVIOUS
  <2>5. u \in [Slots -> SUBSET Ids] /\ \A s \in Slots : u[s] = subs[s] \ {i}
    BY <2>1, <2>2, <2>4
  <2>6. subs' = [u EXCEPT ![i.slot] = {}]
    BY <1>1, <2>4
  <2> QED  BY <1>3, <2>3, <2>5, <2>6
<1>10. /\ \A s \in Slots : deps'[s] = IF s = i.slot THEN {} ELSE deps[s] \ {i}
       /\ deps' \in [Slots -> SUBSET Sources]
  <2>1. deps \in [Slots -> SUBSET Sources]
    BY DEF TypeOK
  <2>2. \A s \in Slots : IdOf(s) \notin subs[i.slot] => i \notin deps[s]
    <3> SUFFICES ASSUME NEW s \in Slots, i \in deps[s] PROVE IdOf(s) \in subs[i.slot]
      OBVIOUS
    <3>1. IsScope(s)
      BY DEF Unlinked
    <3>2. IdOf(s) \in Live /\ IdOf(s).slot = s
      BY <3>1, IdFacts
    <3> QED  BY <3>2 DEF LinksAreMutual
  <2>3. \A s \in Slots : deps'[s] = IF s = i.slot THEN {}
                                    ELSE IF IdOf(s) \in subs[i.slot] THEN deps[s] \ {i} ELSE deps[s]
    BY <1>1
  <2>4. \A s \in Slots : deps'[s] = IF s = i.slot THEN {} ELSE deps[s] \ {i}
    BY <2>2, <2>3
  <2>5. \A s \in Slots : deps'[s] \in SUBSET Sources
    BY <2>1, <2>4
  <2>6. deps' = [s \in Slots |-> deps'[s]]
    BY <1>1
  <2> QED  BY <2>4, <2>5, <2>6
<1>11. /\ \A s \in Slots : s # i.slot => /\ dirty'[s] = dirty[s] /\ body'[s] = body[s]
                                         /\ cache'[s] = cache[s]
       /\ ~dirty'[i.slot]
  BY <1>1, <1>3 DEF TypeOK
<1>12. TypeOK'
  <2>1. /\ kind' \in [Slots -> {"none", "memo", "binding", "free"}]
        /\ gen' \in [Slots -> 0 .. MaxOpens]
    BY <1>1, <1>3, <1>4, <1>6
  <2>2. /\ body' \in [Slots -> Bodies \cup {Nothing}] /\ cache' \in [Slots -> Results]
        /\ dirty' \in [Slots -> BOOLEAN]
    BY <1>1, <1>3 DEF TypeOK, Results
  <2>3. i.slot \notin Range(free)
    BY <1>3 DEF TypeOK, IsScope
  <2>4. free \in Seq(Slots) /\ IsInjective(free) /\ Range(free) = {s \in Slots : kind[s] = "free"}
    BY DEF TypeOK
  <2>5. /\ free' \in Seq(Slots) /\ Len(free') = Len(free) + 1 /\ Len(free) \in Nat
        /\ \A n \in 1 .. Len(free) : free'[n] = free[n]
        /\ free'[Len(free) + 1] = i.slot
    BY <1>1, <1>3, <2>4
  <2>6. DOMAIN free = 1 .. Len(free) /\ DOMAIN free' = 1 .. Len(free) + 1
    BY <2>4, <2>5
  <2>7. \A n \in 1 .. Len(free) + 1 : n \in 1 .. Len(free) \/ n = Len(free) + 1
    BY <2>5
  <2>8. \A n \in 1 .. Len(free) : free[n] \in Range(free) /\ n \in 1 .. Len(free) + 1
    BY <2>5, <2>6 DEF Range
  <2>9. IsInjective(free')
    BY <2>3, <2>4, <2>5, <2>6, <2>7, <2>8 DEF IsInjective
  <2>10. Range(free') = Range(free) \cup {i.slot}
    <3>1. Len(free) + 1 \in 1 .. Len(free) + 1
      BY <2>5
    <3> QED  BY <2>5, <2>6, <2>7, <2>8, <3>1 DEF Range
  <2>11. Range(free') = {s \in Slots : kind'[s] = "free"}
    BY <1>3, <1>5, <2>4, <2>10
  <2>12. stack' \in Seq([id : Live', at : 1 .. 3, seen : Results])
    BY <1>1, <1>2
  <2> QED  BY <1>1, <1>9, <1>10, <2>1, <2>2, <2>5, <2>9, <2>11, <2>12 DEF TypeOK
<1>13. Counted'
  <2>1. \A s \in Slots : IsScope(s)' <=> IsScope(s) /\ s # i.slot
    BY <1>5 DEF IsScope
  <2>2. \A s \in Slots : gen[s] \in Nat
    BY <1>4
  <2>3. \A s \in Slots : gen'[s] + (IF IsScope(s)' THEN 1 ELSE 0) <= opens'
    <3> SUFFICES ASSUME NEW s \in Slots PROVE gen'[s] + (IF IsScope(s)' THEN 1 ELSE 0) <= opens
      BY <1>1
    <3>1. CASE s = i.slot
      <4>1. ~IsScope(s)' /\ gen'[s] = gen[s] + 1
        BY <1>5, <2>1, <3>1
      <4> QED  BY <1>6, <2>2, <3>1, <4>1
    <3>2. CASE s # i.slot
      BY <1>5, <2>1, <3>2 DEF Counted
    <3> QED  BY <3>1, <3>2
  <2>4. {s \in Slots : kind'[s] # "none"} = {s \in Slots : kind[s] # "none"}
    BY <1>3, <1>5 DEF IsScope
  <2> QED  BY <1>1, <2>3, <2>4 DEF Counted
<1>14. Bodied'
  <2> SUFFICES ASSUME NEW j \in Live, j # i
               PROVE  /\ body'[j.slot] \in Bodies
                      /\ \A x \in Reads(j)' \cap Ids : x \in LiveMemos' \/ Retired(x)'
    BY <1>7 DEF Bodied
  <2>1. body'[j.slot] = body[j.slot]
    BY <1>3, <1>11
  <2>2. Reads(j)' = Reads(j)
    BY <2>1 DEF Reads
  <2> QED  BY <1>7, <1>8, <2>1, <2>2 DEF Bodied
<1>15. Unlinked'
  BY <1>5, <1>9, <1>10 DEF Unlinked, IsScope
<1>16. LinksAreMutual'
  <2>1. \A g \in Signals : g # i
    BY <1>3, ConstantFacts
  <2>2. \A g \in Signals : listeners'[g] = {j \in Live \ {i} : g \in deps'[j.slot]}
    BY <1>3, <1>9, <1>10, <2>1 DEF LinksAreMutual
  <2>3. \A m \in Live \ {i} : subs'[m.slot] = {j \in Live \ {i} : m \in deps'[j.slot]}
    BY <1>3, <1>9, <1>10 DEF LinksAreMutual
  <2>4. \A s \in Slots : deps'[s] \cap Ids \subseteq LiveMemos \ {i}
    BY <1>10 DEF LinksAreMutual
  <2> QED  BY <1>7, <2>2, <2>3, <2>4 DEF LinksAreMutual
<1>17. Acyclic'
  <2>1. PICK rank \in [Slots -> 0 .. opens] :
          \A j \in Live : \A x \in Reads(j) \cap Live : rank[x.slot] < rank[j.slot]
    BY DEF Acyclic
  <2>2. \A j \in Live' : Reads(j)' = Reads(j)
    BY <1>3, <1>7, <1>11 DEF Reads
  <2>3. \A j \in Live' : \A x \in Reads(j)' \cap Live' : rank[x.slot] < rank[j.slot]
    BY <1>7, <2>1, <2>2
  <2>4. rank \in [Slots -> 0 .. opens'] /\ \A n : n \notin 1 .. Len(stack')
    BY <1>1, <1>2, <2>1
  <2> QED  BY <2>3, <2>4 DEF Acyclic
<1>18. Queued'
  <2>1. \A x \in queue : Retired(x)' \/ (IsLive(x)' /\ kind'[x.slot] = "binding" /\ dirty'[x.slot])
    <3> SUFFICES ASSUME NEW x \in queue, ~Retired(x)'
                 PROVE  IsLive(x)' /\ kind'[x.slot] = "binding" /\ dirty'[x.slot]
      OBVIOUS
    <3>1. x \in Ids
      BY DEF TypeOK
    <3>2. x # i /\ IsLive(x) /\ kind[x.slot] = "binding" /\ dirty[x.slot]
      BY <1>8, <3>1 DEF Queued
    <3>3. x.slot # i.slot /\ x.slot \in Slots
      BY <1>3, <3>1, <3>2, IdFacts
    <3> QED  BY <1>5, <1>8, <1>11, <3>1, <3>2, <3>3
  <2>2. OnStack' = {}
    BY <1>1, <1>2 DEF OnStack
  <2> QED  BY <1>1, <1>2, <2>1, <2>2 DEF Queued
<1>19. DirtyIsQueued'
  BY <1>1, <1>3, <1>5, <1>7, <1>11 DEF DirtyIsQueued
<1>20. Computed'
  <2> SUFFICES ASSUME NEW x \in computed, ~Retired(x)'
               PROVE  IsLive(x)' /\ ~dirty'[x.slot]
    BY <1>1 DEF Computed
  <2>1. x \in Ids
    BY DEF TypeOK
  <2>2. x # i /\ IsLive(x) /\ ~dirty[x.slot]
    BY <1>2, <1>8, <2>1 DEF Computed
  <2>3. x.slot # i.slot /\ x.slot \in Slots
    BY <1>3, <2>1, <2>2, IdFacts
  <2> QED  BY <1>8, <1>11, <2>1, <2>2, <2>3
<1>21. Evaluations'
  BY <1>1, <1>2 DEF Evaluations
<1>22. CleanIsFed'
  <2> SUFFICES ASSUME NEW j \in Live, j # i, ~dirty'[j.slot], NEW w, w = cache'[j.slot]
               PROVE  Yields(j, w)'
    BY <1>7 DEF CleanIsFed, Yields, Alive, Fed, Val
  <2>1. j.slot # i.slot /\ j.slot \in Slots
    BY <1>3
  <2>2. Yields(j, w)
    BY <1>11, <2>1 DEF CleanIsFed
  <2>3. body'[j.slot] = body[j.slot] /\ deps'[j.slot] = deps[j.slot] \ {i}
    BY <1>10, <1>11, <2>1
  <2>4. \A x \in Reads(j) : Alive(x)' => Alive(x) /\ x # i
    <3>1. \A x \in Reads(j) : x \in Signals \/ x \in Ids
      BY ReadFacts DEF Sources
    <3>2. \A x \in Ids : IsLive(x)' => x \in Live \ {i}
      BY <1>7 DEF Live
    <3> QED  BY <1>3, <3>1, <3>2, ConstantFacts, IdFacts DEF Alive
  <2>5. ASSUME NEW x \in Reads(j), Alive(x)', Fed(j, x) PROVE Fed(j, x)' /\ Val(x)' = Val(x)
    <3>1. x # i /\ Alive(x)
      BY <2>4, <2>5
    <3>2. x \in deps'[j.slot]
      BY <2>3, <2>5, <3>1 DEF Fed
    <3>3. CASE x \in Signals
      BY <1>1, <3>2, <3>3 DEF Fed, Val
    <3>4. CASE x \notin Signals
      <4>1. x \in Live /\ x.slot # i.slot /\ x.slot \in Slots
        BY <1>3, <3>1, <3>4, ReadFacts DEF LiveMemos
      <4>2. ~dirty'[x.slot] /\ cache'[x.slot] = cache[x.slot]
        BY <1>11, <2>5, <3>4, <4>1 DEF Fed
      <4> QED  BY <3>2, <3>4, <4>2 DEF Fed, Val
    <3> QED  BY <3>3, <3>4
  <2> QED  BY <2>2, <2>3, <2>4, <2>5, YieldsKept
<1> QED  BY <1>12, <1>13, <1>14, <1>15, <1>16, <1>17, <1>18, <1>19, <1>20, <1>21, <1>22

LEMMA WriteInvariant ==
  ASSUME IInv, NEW g \in Signals, NEW v \in Values, Write(g, v)
  PROVE  IInv'
<1> USE DEF IInv
<1>0. PICK marked : marked = Cascade(listeners[g])
  OBVIOUS
<1>1. /\ Idle
      /\ value' = [value EXCEPT ![g] = v]
      /\ dirty' = [s \in Slots |-> dirty[s] \/ \E i \in marked : i.slot = s]
      /\ queue' = queue \cup {i \in marked : kind[i.slot] = "binding"}
      /\ computed' = {}
      /\ UNCHANGED <<listeners, kind, gen, body, cache, deps, subs, free, pulling, ran, stack, opens>>
  BY <1>0 DEF Write
<1>2. /\ stack = << >> /\ ~pulling /\ ran = {} /\ OnStack = {}
      /\ \A n : n \notin 1 .. Len(stack)
  BY <1>1, IdleFacts
<1>3. listeners[g] \in SUBSET Ids
  BY DEF TypeOK
<1>4. /\ \A i \in listeners[g] : IsLive(i) /\ ~dirty[i.slot] => i \in marked
      /\ \A i \in marked : i \in Live /\ ~dirty[i.slot]
      /\ Readers(marked) \subseteq marked
  BY <1>0, <1>3, CascadeFacts DEF Unmarked
<1>5. Live' = Live /\ LiveMemos' = LiveMemos /\ Counted' /\ Bodied'
  BY <1>1, SameScopes, SameBodies
<1>6. /\ \A i \in Live : i \in Ids /\ IsLive(i) /\ i.slot \in Slots
      /\ \A i, j \in Live : i.slot = j.slot => i = j
  BY IdFacts
<1>7. \A i \in Live : dirty'[i.slot] <=> dirty[i.slot] \/ i \in marked
  BY <1>1, <1>4, <1>6
<1>8. TypeOK'
  <2>1. value' \in [Signals -> Values] /\ queue' \subseteq Ids
    BY <1>1, <1>4, <1>6 DEF TypeOK
  <2>2. dirty' \in [Slots -> BOOLEAN]
    <3>1. dirty \in [Slots -> BOOLEAN]
      BY DEF TypeOK
    <3> QED  BY <1>1, <3>1
  <2> QED  BY <1>1, <1>5, <2>1, <2>2 DEF TypeOK
<1>9. Unlinked' /\ LinksAreMutual'
  BY <1>1, <1>5 DEF Unlinked, IsScope, LinksAreMutual
<1>10. Acyclic'
  BY <1>1, <1>5 DEF Acyclic, Reads
<1>11. Queued'
  <2>1. ASSUME NEW i \in queue'
        PROVE  Retired(i)' \/ (IsLive(i)' /\ kind'[i.slot] = "binding" /\ dirty'[i.slot])
    <3>1. CASE i \in marked /\ kind[i.slot] = "binding"
      BY <1>1, <1>4, <1>6, <1>7, <3>1 DEF IsLive
    <3>2. CASE i \in queue /\ Retired(i)
      BY <1>1, <3>2 DEF Retired
    <3>3. CASE i \in queue /\ IsLive(i) /\ kind[i.slot] = "binding" /\ dirty[i.slot]
      <4>1. i \in Live
        BY <3>3, IdFacts DEF TypeOK
      <4> QED  BY <1>1, <1>7, <3>3, <4>1 DEF IsLive
    <3> QED  BY <1>1, <2>1, <3>1, <3>2, <3>3 DEF Queued
  <2>2. OnStack' = {}
    BY <1>1, <1>2 DEF OnStack
  <2> QED  BY <1>1, <1>2, <2>1, <2>2 DEF Queued
<1>12. DirtyIsQueued'
  BY <1>1, <1>2, <1>5, <1>7 DEF DirtyIsQueued
<1>13. Computed' /\ Evaluations'
  BY <1>1, <1>2 DEF Computed, Evaluations
<1>14. CleanIsFed'
  <2> SUFFICES ASSUME NEW j \in Live, ~dirty'[j.slot], NEW w, w = cache[j.slot]
               PROVE  Yields(j, w)'
    BY <1>1, <1>5 DEF CleanIsFed, Yields, Alive, Fed, Val
  <2>1. ~dirty[j.slot] /\ j \notin marked /\ Yields(j, w)
    BY <1>7 DEF CleanIsFed
  <2>2. \A x : Alive(x)' = Alive(x)
    BY <1>1 DEF Alive, IsLive
  <2>3. ASSUME NEW x \in Reads(j), Alive(x), Fed(j, x) PROVE Fed(j, x)' /\ Val(x)' = Val(x)
    <3>1. CASE x \in Signals
      <4>1. j \in listeners[x]
        BY <2>3, <3>1 DEF Fed, LinksAreMutual
      <4>2. x # g
        BY <1>4, <1>6, <2>1, <4>1
      <4>3. value'[x] = value[x]
        BY <1>1, <3>1, <4>2 DEF TypeOK
      <4> QED  BY <1>1, <2>3, <3>1, <4>3 DEF Fed, Val
    <3>2. CASE x \notin Signals
      <4>1. x \in LiveMemos /\ x \in Live /\ kind[x.slot] = "memo"
        BY <2>3, <3>2, ReadFacts DEF LiveMemos
      <4>2. j \in subs[x.slot]
        BY <2>3, <4>1 DEF Fed, LinksAreMutual
      <4>3. x \notin marked
        <5> SUFFICES ASSUME x \in marked PROVE FALSE
          OBVIOUS
        <5>1. j \in UNION {subs[i.slot] : i \in {k \in marked : kind[k.slot] = "memo"}}
          BY <4>1, <4>2
        <5>2. j \in Readers(marked)
          BY <1>6, <2>1, <5>1 DEF Readers, Unmarked
        <5> QED  BY <1>4, <2>1, <5>2
      <4>4. ~dirty'[x.slot]
        BY <1>7, <2>3, <3>2, <4>1, <4>3 DEF Fed
      <4> QED  BY <1>1, <2>3, <3>2, <4>4 DEF Fed, Val
    <3> QED  BY <3>1, <3>2
  <2> QED  BY <1>1, <2>1, <2>2, <2>3, YieldsKept
<1> QED  BY <1>5, <1>8, <1>9, <1>10, <1>11, <1>12, <1>13, <1>14

\* There is a slot that was never used, and a first one, while scopes may be
\* opened and none was given back.
LEMMA UnusedSlot ==
  ASSUME TypeOK, Counted, opens < MaxOpens
  PROVE  LET n == CHOOSE n \in Slots : kind[n] = "none" /\ \A m \in 1 .. n - 1 : kind[m] # "none"
         IN  n \in Slots /\ kind[n] = "none"
<1> DEFINE Used == {s \in Slots : kind[s] # "none"}
<1> DEFINE Unused == {s \in Slots : kind[s] = "none"}
<1>1. MaxOpens \in Nat /\ MaxOpens >= 1 /\ Slots = 1 .. MaxOpens /\ opens \in Nat
  BY ConstantFacts DEF TypeOK
<1>2. Unused # {}
  <2> SUFFICES ASSUME Used = Slots PROVE FALSE
    OBVIOUS
  <2>1. Cardinality(1 .. MaxOpens) = IF 1 > MaxOpens THEN 0 ELSE MaxOpens - 1 + 1
    BY <1>1, FS_Interval
  <2>2. Cardinality(Slots) = MaxOpens
    BY <1>1, <2>1
  <2>3. Cardinality(Used) <= opens
    BY DEF Counted
  <2> HIDE DEF Used
  <2> QED  BY <1>1, <2>2, <2>3
<1>3. Unused \subseteq Nat
  BY <1>1
<1>4. PICK n \in Unused : \A m \in Unused : ~(<<m, n>> \in OpToRel(<, Nat))
  <2> HIDE DEF Unused
  <2> QED  BY <1>2, <1>3, NatLessThanWellFounded, WFMin
<1>5. \A m \in 1 .. n - 1 : kind[m] # "none"
  <2> SUFFICES ASSUME NEW m \in 1 .. n - 1, kind[m] = "none" PROVE FALSE
    OBVIOUS
  <2>1. m \in Unused /\ m < n
    BY <1>1
  <2> QED  BY <1>3, <1>4, <2>1 DEF OpToRel
<1> QED  BY <1>5

\* The slot the next scope is opened in.
NextSlot ==
  IF free # << >> THEN free[Len(free)]
  ELSE CHOOSE n \in Slots : kind[n] = "none" /\ \A m \in 1 .. n - 1 : kind[m] # "none"

\* It is empty, whichever list it comes from.
LEMMA SlotFacts ==
  ASSUME IInv, opens < MaxOpens, NEW s, s = NextSlot
  PROVE  /\ s \in Slots /\ ~IsScope(s)
         /\ FreeAfterOpen \in Seq(Slots) /\ IsInjective(FreeAfterOpen)
         /\ Range(FreeAfterOpen) = Range(free) \ {s}
<1> USE DEF IInv
<1>1. free \in Seq(Slots) /\ IsInjective(free) /\ Range(free) = {n \in Slots : kind[n] = "free"}
  BY DEF TypeOK
<1>2. CASE free = << >>
  <2>1. s \in Slots /\ kind[s] = "none"
    BY <1>2, UnusedSlot DEF NextSlot
  <2>2. FreeAfterOpen = free /\ s \notin Range(free)
    BY <1>1, <1>2, <2>1 DEF FreeAfterOpen
  <2> QED  BY <1>1, <2>1, <2>2 DEF IsScope
<1>3. CASE free # << >>
  <2> DEFINE front == SubSeq(free, 1, Len(free) - 1)
  <2>1. /\ Len(free) \in Nat /\ Len(free) >= 1 /\ free[Len(free)] \in Slots
        /\ front \in Seq(Slots) /\ Len(front) = Len(free) - 1
        /\ \A n \in 1 .. Len(free) - 1 : front[n] = free[n]
    BY <1>1, <1>3, FrontFacts
  <2>2. s = free[Len(free)] /\ FreeAfterOpen = front
    BY <1>3 DEF FreeAfterOpen, NextSlot
  <2> HIDE DEF front
  <2>3. DOMAIN free = 1 .. Len(free) /\ DOMAIN front = 1 .. Len(free) - 1
    BY <1>1, <2>1
  <2>4. /\ Len(free) \in DOMAIN free
        /\ \A n \in DOMAIN front : n \in DOMAIN free /\ n # Len(free) /\ front[n] = free[n]
        /\ \A n \in DOMAIN free : n \in DOMAIN front \/ n = Len(free)
    BY <2>1, <2>3
  <2>5. s \in Range(free) /\ ~IsScope(s)
    BY <1>1, <2>2, <2>4 DEF Range, IsScope
  <2>6. IsInjective(front)
    BY <1>1, <2>4 DEF IsInjective
  <2>7. Range(front) = Range(free) \ {s}
    BY <1>1, <2>2, <2>4 DEF Range, IsInjective
  <2> QED  BY <2>1, <2>2, <2>5, <2>6, <2>7
<1> QED  BY <1>2, <1>3

LEMMA OpenInvariant ==
  ASSUME IInv, NEW k \in {"memo", "binding"}, NEW b \in Readings, Open(k, b)
  PROVE  IInv'
<1> USE DEF IInv
<1>0. PICK s : s = NextSlot
  OBVIOUS
<1>n. PICK new : new = IdOf(s)
  OBVIOUS
<1>1. /\ Idle /\ opens < MaxOpens
      /\ free' = FreeAfterOpen
      /\ kind' = [kind EXCEPT ![s] = k]
      /\ body' = [body EXCEPT ![s] = b]
      /\ cache' = [cache EXCEPT ![s] = Unit]
      /\ dirty' = [dirty EXCEPT ![s] = TRUE]
      /\ ran' = ran \ {s}
      /\ queue' = IF k = "binding" THEN queue \cup {new} ELSE queue
      /\ opens' = opens + 1
      /\ UNCHANGED <<value, listeners, gen, deps, subs, pulling, stack, computed>>
  BY <1>0, <1>n DEF Open, NextSlot
<1>2. /\ stack = << >> /\ ~pulling /\ ran = {} /\ OnStack = {}
      /\ \A n : n \notin 1 .. Len(stack)
  BY <1>1, IdleFacts
<1>3. /\ s \in Slots /\ ~IsScope(s)
      /\ FreeAfterOpen \in Seq(Slots) /\ IsInjective(FreeAfterOpen)
      /\ Range(FreeAfterOpen) = Range(free) \ {s}
  BY <1>0, <1>1, SlotFacts
<1>4. new \in Ids /\ new.slot = s /\ new.gen = gen[s] /\ new \notin Live /\ ~Retired(new)
  BY <1>3, <1>n, IdFacts DEF IdOf, Retired
<1>5. \A j \in Live : j \in Ids /\ j.slot \in Slots /\ j.slot # s /\ IsScope(j.slot)
  BY <1>3, IdFacts
<1>6. /\ kind \in [Slots -> {"none", "memo", "binding", "free"}] /\ gen \in [Slots -> 0 .. MaxOpens]
      /\ opens \in Nat /\ MaxOpens \in Nat
      /\ dirty \in [Slots -> BOOLEAN] /\ cache \in [Slots -> Results]
      /\ body \in [Slots -> Bodies \cup {Nothing}]
  BY ConstantFacts DEF TypeOK
<1>7. /\ kind'[s] = k /\ body'[s] = b /\ dirty'[s] /\ cache'[s] = Unit
      /\ \A r \in Slots : r # s => /\ kind'[r] = kind[r] /\ body'[r] = body[r]
                                   /\ dirty'[r] = dirty[r] /\ cache'[r] = cache[r]
  BY <1>1, <1>3, <1>6
<1>8. /\ Live' = Live \cup {new} /\ LiveMemos \subseteq LiveMemos'
      /\ \A x \in Ids : Retired(x)' = Retired(x) /\ (IsLive(x) => IsLive(x)')
      /\ \A x \in Ids : IsLive(x)' => IsLive(x) \/ x = new
  <2>1. \A x \in Ids : x.slot \in Slots /\ (x.slot = s /\ x.gen = gen[s] => x = new)
    <3>1. \A x \in Ids : x = [slot |-> x.slot, gen |-> x.gen]
      BY DEF Ids
    <3> QED  BY <1>n, <3>1, IdFacts DEF IdOf
  <2>2. \A x \in Ids : IsLive(x)' <=> IsLive(x) \/ x = new
    BY <1>1, <1>3, <1>4, <1>7, <2>1 DEF IsLive, IsScope
  <2>3. Live' = Live \cup {new}
    BY <1>4, <2>2 DEF Live
  <2>4. LiveMemos \subseteq LiveMemos'
    BY <1>5, <1>7, <2>3 DEF LiveMemos
  <2>5. \A x \in Ids : Retired(x)' = Retired(x)
    BY <1>1 DEF Retired
  <2> QED  BY <2>2, <2>3, <2>4, <2>5
<1>9. /\ b.test \in Sources /\ b.then \in Sources /\ b \in Bodies
      /\ \A x \in {b.test, b.then} : x \in Signals \/ x \in LiveMemos
  <2>1. LiveMemos \subseteq Ids
    BY DEF LiveMemos, Live
  <2> QED  BY <2>1 DEF Readings, InScope, Bodies, Sources
<1>10. deps[s] = {} /\ subs[s] = {}
  BY <1>3 DEF Unlinked
<1>11. TypeOK'
  <2>1. /\ kind' \in [Slots -> {"none", "memo", "binding", "free"}]
        /\ dirty' \in [Slots -> BOOLEAN] /\ cache' \in [Slots -> Results]
    BY <1>1, <1>3, <1>6 DEF Results
  <2>2. body' \in [Slots -> Bodies \cup {Nothing}]
    BY <1>1, <1>3, <1>6, <1>9
  <2>3. Range(free') = {r \in Slots : kind'[r] = "free"}
    <3>1. Range(free) = {r \in Slots : kind[r] = "free"}
      BY DEF TypeOK
    <3> QED  BY <1>1, <1>3, <1>7, <3>1
  <2>4. queue' \subseteq Ids /\ ran' \subseteq Slots
    BY <1>1, <1>4 DEF TypeOK
  <2>5. opens' \in 0 .. MaxOpens
    BY <1>1, <1>6
  <2>6. stack' \in Seq([id : Live', at : 1 .. 3, seen : Results])
    BY <1>1, <1>2
  <2> QED  BY <1>1, <1>3, <2>1, <2>2, <2>3, <2>4, <2>5, <2>6 DEF TypeOK
<1>12. Counted'
  <2>1. \A r \in Slots : gen'[r] + (IF IsScope(r)' THEN 1 ELSE 0) <= opens'
    <3> SUFFICES ASSUME NEW r \in Slots PROVE gen[r] + (IF IsScope(r)' THEN 1 ELSE 0) <= opens + 1
      BY <1>1
    <3>1. gen[r] \in Nat /\ gen[r] + (IF IsScope(r) THEN 1 ELSE 0) <= opens
      BY <1>6 DEF Counted
    <3>2. CASE r = s
      <4>1. gen[r] <= opens
        BY <1>3, <3>1, <3>2
      <4> QED  BY <1>6, <3>1, <4>1
    <3>3. CASE r # s
      <4>1. IsScope(r)' = IsScope(r)
        BY <1>7, <3>3 DEF IsScope
      <4> QED  BY <1>6, <3>1, <4>1
    <3> QED  BY <3>2, <3>3
  <2>2. Cardinality({r \in Slots : kind'[r] # "none"}) <= opens'
    <3> DEFINE used == {r \in Slots : kind[r] # "none"}
    <3> DEFINE now == {r \in Slots : kind'[r] # "none"}
    <3>1. now = used \cup {s}
      BY <1>3, <1>7
    <3>2. IsFiniteSet(Slots)
      BY ConstantFacts, FS_Interval
    <3>3. IsFiniteSet(used)
      BY <3>2, FS_Subset
    <3>4. Cardinality(used) <= opens
      BY DEF Counted
    <3> HIDE DEF used, now
    <3>5. Cardinality(used) \in Nat
      BY <3>3, FS_CardinalityType
    <3>6. Cardinality(now) = IF s \in used THEN Cardinality(used) ELSE Cardinality(used) + 1
      BY <3>1, <3>3, FS_AddElement
    <3>7. Cardinality(now) <= opens + 1
      BY <1>6, <3>4, <3>5, <3>6
    <3> QED  BY <1>1, <3>7 DEF now
  <2> QED  BY <2>1, <2>2 DEF Counted
<1>13. \A j \in Live : Reads(j)' = Reads(j) /\ new \notin Reads(j)
  <2>1. \A j \in Live : Reads(j)' = Reads(j)
    BY <1>5, <1>7 DEF Reads
  <2>2. \A j \in Live : new \notin Reads(j)
    <3>1. new \notin Signals /\ new \notin LiveMemos
      BY <1>4, ConstantFacts DEF LiveMemos
    <3> QED  BY <1>4, <3>1, ReadFacts
  <2> QED  BY <2>1, <2>2
<1>14. Reads(new)' = {b.test, b.then} /\ new \notin {b.test, b.then}
  <2>1. new \notin Signals /\ new \notin LiveMemos
    BY <1>4, ConstantFacts DEF LiveMemos
  <2> QED  BY <1>4, <1>7, <1>9, <2>1 DEF Reads
<1>15. Bodied'
  <2>1. ASSUME NEW j \in Live
        PROVE  /\ body'[j.slot] \in Bodies
               /\ \A x \in Reads(j)' \cap Ids : x \in LiveMemos' \/ Retired(x)'
    BY <1>5, <1>7, <1>8, <1>13 DEF Bodied
  <2>2. /\ body'[new.slot] \in Bodies
        /\ \A x \in Reads(new)' \cap Ids : x \in LiveMemos' \/ Retired(x)'
    BY <1>4, <1>7, <1>8, <1>9, <1>14, ConstantFacts
  <2> QED  BY <1>8, <2>1, <2>2 DEF Bodied
<1>16. Unlinked'
  BY <1>1, <1>7, <1>10 DEF Unlinked, IsScope
<1>17. LinksAreMutual'
  <2>1. \A g \in Signals : listeners'[g] = {j \in Live' : g \in deps'[j.slot]}
    BY <1>1, <1>4, <1>8, <1>10 DEF LinksAreMutual
  <2>2. \A m \in Live : subs'[m.slot] = {j \in Live' : m \in deps'[j.slot]}
    BY <1>1, <1>4, <1>8, <1>10 DEF LinksAreMutual
  <2>3. subs'[new.slot] = {j \in Live' : new \in deps'[j.slot]}
    <3>1. \A r \in Slots : new \notin deps[r]
      BY <1>4 DEF LinksAreMutual, LiveMemos
    <3> QED  BY <1>1, <1>3, <1>4, <1>5, <1>8, <1>10, <3>1
  <2>4. \A r \in Slots : deps'[r] \cap Ids \subseteq LiveMemos'
    BY <1>1, <1>8 DEF LinksAreMutual
  <2> QED  BY <1>8, <2>1, <2>2, <2>3, <2>4 DEF LinksAreMutual
<1>18. Acyclic'
  <2>1. PICK rank \in [Slots -> 0 .. opens] :
          \A j \in Live : \A x \in Reads(j) \cap Live : rank[x.slot] < rank[j.slot]
    BY DEF Acyclic
  <2> DEFINE high == [rank EXCEPT ![s] = opens + 1]
  <2>2. /\ high \in [Slots -> 0 .. opens + 1] /\ high[s] = opens + 1
        /\ \A r \in Slots : r # s => high[r] = rank[r] /\ high[r] < opens + 1
    BY <1>3, <1>6, <2>1
  <2> HIDE DEF high
  <2>3. ASSUME NEW j \in Live', NEW x \in Reads(j)' \cap Live' PROVE high[x.slot] < high[j.slot]
    <3>1. CASE j = new
      <4>1. x \in Live
        BY <1>8, <1>14, <2>3, <3>1
      <4> QED  BY <1>4, <1>5, <2>2, <3>1, <4>1
    <3>2. CASE j \in Live
      <4>1. x \in Reads(j) /\ x \in Live
        BY <1>8, <1>13, <2>3, <3>2
      <4> QED  BY <1>5, <2>1, <2>2, <3>2, <4>1
    <3> QED  BY <1>8, <2>3, <3>1, <3>2
  <2>4. high \in [Slots -> 0 .. opens'] /\ \A n : n \notin 1 .. Len(stack')
    BY <1>1, <1>2, <2>2
  <2> QED  BY <2>3, <2>4 DEF Acyclic
<1>19. Queued'
  <2>1. ASSUME NEW x \in queue'
        PROVE  Retired(x)' \/ (IsLive(x)' /\ kind'[x.slot] = "binding" /\ dirty'[x.slot])
    <3>1. CASE x = new /\ k = "binding"
      BY <1>4, <1>7, <1>8, <3>1, IdFacts DEF Live
    <3>2. CASE x \in queue
      <4>1. x \in Ids
        BY <3>2 DEF TypeOK
      <4>2. CASE Retired(x)
        BY <1>8, <4>1, <4>2
      <4>3. CASE IsLive(x) /\ kind[x.slot] = "binding" /\ dirty[x.slot]
        <5>1. x \in Live
          BY <4>1, <4>3, IdFacts
        <5> QED  BY <1>5, <1>7, <1>8, <4>1, <4>3, <5>1
      <4> QED  BY <3>2, <4>2, <4>3 DEF Queued
    <3> QED  BY <1>1, <2>1, <3>1, <3>2
  <2>2. OnStack' = {} /\ ran' = {}
    BY <1>1, <1>2 DEF OnStack
  <2> QED  BY <2>1, <2>2 DEF Queued
<1>20. DirtyIsQueued'
  <2> SUFFICES ASSUME NEW j \in Live', kind'[j.slot] = "binding", dirty'[j.slot]
               PROVE  j \in queue'
    BY DEF DirtyIsQueued
  <2>1. CASE j = new
    BY <1>1, <1>4, <1>7, <2>1
  <2>2. CASE j \in Live
    BY <1>1, <1>2, <1>5, <1>7, <2>2 DEF DirtyIsQueued
  <2> QED  BY <1>8, <2>1, <2>2
<1>21. Computed'
  <2> SUFFICES ASSUME NEW x \in computed PROVE Retired(x)' \/ (IsLive(x)' /\ ~dirty'[x.slot])
    BY <1>1 DEF Computed
  <2>1. x \in Ids
    BY DEF TypeOK
  <2>2. CASE Retired(x)
    BY <1>8, <2>1, <2>2
  <2>3. CASE IsLive(x) /\ ~dirty[x.slot]
    <3>1. x \in Live
      BY <2>1, <2>3, IdFacts
    <3> QED  BY <1>5, <1>7, <1>8, <2>1, <2>3, <3>1
  <2> QED  BY <1>2, <2>2, <2>3 DEF Computed
<1>22. Evaluations'
  BY <1>1, <1>2 DEF Evaluations
<1>23. CleanIsFed'
  <2> SUFFICES ASSUME NEW j \in Live', ~dirty'[j.slot], NEW w, w = cache'[j.slot]
               PROVE  Yields(j, w)'
    BY DEF CleanIsFed, Yields, Alive, Fed, Val
  <2>1. j \in Live /\ j # new
    BY <1>4, <1>7, <1>8
  <2>2. Yields(j, w) /\ body'[j.slot] = body[j.slot]
    BY <1>5, <1>7, <2>1 DEF CleanIsFed
  <2>3. \A x \in Reads(j) : Alive(x)' => Alive(x)
    <3>1. \A x \in Reads(j) : x # new /\ (x \in Signals \/ x \in Ids)
      BY <1>13, <2>1, ReadFacts DEF Sources
    <3> QED  BY <1>8, <3>1 DEF Alive
  <2>4. ASSUME NEW x \in Reads(j), Alive(x)', Fed(j, x) PROVE Fed(j, x)' /\ Val(x)' = Val(x)
    <3>1. CASE x \in Signals
      BY <1>1, <2>4, <3>1 DEF Fed, Val
    <3>2. CASE x \notin Signals
      <4>1. x \in Live
        BY <2>1, <2>3, <2>4, <3>2, ReadFacts DEF LiveMemos
      <4> QED  BY <1>1, <1>5, <1>7, <2>4, <3>2, <4>1 DEF Fed, Val
    <3> QED  BY <3>1, <3>2
  <2> QED  BY <2>2, <2>3, <2>4, YieldsKept
<1> QED  BY <1>11, <1>12, <1>15, <1>16, <1>17, <1>18, <1>19, <1>20, <1>21, <1>22, <1>23

LEMMA InitInvariant == Init => IInv
<1> SUFFICES ASSUME Init PROVE IInv
  OBVIOUS
<1>1. /\ value \in [Signals -> Values]
      /\ listeners = [g \in Signals |-> {}]
      /\ kind = [s \in Slots |-> "none"]
      /\ gen = [s \in Slots |-> 0]
      /\ body = [s \in Slots |-> Nothing]
      /\ cache = [s \in Slots |-> Unit]
      /\ dirty = [s \in Slots |-> FALSE]
      /\ deps = [s \in Slots |-> {}]
      /\ subs = [s \in Slots |-> {}]
      /\ free = << >> /\ queue = {} /\ pulling = FALSE
      /\ ran = {} /\ stack = << >> /\ opens = 0 /\ computed = {}
  BY DEF Init
<1>2. MaxOpens \in Nat
  BY ConstantFacts
<1>3. Live = {} /\ LiveMemos = {}
  <2>1. \A x \in Ids : x.slot \in Slots
    BY DEF Ids
  <2>2. Live = {}
    BY <1>1, <2>1 DEF Live, IsLive
  <2> QED  BY <2>2 DEF LiveMemos
<1>4. \A n : n \notin 1 .. Len(stack)
  BY <1>1, EmptyStack
<1>5. TypeOK
  <2>1. free \in Seq(Slots) /\ IsInjective(free) /\ Range(free) = {s \in Slots : kind[s] = "free"}
    <3>1. DOMAIN free = {}
      BY <1>1
    <3>2. Range(free) = {}
      BY <3>1 DEF Range
    <3>3. \A s \in Slots : kind[s] # "free"
      BY <1>1
    <3> QED  BY <1>1, <3>1, <3>2, <3>3 DEF IsInjective
  <2>2. stack \in Seq([id : Live, at : 1 .. 3, seen : Results])
    BY <1>1
  <2>3. /\ kind \in [Slots -> {"none", "memo", "binding", "free"}]
        /\ gen \in [Slots -> 0 .. MaxOpens] /\ body \in [Slots -> Bodies \cup {Nothing}]
        /\ cache \in [Slots -> Results] /\ dirty \in [Slots -> BOOLEAN]
        /\ deps \in [Slots -> SUBSET Sources] /\ subs \in [Slots -> SUBSET Ids]
        /\ listeners \in [Signals -> SUBSET Ids]
    BY <1>1, <1>2 DEF Results
  <2>4. value \in [Signals -> Values]
    BY <1>1
  <2>5. queue \subseteq Ids /\ ran \subseteq Slots /\ computed \subseteq Ids
    BY <1>1
  <2>6. pulling \in BOOLEAN
    BY <1>1
  <2>7. opens \in 0 .. MaxOpens
    BY <1>1, <1>2
  <2> QED  BY <2>1, <2>2, <2>3, <2>4, <2>5, <2>6, <2>7 DEF TypeOK
<1>6. Counted
  <2>1. \A s \in Slots : gen[s] = 0 /\ ~IsScope(s)
    BY <1>1 DEF IsScope
  <2>2. {s \in Slots : kind[s] # "none"} = {}
    BY <1>1
  <2>3. \A s \in Slots : gen[s] + (IF IsScope(s) THEN 1 ELSE 0) <= opens
    BY <1>1, <2>1
  <2> DEFINE used == {s \in Slots : kind[s] # "none"}
  <2>4. Cardinality(used) <= opens
    <3>1. used = {} /\ opens = 0
      BY <1>1, <2>2
    <3>2. Cardinality({}) = 0
      BY FS_EmptySet
    <3> HIDE DEF used
    <3>3. Cardinality(used) = 0
      BY <3>1, <3>2
    <3> QED  BY <3>1, <3>3
  <2> QED  BY <2>3, <2>4 DEF Counted
<1>7. Bodied /\ Unlinked /\ LinksAreMutual
  BY <1>1, <1>3 DEF Bodied, Unlinked, LinksAreMutual
<1>8. Acyclic
  <2> DEFINE rank == [s \in Slots |-> 0]
  <2>1. rank \in [Slots -> 0 .. opens]
    BY <1>1
  <2> HIDE DEF rank
  <2> QED  BY <1>3, <1>4, <2>1 DEF Acyclic
<1>9. Queued /\ DirtyIsQueued /\ Computed /\ Evaluations /\ CleanIsFed
  BY <1>1, <1>3, <1>4 DEF Queued, DirtyIsQueued, Computed, Evaluations, CleanIsFed
<1> QED  BY <1>5, <1>6, <1>7, <1>8, <1>9 DEF IInv

LEMMA StutterInvariant == IInv /\ UNCHANGED vars => IInv'
<1> SUFFICES ASSUME IInv, UNCHANGED vars PROVE IInv'
  OBVIOUS
<1> USE DEF IInv
<1>1. UNCHANGED <<value, listeners, kind, gen, body, cache, dirty, deps, subs, free,
                  queue, pulling, ran, stack, opens, computed>>
  BY DEF vars
<1>2. Live' = Live /\ LiveMemos' = LiveMemos /\ Counted' /\ Bodied'
  BY <1>1, SameScopes, SameBodies
<1>3. TypeOK' /\ Unlinked' /\ LinksAreMutual'
  BY <1>1, <1>2 DEF TypeOK, Unlinked, IsScope, LinksAreMutual
<1>4. Acyclic'
  BY <1>1, <1>2 DEF Acyclic, Reads
<1>5. Queued' /\ DirtyIsQueued' /\ Computed'
  BY <1>1, SameStack
<1>6. Evaluations'
  BY <1>1, NothingRead DEF Evaluations
<1>7. CleanIsFed'
  BY <1>1, <1>2, NothingRead DEF CleanIsFed
<1> QED  BY <1>2, <1>3, <1>4, <1>5, <1>6, <1>7

LEMMA NextInvariant == IInv /\ [Next]_vars => IInv'
<1> SUFFICES ASSUME IInv, [Next]_vars PROVE IInv'
  OBVIOUS
<1>1. ASSUME NEW k \in {"memo", "binding"}, NEW b \in Readings, Open(k, b) PROVE IInv'
  BY <1>1, OpenInvariant
<1>2. ASSUME NEW g \in Signals, NEW v \in Values, Write(g, v) PROVE IInv'
  BY <1>2, WriteInvariant
<1>3. ASSUME NEW i \in Live, Peek(i) PROVE IInv'
  BY <1>3, PeekInvariant
<1>4. ASSUME NEW i \in Live, Drop(i) PROVE IInv'
  BY <1>4, DropInvariant
<1>5. CASE BeginTick
  BY <1>5, BeginTickInvariant
<1>6. CASE PullNext
  BY <1>6, PullNextInvariant
<1>7. CASE EndPull
  BY <1>7, EndPullInvariant
<1>8. CASE ReadSignal
  BY <1>8, ReadSignalInvariant
<1>9. CASE ReadRetired
  BY <1>9, ReadRetiredInvariant
<1>10. CASE ReadCached
  BY <1>10, ReadCachedInvariant
<1>11. CASE ReadDirty
  BY <1>11, ReadDirtyInvariant
<1>12. CASE Return
  BY <1>12, ReturnInvariant
<1>13. CASE UNCHANGED vars
  BY <1>13, StutterInvariant
<1> QED  BY <1>1, <1>2, <1>3, <1>4, <1>5, <1>6, <1>7, <1>8, <1>9, <1>10, <1>11, <1>12, <1>13
         DEF Next, Evaluate

LEMMA Invariant == Spec => []IInv
BY InitInvariant, NextInvariant, PTL DEF Spec

(***************************************************************************)
(* What evaluating everything from scratch would give.                     *)
(***************************************************************************)

\* One more step of the reference: what the sources yield, given what those
\* they read yield.
Deeper(r) ==
  [x \in Sources |->
     IF x \in Signals THEN value[x]
     ELSE IF ~IsLive(x) THEN Gone
     ELSE LET first == r[body[x.slot].test]
          IN IF first \in Truthy THEN r[body[x.slot].then] ELSE first]

Shallow == [x \in Sources |-> IF x \in Signals THEN value[x] ELSE Gone]

\* Reference as a sequence of rounds.
Rounds(at, k) == at = [n \in 0 .. k |-> IF n = 0 THEN Shallow ELSE Deeper(at[n - 1])]

LEMMA ReferenceRounds ==
  \E at : Rounds(at, MaxOpens) /\ Reference = at[MaxOpens]
<1> DEFINE S == {k \in Nat : \E f : Rounds(f, k)}
<1>1. 0 \in S
  <2> DEFINE f == [n \in 0 .. 0 |-> Shallow]
  <2>1. \A n \in 0 .. 0 : n = 0 /\ f[n] = Shallow
    OBVIOUS
  <2>2. f = [n \in 0 .. 0 |-> f[n]]
    OBVIOUS
  <2> HIDE DEF f
  <2>3. Rounds(f, 0)
    BY <2>1, <2>2 DEF Rounds
  <2> QED  BY <2>3
<1>2. ASSUME NEW k \in Nat, k \in S PROVE k + 1 \in S
  <2>1. PICK f : Rounds(f, k)
    BY <1>2
  <2> DEFINE g == [n \in 0 .. k + 1 |-> IF n <= k THEN f[n] ELSE Deeper(f[k])]
  <2>2. \A n \in 0 .. k : g[n] = f[n]
    OBVIOUS
  <2>3. \A n \in 0 .. k + 1 : g[n] = IF n = 0 THEN Shallow ELSE Deeper(g[n - 1])
    <3> SUFFICES ASSUME NEW n \in 0 .. k + 1
                 PROVE  g[n] = IF n = 0 THEN Shallow ELSE Deeper(g[n - 1])
      OBVIOUS
    <3>1. CASE n = 0
      <4>1. g[0] = f[0] /\ f[0] = Shallow
        BY <2>1 DEF Rounds
      <4> HIDE DEF g
      <4> QED  BY <3>1, <4>1
    <3>2. CASE n \in 1 .. k
      <4>1. g[n] = f[n] /\ g[n - 1] = f[n - 1]
        BY <2>2, <3>2
      <4> HIDE DEF g
      <4>2. f[n] = Deeper(f[n - 1])
        <5>1. n \in 0 .. k /\ n # 0
          BY <3>2
        <5> QED  BY <2>1, <5>1 DEF Rounds
      <4> QED  BY <3>2, <4>1, <4>2
    <3>3. CASE n = k + 1
      <4>1. g[n] = Deeper(f[k]) /\ g[n - 1] = f[k] /\ n # 0
        BY <3>3
      <4> HIDE DEF g
      <4> QED  BY <4>1
    <3> QED  BY <3>1, <3>2, <3>3
  <2>4. DOMAIN g = 0 .. k + 1 /\ g = [n \in 0 .. k + 1 |-> g[n]]
    OBVIOUS
  <2> HIDE DEF g
  <2>5. Rounds(g, k + 1)
    BY <2>3, <2>4 DEF Rounds
  <2> QED  BY <2>5
<1>3. MaxOpens \in S
  <2> HIDE DEF S
  <2> QED  BY <1>1, <1>2, NatIsInductive, ConstantFacts
<1>4. PICK at : Rounds(at, MaxOpens)
  BY <1>3
<1> DEFINE Ref(f) ==
      f = [n \in 0 .. MaxOpens |->
             [x \in Sources |->
                IF x \in Signals THEN value[x]
                ELSE IF n = 0 \/ ~IsLive(x) THEN Gone
                ELSE LET first == f[n - 1][body[x.slot].test]
                     IN IF first \in Truthy THEN f[n - 1][body[x.slot].then] ELSE first]]
<1>5. \A f : Rounds(f, MaxOpens) <=> Ref(f)
  <2> SUFFICES ASSUME NEW f PROVE Rounds(f, MaxOpens) <=> Ref(f)
    OBVIOUS
  <2>1. \A n \in 0 .. MaxOpens :
          (IF n = 0 THEN Shallow ELSE Deeper(f[n - 1]))
            = [x \in Sources |->
                 IF x \in Signals THEN value[x]
                 ELSE IF n = 0 \/ ~IsLive(x) THEN Gone
                 ELSE LET first == f[n - 1][body[x.slot].test]
                      IN IF first \in Truthy THEN f[n - 1][body[x.slot].then] ELSE first]
    BY DEF Shallow, Deeper
  <2> QED  BY <2>1 DEF Rounds
<1>6. Reference = (CHOOSE f : Ref(f))[MaxOpens]
  BY DEF Reference
<1>7. Ref(CHOOSE f : Ref(f))
  <2>1. Ref(at)
    BY <1>4, <1>5
  <2> HIDE DEF Ref
  <2> QED  BY <2>1
<1> HIDE DEF Ref
<1> QED  BY <1>5, <1>6, <1>7

\* At every depth the reference says of what is there, and clean, either what it
\* holds or nothing.
Agrees(r) ==
  \A x \in Sources :
    /\ ~Alive(x) => r[x] = Gone
    /\ Alive(x) /\ (x \in Signals \/ ~dirty[x.slot]) => r[x] \in {Gone, Val(x)}

LEMMA ShallowAgrees == Agrees(Shallow)
BY DEF Agrees, Shallow, Alive, Val

LEMMA DeeperAgrees ==
  ASSUME IInv, NEW r, Agrees(r)
  PROVE  Agrees(Deeper(r))
<1> USE DEF IInv
<1>1. Gone \notin Truthy
  BY ConstantFacts
<1> SUFFICES ASSUME NEW x \in Sources
             PROVE  /\ ~Alive(x) => Deeper(r)[x] = Gone
                    /\ Alive(x) /\ (x \in Signals \/ ~dirty[x.slot])
                         => Deeper(r)[x] \in {Gone, Val(x)}
  BY DEF Agrees
<1>2. CASE x \in Signals
  BY <1>2 DEF Deeper, Alive, Val
<1>3. CASE x \notin Signals /\ ~IsLive(x)
  BY <1>3 DEF Deeper, Alive
<1>4. CASE x \notin Signals /\ IsLive(x)
  <2>1. x \in Live
    BY <1>4, IdFacts DEF Sources
  <2> SUFFICES ASSUME ~dirty[x.slot] PROVE Deeper(r)[x] \in {Gone, cache[x.slot]}
    BY <1>4 DEF Alive, Val
  <2> DEFINE a == body[x.slot].test
  <2> DEFINE b == body[x.slot].then
  <2>2. a \in Sources /\ b \in Sources
    BY <2>1, ReadFacts
  <2>3. Alive(a) => /\ Fed(x, a)
                    /\ Val(a) \notin Truthy => cache[x.slot] = Val(a)
                    /\ Val(a) \in Truthy /\ Alive(b) => Fed(x, b) /\ cache[x.slot] = Val(b)
    BY <2>1 DEF CleanIsFed, Yields
  <2>4. Deeper(r)[x] = IF r[a] \in Truthy THEN r[b] ELSE r[a]
    BY <1>4 DEF Deeper
  <2>5. /\ ~Alive(a) => r[a] = Gone
        /\ ~Alive(b) => r[b] = Gone
        /\ Alive(a) /\ Fed(x, a) => r[a] \in {Gone, Val(a)}
        /\ Alive(b) /\ Fed(x, b) => r[b] \in {Gone, Val(b)}
    BY <2>2 DEF Agrees, Fed
  <2> HIDE DEF a, b
  <2> QED  BY <1>1, <2>3, <2>4, <2>5
<1> QED  BY <1>2, <1>3, <1>4

LEMMA CleanScopesAreRight == IInv => CleanIsRight
<1> SUFFICES ASSUME IInv PROVE CleanIsRight
  OBVIOUS
<1>1. PICK at : Rounds(at, MaxOpens) /\ Reference = at[MaxOpens]
  BY ReferenceRounds
<1>2. at[0] = Shallow
  BY <1>1, ConstantFacts DEF Rounds
<1>3. \A n \in Nat : n + 1 <= MaxOpens => at[n + 1] = Deeper(at[n])
  <2> SUFFICES ASSUME NEW n \in Nat, n + 1 <= MaxOpens PROVE at[n + 1] = Deeper(at[n])
    OBVIOUS
  <2>1. n + 1 \in 0 .. MaxOpens /\ n + 1 # 0 /\ (n + 1) - 1 = n
    BY ConstantFacts
  <2> QED  BY <1>1, <2>1 DEF Rounds
<1> DEFINE S == {n \in Nat : n <= MaxOpens => Agrees(at[n])}
<1>4. 0 \in S
  BY <1>2, ShallowAgrees
<1>5. ASSUME NEW n \in Nat, n \in S PROVE n + 1 \in S
  <2> SUFFICES ASSUME n + 1 <= MaxOpens PROVE Agrees(at[n + 1])
    OBVIOUS
  <2>1. Agrees(at[n])
    BY <1>5, ConstantFacts
  <2>2. Agrees(Deeper(at[n]))
    BY <2>1, DeeperAgrees
  <2> QED  BY <1>3, <2>2
<1>6. MaxOpens \in S
  <2> HIDE DEF S
  <2> QED  BY <1>4, <1>5, NatIsInductive, ConstantFacts
<1>7. Agrees(Reference)
  BY <1>1, <1>6, ConstantFacts
<1>8. ASSUME NEW i \in Live, ~dirty[i.slot] PROVE Reference[i] \in {Gone, cache[i.slot]}
  <2>1. i \in Ids /\ IsLive(i) /\ i \notin Signals
    BY IdFacts, ConstantFacts DEF IInv
  <2> QED  BY <1>7, <1>8, <2>1 DEF Agrees, Alive, Val, Sources
<1> QED  BY <1>8 DEF CleanIsRight

\* Every reachable state of the reactive core is well typed: no list names a
\* slot twice, and only scopes there are are evaluated.
THEOREM TypeCorrect == Spec => []TypeOK
<1>1. IInv => TypeOK
  BY DEF IInv
<1> QED  BY <1>1, Invariant, PTL

\* clear_deps, subscribe and drop_scope: what a scope read and who reads it
\* agree, and neither names a scope that is gone, whatever is opened, retired
\* and opened again in its slot.
THEOREM LinksStayMutual == Spec => []LinksAreMutual
<1>1. IInv => LinksAreMutual
  BY DEF IInv
<1> QED  BY <1>1, Invariant, PTL

\* mark_scope and pull: no write is missed, through any chain of memos and
\* whatever was opened, retired and put in a retired slot in between.  A scope
\* that is not marked holds what evaluating everything from scratch would give
\* it, and a binding that is marked is queued or being evaluated.
THEOREM NothingIsMissed == Spec => []NoWriteIsMissed
<1>1. IInv => NoWriteIsMissed
  BY CleanScopesAreRight DEF IInv, NoWriteIsMissed
<1> QED  BY <1>1, Invariant, PTL

\* pull and read_memo: no scope is evaluated twice between two writes or ticks,
\* however many paths lead to it.
THEOREM EvaluatedOnce == Spec => OnceATick
<1> DEFINE Once == \A i \in Ids : Len(stack') > Len(stack) /\ stack'[Len(stack')].id = i
                                   => i \notin computed
<1>1. IInv /\ [Next]_vars => [Once]_vars
  <2> SUFFICES ASSUME IInv, [Next]_vars, NEW i \in Ids,
                      Len(stack') > Len(stack), stack'[Len(stack')].id = i
               PROVE  i \notin computed
    OBVIOUS
  <2> USE DEF IInv
  <2>1. Len(stack) \in Nat
    BY DEF TypeOK
  <2>2. stack' # stack
    BY <2>1
  <2>3. ASSUME NEW j, dirty[j.slot], IsLive(j), j \in Ids, j \notin OnStack PROVE j \notin computed
    <3>1. ~Retired(j)
      BY <2>3, IdFacts
    <3> QED  BY <2>3, <3>1 DEF Computed
  <2>4. ASSUME NEW m \in Live, Peek(m) PROVE i \notin computed
    <3>1. stack = << >> /\ stack' = << Begun(m) >> /\ dirty[m.slot]
      BY <2>4 DEF Peek, Idle
    <3>2. i = m
      BY <3>1 DEF Begun
    <3> QED  BY <2>3, <3>1, <3>2, EmptyStack, IdFacts
  <2>5. CASE PullNext
    <3>1. PICK j \in queue : stack = << >> /\ IsLive(j) /\ stack' = << Begun(j) >>
      BY <2>2, <2>5 DEF PullNext
    <3>2. i = j
      BY <3>1 DEF Begun
    <3>3. j \in Ids /\ dirty[j.slot]
      BY <3>1, IdFacts DEF Queued, TypeOK
    <3> QED  BY <2>3, <3>1, <3>2, <3>3, EmptyStack
  <2>6. CASE ReadDirty
    <3>1. PICK m : m = NextSource(Top)
      OBVIOUS
    <3>2. /\ Evaluating /\ m \in Ids /\ IsLive(m) /\ dirty[m.slot]
          /\ stack' = Append(stack, Begun(m)) /\ UNCHANGED <<kind, gen, body, opens>>
      BY <2>6, <3>1 DEF ReadDirty
    <3>3. m \in Live
      BY <3>2, IdFacts
    <3>4. m \notin OnStack /\ i = m
      BY <3>1, <3>2, <3>3, ReadIsNew
    <3> QED  BY <2>3, <3>2, <3>4
  <2>7. CASE ReadSignal \/ ReadRetired \/ ReadCached
    <3>1. PICK v : stack' = Saw(v) /\ Evaluating
      BY <2>7 DEF ReadSignal, ReadRetired, ReadCached
    <3>2. Len(Below) = Len(stack) - 1 /\ Below \in Seq(Frames)
      BY <3>1, StackFacts DEF Evaluating
    <3>3. Len(stack') = Len(stack)
      BY <2>1, <3>1, <3>2 DEF Saw
    <3> QED  BY <2>1, <3>3
  <2>8. CASE Return
    <3>1. Len(stack') = Len(stack) - 1
      BY <2>8, StackFacts DEF Return
    <3> QED  BY <2>1, <3>1
  <2>9. CASE UNCHANGED vars \/ BeginTick \/ EndPull
    BY <2>2, <2>9 DEF vars, BeginTick, EndPull
  <2>10. ASSUME NEW k \in {"memo", "binding"}, NEW b \in Readings, Open(k, b) PROVE i \notin computed
    BY <2>2, <2>10 DEF Open
  <2>11. ASSUME NEW g \in Signals, NEW v \in Values, Write(g, v) PROVE i \notin computed
    BY <2>2, <2>11 DEF Write
  <2>12. ASSUME NEW m \in Live, Drop(m) PROVE i \notin computed
    BY <2>2, <2>12 DEF Drop
  <2> QED  BY <2>4, <2>5, <2>6, <2>7, <2>8, <2>9, <2>10, <2>11, <2>12 DEF Next, Evaluate
<1> QED  BY <1>1, Invariant, PTL DEF Spec, OnceATick
=============================================================================
