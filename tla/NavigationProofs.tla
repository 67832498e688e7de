-------------------------- MODULE NavigationProofs --------------------------
(***************************************************************************)
(* Proofs about the navigation container for any paths, any limit of depth  *)
(* and any number of screens.                                              *)
(***************************************************************************)
EXTENDS Navigation, WellFoundedInduction, TLAPS

Entries == [path : Matched, id : 0 .. MaxScreens - 1]

Containers ==
  [entries : Seq(Entries), current : Nat, anim : Anims \cup {None}, live : SUBSET Nat,
   last : Paths \cup {None}, pending : Paths \cup {None}]

Shown(n) == PathAt(n.entries, n.current)

(***************************************************************************)
(* The inductive invariant, in the parts the proofs below need together.    *)
(***************************************************************************)

\* What a container is by itself: a transition runs between two of its screens,
\* towards the current one, and only a stack pops.
Stands(n) ==
  /\ n.current \in DOMAIN n.entries
  /\ n.anim # None => /\ n.anim.incoming = n.current
                      /\ n.anim.outgoing \in DOMAIN n.entries
                      /\ n.anim.pop => kind = "Stack"

Fits(n) == kind = "Stack" /\ MaxDepth > 0 => Len(n.entries) <= MaxDepth

\* Before the first render there is nothing.
Fresh ==
  /\ entries = << >> /\ current = 1 /\ anim = None /\ live = {} /\ last = None /\ pending = None
  /\ path = First /\ announced = First /\ phase = "render" /\ ~swipe /\ ~overruled
  /\ ~shared.replaceNext

\* What was said last, or is about to be, is what is shown when nothing moves.
Announces(n) ==
  n.anim = None => (IF n.pending # None THEN n.pending ELSE announced) = Shown(n)

\* The screen of the path that was followed last, which a finger has moved away
\* from if one drives the transition.
Follows(n) ==
  n.last \in Matched /\ ~overruled
    => /\ n.anim = None \/ ~n.anim.gesture => Shown(n) = n.last
       /\ n.anim # None /\ n.anim.gesture => PathAt(n.entries, n.anim.outgoing) = n.last

\* A container with a screen.
Standing ==
  /\ Stands(Container) /\ live # {} /\ last \in Paths
  /\ Announces(Container) /\ Follows(Container)
  /\ swipe /\ anim # None /\ ~anim.gesture => overruled

\* A frame was made of the container as it is.
Framed == phase = "painted" => path = last /\ live = LiveOf(Container)

\* What is to be announced is, before the taps.
Told == phase = "taps" => pending = None

IInv ==
  /\ TypeOK /\ SharedMirrorsStack /\ Framed /\ Told
  /\ Fresh \/ Standing

(***************************************************************************)
(* The steps of a reconciliation.                                          *)
(***************************************************************************)

LEMMA ConstantFacts ==
  /\ Matched \subseteq Paths /\ First \in Matched /\ First \in Paths
  /\ None \notin Paths /\ None \notin Anims /\ None \notin Matched
  /\ MaxDepth \in Nat /\ MaxScreens \in Nat /\ MaxScreens >= 1
BY NavigationAssumption

LEMMA ShownFacts ==
  ASSUME NEW es \in Seq(Entries), NEW c \in Nat
  PROVE  /\ PathAt(es, c) \in Matched \cup {None}
         /\ DOMAIN es = 1 .. Len(es) /\ Len(es) \in Nat
         /\ c \in DOMAIN es => PathAt(es, c) \in Matched /\ PathAt(es, c) = es[c].path
         /\ c \notin DOMAIN es => PathAt(es, c) = None
<1>1. DOMAIN es = 1 .. Len(es) /\ Len(es) \in Nat
  OBVIOUS
<1>2. \A i \in DOMAIN es : es[i] \in Entries
  OBVIOUS
<1>3. \A e \in Entries : e.path \in Matched
  BY DEF Entries
<1> HIDE DEF Entries
<1> QED  BY <1>1, <1>2, <1>3 DEF PathAt

\* drop_nav_entries: what is left is what was there.
LEMMA KeepFacts ==
  ASSUME NEW n \in Containers, NEW k \in Nat
  PROVE  LET m == Keep(n, k)
         IN  /\ m \in Containers /\ m.current = n.current /\ m.anim = n.anim /\ m.live = n.live
             /\ m.last = n.last /\ m.pending = n.pending
             /\ Len(m.entries) = IF Len(n.entries) > k THEN k ELSE Len(n.entries)
             /\ \A i \in DOMAIN m.entries : i \in DOMAIN n.entries /\ m.entries[i] = n.entries[i]
<1> DEFINE es == IF Len(n.entries) > k THEN SubSeq(n.entries, 1, k) ELSE n.entries
<1>1. n.entries \in Seq(Entries) /\ Len(n.entries) \in Nat /\ DOMAIN n.entries = 1 .. Len(n.entries)
  BY DEF Containers
<1>2. /\ es \in Seq(Entries) /\ DOMAIN es = 1 .. Len(es)
      /\ Len(es) = IF Len(n.entries) > k THEN k ELSE Len(n.entries)
      /\ \A i \in DOMAIN es : i \in DOMAIN n.entries /\ es[i] = n.entries[i]
  <2>1. CASE Len(n.entries) > k
    <3>1. /\ SubSeq(n.entries, 1, k) \in Seq(Entries)
          /\ Len(SubSeq(n.entries, 1, k)) = k
          /\ \A i \in 1 .. k : SubSeq(n.entries, 1, k)[i] = n.entries[i]
      BY <1>1, <2>1
    <3> QED  BY <1>1, <2>1, <3>1
  <2>2. CASE ~(Len(n.entries) > k)
    BY <1>1, <2>2
  <2> QED  BY <2>1, <2>2
<1>3. Keep(n, k) = [n EXCEPT !.entries = es]
  BY DEF Keep
<1> HIDE DEF es
<1> QED  BY <1>2, <1>3 DEF Containers

\* complete_nav, of a container in which nothing moves any more.
LEMMA CompleteFacts ==
  ASSUME NEW n \in Containers, n.current \in DOMAIN n.entries, n.anim = None,
         NEW pop \in BOOLEAN, NEW announce \in BOOLEAN
  PROVE  LET m == Complete(n, pop, announce)
         IN  /\ m \in Containers /\ m.current = n.current /\ m.anim = None /\ m.live = n.live
             /\ m.last = n.last
             /\ m.current \in DOMAIN m.entries /\ Len(m.entries) <= Len(n.entries)
             /\ \A i \in 1 .. n.current : i \in DOMAIN m.entries /\ m.entries[i] = n.entries[i]
             /\ ~pop => m.entries = n.entries
             /\ Shown(m) = Shown(n)
             /\ m.pending = IF announce THEN Shown(m) ELSE n.pending
<1> DEFINE k == IF pop THEN Keep(n, n.current) ELSE n
<1>1. /\ n.entries \in Seq(Entries) /\ Len(n.entries) \in Nat /\ n.current \in Nat
      /\ DOMAIN n.entries = 1 .. Len(n.entries)
  BY DEF Containers
<1>2. /\ k \in Containers /\ k.current = n.current /\ k.anim = None /\ k.live = n.live
      /\ k.last = n.last /\ k.pending = n.pending
      /\ Len(k.entries) <= Len(n.entries) /\ Len(k.entries) >= n.current
      /\ \A i \in DOMAIN k.entries : i \in DOMAIN n.entries /\ k.entries[i] = n.entries[i]
      /\ ~pop => k.entries = n.entries
  BY <1>1, KeepFacts
<1>3. Complete(n, pop, announce)
        = IF announce THEN [k EXCEPT !.pending = Shown(k)] ELSE k
  BY DEF Complete, Shown
<1> HIDE DEF k
<1>4. /\ k.entries \in Seq(Entries) /\ k.current \in DOMAIN k.entries
      /\ \A i \in 1 .. n.current : i \in DOMAIN k.entries /\ k.entries[i] = n.entries[i]
  BY <1>1, <1>2 DEF Containers
<1>5. Shown(k) = Shown(n) /\ Shown(k) \in Paths
  <2>1. k.entries[n.current] = n.entries[n.current]
    BY <1>1, <1>4
  <2>2. Shown(k) \in Matched
    BY <1>1, <1>2, <1>4, ShownFacts DEF Shown
  <2> QED  BY <1>1, <1>2, <1>4, <2>1, <2>2, ConstantFacts DEF Shown, PathAt
<1> DEFINE m == Complete(n, pop, announce)
<1>6. /\ m \in Containers /\ m.current = k.current /\ m.anim = k.anim /\ m.live = k.live
      /\ m.last = k.last /\ m.entries = k.entries
      /\ m.pending = IF announce THEN Shown(k) ELSE k.pending
  BY <1>2, <1>3, <1>5 DEF Containers
<1>7. Shown(m) = Shown(k)
  BY <1>6 DEF Shown
<1> HIDE DEF m
<1> QED  BY <1>2, <1>4, <1>5, <1>6, <1>7 DEF m

\* finish_nav: the transition is over, and what it leads to is shown.
LEMMA FinishFacts ==
  ASSUME NEW n \in Containers, Stands(n), Announces(n)
  PROVE  LET m == Finish(n)
         IN  /\ m \in Containers /\ m.current = n.current /\ m.anim = None /\ m.live = n.live
             /\ m.last = n.last
             /\ Stands(m) /\ Announces(m) /\ Len(m.entries) <= Len(n.entries)
             /\ \A i \in 1 .. n.current : i \in DOMAIN m.entries /\ m.entries[i] = n.entries[i]
             /\ kind = "Host" => m.entries = n.entries
             /\ Shown(m) = Shown(n)
             /\ n.anim = None => m = n
<1>1. CASE n.anim = None
  BY <1>1 DEF Finish, Stands, Containers
<1>2. CASE n.anim # None
  <2> DEFINE b == [n EXCEPT !.anim = None]
  <2>1. n.anim.pop \in BOOLEAN
    BY <1>2 DEF Containers, Anims
  <2>2. /\ b \in Containers /\ b.current = n.current /\ b.anim = None /\ b.live = n.live
        /\ b.last = n.last /\ b.entries = n.entries /\ b.current \in DOMAIN b.entries
    BY DEF Containers, Stands
  <2>3. Finish(n) = Complete(b, n.anim.pop, TRUE)
    BY <1>2 DEF Finish
  <2> HIDE DEF b
  <2> DEFINE m == Complete(b, n.anim.pop, TRUE)
  <2>4. /\ m \in Containers /\ m.current = b.current /\ m.anim = None /\ m.live = b.live
        /\ m.last = b.last
        /\ m.current \in DOMAIN m.entries /\ Len(m.entries) <= Len(b.entries)
        /\ \A i \in 1 .. b.current : i \in DOMAIN m.entries /\ m.entries[i] = b.entries[i]
        /\ ~n.anim.pop => m.entries = b.entries
        /\ Shown(m) = Shown(b)
        /\ m.pending = Shown(m)
    BY <2>1, <2>2, CompleteFacts
  <2> HIDE DEF m
  <2>5. kind = "Host" => ~n.anim.pop
    BY <1>2 DEF Stands
  <2>6. Shown(b) = Shown(n)
    BY <2>2 DEF Shown
  <2>a. Shown(m) \in Matched
    BY <2>4, ShownFacts DEF Shown, Containers
  <2>7. Stands(m) /\ Announces(m)
    BY <2>4, <2>a, ConstantFacts DEF Stands, Announces
  <2>8. Finish(n) = m
    BY <2>3 DEF m
  <2> QED  BY <1>2, <2>2, <2>4, <2>5, <2>6, <2>7, <2>8
<1> QED  BY <1>1, <1>2

\* begin_nav_anim, from one screen there is to another; without a frame to
\* start from nothing is announced.
LEMMA BeginAnimFacts ==
  ASSUME NEW n \in Containers, n.anim = None,
         NEW from \in DOMAIN n.entries, NEW to \in DOMAIN n.entries,
         NEW pop \in BOOLEAN, pop => kind = "Stack"
  PROVE  LET m == BeginAnim(n, from, to, pop)
         IN  /\ m \in Containers /\ m.current = to /\ m.live = n.live /\ m.last = n.last
             /\ Stands(m) /\ Len(m.entries) <= Len(n.entries)
             /\ m.anim # None => ~m.anim.gesture /\ n.live # {}
             /\ \A i \in 1 .. to : i \in DOMAIN m.entries /\ m.entries[i] = n.entries[i]
             /\ ~pop => m.entries = n.entries
             /\ Shown(m) = n.entries[to].path
             /\ n.live # {} => Announces(m)
             /\ n.live = {} => m.pending = n.pending
<1>1. /\ n.entries \in Seq(Entries) /\ Len(n.entries) \in Nat
      /\ DOMAIN n.entries = 1 .. Len(n.entries) /\ from \in Nat /\ to \in Nat /\ to >= 1
  BY DEF Containers
<1>2. CASE ~animated \/ n.live = {} \/ from = to
  <2> DEFINE b == [n EXCEPT !.current = to, !.anim = None]
  <2>1. /\ b \in Containers /\ b.current = to /\ b.anim = None /\ b.live = n.live
        /\ b.last = n.last /\ b.entries = n.entries /\ b.pending = n.pending
    BY <1>1 DEF Containers
  <2>2. BeginAnim(n, from, to, pop) = Complete(b, pop, n.live # {})
    BY <1>2 DEF BeginAnim
  <2> HIDE DEF b
  <2> DEFINE m == Complete(b, pop, n.live # {})
  <2>3. b.current \in DOMAIN b.entries /\ (n.live # {}) \in BOOLEAN
    BY <2>1
  <2>4. /\ m \in Containers /\ m.current = b.current /\ m.anim = None /\ m.live = b.live
        /\ m.last = b.last
        /\ m.current \in DOMAIN m.entries /\ Len(m.entries) <= Len(b.entries)
        /\ \A i \in 1 .. b.current : i \in DOMAIN m.entries /\ m.entries[i] = b.entries[i]
        /\ ~pop => m.entries = b.entries
        /\ Shown(m) = Shown(b)
        /\ m.pending = IF n.live # {} THEN Shown(m) ELSE b.pending
    BY <2>1, <2>3, CompleteFacts
  <2>5. BeginAnim(n, from, to, pop) = m
    BY <2>2
  <2> HIDE DEF m
  <2>a. Shown(m) \in Matched
    BY <2>4, ShownFacts DEF Shown, Containers
  <2>6. Stands(m) /\ (n.live # {} => Announces(m))
    BY <2>4, <2>a, ConstantFacts DEF Stands, Announces
  <2>7. Shown(b) = n.entries[to].path
    BY <2>1 DEF Shown, PathAt
  <2> QED  BY <2>1, <2>4, <2>5, <2>6, <2>7
<1>3. CASE animated /\ n.live # {} /\ from # to
  <2> DEFINE a == [outgoing |-> from, incoming |-> to, pop |-> pop, gesture |-> FALSE, far |-> FALSE]
  <2> DEFINE m == [n EXCEPT !.current = to, !.anim = a]
  <2>1. a \in Anims
    BY <1>1 DEF Anims
  <2>b. a # None
    BY <2>1, ConstantFacts
  <2>2. a.outgoing = from /\ a.incoming = to /\ a.pop = pop /\ a.gesture = FALSE
    OBVIOUS
  <2>3. BeginAnim(n, from, to, pop) = m
    BY <1>3 DEF BeginAnim
  <2> HIDE DEF a
  <2>4. /\ m \in Containers /\ m.current = to /\ m.live = n.live /\ m.last = n.last
        /\ m.entries = n.entries /\ m.anim = a
    BY <1>1, <2>1 DEF Containers
  <2> HIDE DEF m
  <2>5. Stands(m) /\ Announces(m)
    BY <2>1, <2>b, <2>2, <2>4 DEF Stands, Announces
  <2>6. Shown(m) = n.entries[to].path
    BY <2>4 DEF Shown, PathAt
  <2>7. \A i \in 1 .. to : i \in DOMAIN m.entries
    BY <1>1, <2>4
  <2> QED  BY <1>1, <1>3, <2>2, <2>3, <2>4, <2>5, <2>6, <2>7
<1> QED  BY <1>2, <1>3

\* A new screen: what it stands on is kept, but for a screen it replaces.
LEMMA MountOnFacts ==
  ASSUME TypeOK, NEW n \in Containers, n.anim = None, n.current >= 1,
         n.current \in DOMAIN n.entries \/ (n.entries = << >> /\ n.current = 1),
         NEW replacing \in BOOLEAN, replacing => kind = "Stack", Fits(n),
         NEW target \in Matched, ~TooDeep(n, replacing)
  PROVE  LET m == MountOn(n, replacing, target)
         IN  /\ m \in Containers /\ m.live = n.live /\ m.last = n.last
             /\ Stands(m) /\ Fits(m) /\ Shown(m) = target
             /\ m.anim # None => ~m.anim.gesture /\ n.live # {}
             /\ n.live # {} => Announces(m)
             /\ n.live = {} => m.pending = n.pending
             /\ \A i \in DOMAIN n.entries : i <= n.current =>
                  \/ i \in DOMAIN m.entries /\ m.entries[i] = n.entries[i]
                  \/ replacing /\ i = n.current
<1>1. /\ n.entries \in Seq(Entries) /\ Len(n.entries) \in Nat /\ n.current \in Nat
      /\ DOMAIN n.entries = 1 .. Len(n.entries)
      /\ n.current - 1 \in Nat
      /\ n.current <= Len(n.entries) \/ (Len(n.entries) = 0 /\ n.current = 1)
  BY DEF Containers
<1> DEFINE kept == IF replacing THEN Keep(n, n.current - 1)
                   ELSE IF kind = "Stack" THEN Keep(n, n.current) ELSE n
<1> DEFINE c == IF replacing THEN (IF n.current > 1 THEN n.current - 1 ELSE 1) ELSE n.current
<1> DEFINE base == IF replacing THEN [Keep(n, n.current - 1) EXCEPT
                                        !.current = IF n.current > 1 THEN n.current - 1 ELSE 1]
                   ELSE IF kind = "Stack" THEN Keep(n, n.current) ELSE n
<1>2. /\ kept \in Containers /\ kept.current = n.current /\ kept.anim = None
      /\ kept.live = n.live /\ kept.last = n.last /\ kept.pending = n.pending
      /\ \A i \in DOMAIN kept.entries : i \in DOMAIN n.entries /\ kept.entries[i] = n.entries[i]
      /\ replacing => Len(kept.entries) = n.current - 1
      /\ ~replacing => /\ Len(kept.entries) <= Len(n.entries)
                       /\ \A i \in 1 .. Len(n.entries) : i <= n.current => i <= Len(kept.entries)
  <2>1. CASE replacing
    <3>1. kept = Keep(n, n.current - 1)
      BY <2>1
    <3> HIDE DEF kept
    <3>2. Len(kept.entries) = IF Len(n.entries) > n.current - 1 THEN n.current - 1
                              ELSE Len(n.entries)
      BY <1>1, <3>1, KeepFacts
    <3>3. Len(kept.entries) = n.current - 1
      BY <1>1, <3>2
    <3> QED  BY <1>1, <2>1, <3>1, <3>3, KeepFacts
  <2>2. CASE ~replacing /\ kind = "Stack"
    <3>1. kept = Keep(n, n.current)
      BY <2>2
    <3> HIDE DEF kept
    <3>2. Len(kept.entries) = IF Len(n.entries) > n.current THEN n.current ELSE Len(n.entries)
      BY <1>1, <3>1, KeepFacts
    <3> QED  BY <1>1, <2>2, <3>1, <3>2, KeepFacts
  <2>3. CASE ~replacing /\ kind # "Stack"
    BY <1>1, <2>3
  <2> QED  BY <2>1, <2>2, <2>3
<1>3. /\ base \in Containers /\ base.current = c /\ base.anim = None
      /\ base.live = n.live /\ base.last = n.last /\ base.pending = n.pending
      /\ base.entries = kept.entries
  <2>1. base = IF replacing THEN [kept EXCEPT !.current = c] ELSE kept
    OBVIOUS
  <2>2. c \in Nat /\ (~replacing => c = n.current)
    BY <1>1
  <2> HIDE DEF base, kept, c
  <2> QED  BY <1>2, <2>1, <2>2 DEF Containers
<1>4. /\ kept.entries \in Seq(Entries) /\ Len(kept.entries) \in Nat
      /\ DOMAIN kept.entries = 1 .. Len(kept.entries)
  <2> HIDE DEF kept
  <2> QED  BY <1>2 DEF Containers
<1>5. c >= 1 /\ c <= Len(kept.entries) + 1 /\ c \in Nat
  <2> HIDE DEF kept
  <2> QED  BY <1>1, <1>2, <1>4
<1> DEFINE new == Screen(target)
<1> DEFINE es == Append(kept.entries, new)
<1>6. new \in Entries /\ new.path = target
  <2>1. screens % MaxScreens \in 0 .. MaxScreens - 1
    <3>1. screens \in 0 .. MaxScreens - 1
      BY DEF TypeOK
    <3> QED  BY <3>1, ConstantFacts
  <2> QED  BY <2>1 DEF Screen, Entries
<1>7. /\ es \in Seq(Entries) /\ Len(es) = Len(kept.entries) + 1
      /\ DOMAIN es = 1 .. Len(kept.entries) + 1
      /\ es[Len(kept.entries) + 1].path = target
      /\ \A i \in 1 .. Len(kept.entries) : es[i] = kept.entries[i]
  <2> HIDE DEF kept, new
  <2> QED  BY <1>4, <1>6
<1> DEFINE grown == [base EXCEPT !.entries = Append(@, Screen(target))]
<1>8. /\ grown \in Containers /\ grown.current = c /\ grown.anim = None /\ grown.live = n.live
      /\ grown.last = n.last /\ grown.pending = n.pending /\ grown.entries = es
  <2>1. grown = [base EXCEPT !.entries = es]
    <3> HIDE DEF base, kept
    <3> QED  BY <1>3 DEF Containers
  <2> HIDE DEF grown, base, es, kept, c
  <2> QED  BY <1>3, <1>7, <2>1 DEF Containers
<1>9. MountOn(n, replacing, target) = BeginAnim(grown, base.current, Len(grown.entries), FALSE)
  BY DEF MountOn
<1> HIDE DEF grown, base, es, kept, c, new
<1> DEFINE to == Len(kept.entries) + 1
<1> DEFINE m == BeginAnim(grown, c, to, FALSE)
<1>10. MountOn(n, replacing, target) = m
  BY <1>3, <1>7, <1>8, <1>9
<1>11. c \in DOMAIN grown.entries /\ to \in DOMAIN grown.entries
  BY <1>4, <1>5, <1>7, <1>8
<1>a. FALSE \in BOOLEAN /\ (FALSE => kind = "Stack") /\ ~FALSE
  OBVIOUS
<1>12. /\ m \in Containers /\ m.current = to /\ m.live = grown.live /\ m.last = grown.last
       /\ Stands(m)
       /\ m.anim # None => ~m.anim.gesture /\ grown.live # {}
       /\ m.entries = grown.entries
       /\ Shown(m) = grown.entries[to].path
       /\ grown.live # {} => Announces(m)
       /\ grown.live = {} => m.pending = grown.pending
  <2>1. \A pop \in BOOLEAN : (pop => kind = "Stack") =>
          LET b == BeginAnim(grown, c, to, pop)
          IN  /\ b \in Containers /\ b.current = to /\ b.live = grown.live /\ b.last = grown.last
              /\ Stands(b)
              /\ b.anim # None => ~b.anim.gesture /\ grown.live # {}
              /\ ~pop => b.entries = grown.entries
              /\ Shown(b) = grown.entries[to].path
              /\ grown.live # {} => Announces(b)
              /\ grown.live = {} => b.pending = grown.pending
    BY <1>8, <1>11, BeginAnimFacts
  <2> QED  BY <2>1, <1>a
<1> HIDE DEF m
<1>13. Fits(m)
  <2> SUFFICES ASSUME kind = "Stack", MaxDepth > 0 PROVE Len(kept.entries) + 1 <= MaxDepth
    BY <1>7, <1>8, <1>12 DEF Fits
  <2>1. CASE replacing
    BY <1>1, <1>2, <2>1, ConstantFacts DEF Fits
  <2>2. CASE ~replacing
    BY <1>1, <1>2, <1>4, <2>2, ConstantFacts DEF TooDeep
  <2> QED  BY <2>1, <2>2
<1>14. ASSUME NEW i \in DOMAIN n.entries, i <= n.current, ~(replacing /\ i = n.current)
       PROVE  i \in DOMAIN m.entries /\ m.entries[i] = n.entries[i]
  <2>1. i \in 1 .. Len(kept.entries)
    BY <1>1, <1>2, <1>4, <1>14
  <2> QED  BY <1>2, <1>4, <1>7, <1>8, <1>12, <2>1
<1>15. Shown(m) = target
  BY <1>7, <1>8, <1>12
<1> QED  BY <1>8, <1>10, <1>12, <1>13, <1>14, <1>15

LEMMA LowestFacts ==
  ASSUME NEW is \in SUBSET Nat, is # {}
  PROVE  Lowest(is) \in is
<1>1. PICK i \in is : \A j \in is : ~(<<j, i>> \in OpToRel(<, Nat))
  BY NatLessThanWellFounded, WFMin
<1>2. \A j \in is : ~(j < i)
  BY <1>1 DEF OpToRel
<1>3. \A j \in is : i <= j
  BY <1>2
<1> QED  BY <1>3 DEF Lowest

\* What the container is afterwards, and what the answers mean.
LEMMA NavigateToFacts ==
  ASSUME TypeOK, NEW n \in Containers, n.anim = None, n.live # {}, Stands(n), Announces(n), Fits(n),
         NEW replacing \in BOOLEAN, replacing => kind = "Stack", NEW target \in Paths
  PROVE  LET r == NavigateTo(n, replacing, target)
         IN  /\ r.to \in Containers /\ r.to.live = n.live /\ r.to.last = n.last
             /\ Stands(r.to) /\ Fits(r.to) /\ Announces(r.to)
             /\ r.to.anim # None => ~r.to.anim.gesture
             /\ r.changed \in BOOLEAN /\ r.mounted \in BOOLEAN /\ r.refused \in BOOLEAN
             /\ ~r.changed => r.to = n /\ ~r.mounted
             /\ r.changed => ~r.refused /\ Shown(r.to) = target
             /\ ~r.changed /\ ~r.refused /\ target \in Matched => Shown(n) = target
             /\ \A i \in 1 .. n.current :
                  \/ i \in DOMAIN r.to.entries /\ r.to.entries[i] = n.entries[i]
                  \/ kind = "Stack" /\ (r.to.current < i \/ (replacing /\ i = n.current))
<1> DEFINE r == NavigateTo(n, replacing, target)
<1>1. /\ n.entries \in Seq(Entries) /\ Len(n.entries) \in Nat /\ n.current \in Nat
      /\ DOMAIN n.entries = 1 .. Len(n.entries) /\ n.current \in DOMAIN n.entries /\ n.current >= 1
      /\ 1 .. n.current \subseteq DOMAIN n.entries
  BY DEF Containers, Stands
<1> DEFINE found == Found(n, target)
<1> DEFINE low == Lowest(found)
<1> DEFINE back == BeginAnim(n, n.current, low, kind = "Stack" /\ low < n.current)
<1> DEFINE grown == MountOn(n, replacing, target)
<1>2. CASE ~replacing /\ Shown(n) = target
  <2>1. r = [to |-> n, changed |-> FALSE, mounted |-> FALSE, refused |-> FALSE]
    BY <1>2 DEF NavigateTo, Shown
  <2> HIDE DEF r
  <2>2. r.to = n /\ r.changed = FALSE /\ r.mounted = FALSE /\ r.refused = FALSE
    BY <2>1
  <2> QED  BY <1>1, <1>2, <2>2 DEF r
<1>3. CASE ~replacing /\ Shown(n) # target /\ found # {}
  <2>1. r = [to |-> back, changed |-> TRUE, mounted |-> FALSE, refused |-> FALSE]
    BY <1>3 DEF NavigateTo, Shown
  <2>2. low \in DOMAIN n.entries /\ n.entries[low].path = target /\ low \in Nat
    <3>1. found \in SUBSET Nat
      BY <1>1 DEF Found
    <3>2. low \in found
      BY <1>3, <3>1, LowestFacts
    <3> QED  BY <1>1, <3>2 DEF Found
  <2> HIDE DEF low, r
  <2> DEFINE pop == kind = "Stack" /\ low < n.current
  <2>3. pop \in BOOLEAN /\ (pop => kind = "Stack")
    OBVIOUS
  <2>4. /\ back \in Containers /\ back.current = low /\ back.live = n.live /\ back.last = n.last
        /\ Stands(back) /\ Len(back.entries) <= Len(n.entries)
        /\ back.anim # None => ~back.anim.gesture
        /\ \A i \in 1 .. low : i \in DOMAIN back.entries /\ back.entries[i] = n.entries[i]
        /\ ~pop => back.entries = n.entries
        /\ Shown(back) = target
        /\ Announces(back)
    <3> HIDE DEF pop
    <3>1. LET m == BeginAnim(n, n.current, low, pop)
          IN  /\ m \in Containers /\ m.current = low /\ m.live = n.live /\ m.last = n.last
              /\ Stands(m) /\ Len(m.entries) <= Len(n.entries)
              /\ m.anim # None => ~m.anim.gesture
              /\ \A i \in 1 .. low : i \in DOMAIN m.entries /\ m.entries[i] = n.entries[i]
              /\ ~pop => m.entries = n.entries
              /\ Shown(m) = n.entries[low].path
              /\ Announces(m)
      BY <1>1, <2>2, <2>3, BeginAnimFacts
    <3> QED  BY <2>2, <3>1 DEF pop
  <2> HIDE DEF back
  <2>5. Fits(back)
    <3>1. Len(back.entries) \in Nat
      BY <2>4 DEF Containers
    <3> QED  BY <1>1, <2>4, <3>1, ConstantFacts DEF Fits
  <2>6. r.to = back /\ r.changed = TRUE /\ r.mounted = FALSE /\ r.refused = FALSE
    BY <2>1
  <2>7. ASSUME NEW i \in 1 .. n.current
        PROVE  \/ i \in DOMAIN back.entries /\ back.entries[i] = n.entries[i]
               \/ kind = "Stack" /\ back.current < i
    <3>1. CASE i <= low
      BY <2>2, <2>4, <3>1
    <3>2. CASE ~(i <= low) /\ kind = "Stack"
      BY <1>1, <2>2, <2>4, <3>2
    <3>3. CASE kind # "Stack"
      BY <1>1, <2>4, <3>3
    <3> QED  BY <3>1, <3>2, <3>3
  <2> QED  BY <2>4, <2>5, <2>6, <2>7 DEF r
<1>4. CASE /\ ~(~replacing /\ Shown(n) = target) /\ ~(~replacing /\ found # {})
           /\ target \notin Matched
  <2>1. r = [to |-> n, changed |-> FALSE, mounted |-> FALSE, refused |-> FALSE]
    BY <1>4 DEF NavigateTo, Shown
  <2> HIDE DEF r
  <2>2. r.to = n /\ r.changed = FALSE /\ r.mounted = FALSE /\ r.refused = FALSE
    BY <2>1
  <2> QED  BY <1>1, <1>4, <2>2 DEF r
<1>5. CASE /\ ~(~replacing /\ Shown(n) = target) /\ ~(~replacing /\ found # {})
           /\ target \in Matched /\ TooDeep(n, replacing)
  <2>1. r = [to |-> n, changed |-> FALSE, mounted |-> FALSE, refused |-> TRUE]
    BY <1>5 DEF NavigateTo, Shown
  <2> HIDE DEF r
  <2>2. r.to = n /\ r.changed = FALSE /\ r.mounted = FALSE /\ r.refused = TRUE
    BY <2>1
  <2> QED  BY <1>1, <1>5, <2>2 DEF r
<1>6. CASE /\ ~(~replacing /\ Shown(n) = target) /\ ~(~replacing /\ found # {})
           /\ target \in Matched /\ ~TooDeep(n, replacing)
  <2>1. r = [to |-> grown, changed |-> TRUE, mounted |-> TRUE, refused |-> FALSE]
    BY <1>6 DEF NavigateTo, Shown
  <2> HIDE DEF r
  <2>2. r.to = grown /\ r.changed = TRUE /\ r.mounted = TRUE /\ r.refused = FALSE
    BY <2>1
  <2>3. /\ grown \in Containers /\ grown.live = n.live /\ grown.last = n.last
        /\ Stands(grown) /\ Fits(grown) /\ Shown(grown) = target
        /\ grown.anim # None => ~grown.anim.gesture
        /\ Announces(grown)
        /\ \A i \in DOMAIN n.entries : i <= n.current =>
             \/ i \in DOMAIN grown.entries /\ grown.entries[i] = n.entries[i]
             \/ replacing /\ i = n.current
    BY <1>1, <1>6, MountOnFacts
  <2> HIDE DEF grown
  <2>4. \A i \in 1 .. n.current : i \in DOMAIN n.entries /\ i <= n.current
    BY <1>1
  <2> QED  BY <2>2, <2>3, <2>4 DEF r
<1> QED  BY <1>2, <1>3, <1>4, <1>5, <1>6

(***************************************************************************)
(* A reconciliation, its steps by name.                                    *)
(***************************************************************************)

News      == path # last
Finished  == IF News THEN Finish([Container EXCEPT !.last = path]) ELSE Container
Replacing == News /\ kind = "Stack" /\ shared.replaceNext
Asked     == IF News THEN NavigateTo(Finished, Replacing, path)
             ELSE [to |-> Finished, changed |-> FALSE, mounted |-> FALSE, refused |-> FALSE]
Kept      == IF Asked.refused THEN [Asked.to EXCEPT !.last = Shown(Asked.to)] ELSE Asked.to
Running   == Kept.anim # None /\ ~Kept.anim.gesture
Settled(elapsed) == IF Running /\ elapsed THEN Finish(Kept) ELSE Kept
Done(elapsed)    == [Settled(elapsed) EXCEPT !.live = LiveOf(Settled(elapsed))]
Synced(elapsed)  == Asked.changed \/ (News /\ anim # None) \/ (Running /\ elapsed)

LEMMA ReconcileIs ==
  ASSUME NEW elapsed, Reconcile(elapsed)
  PROVE  /\ phase = "render" /\ SetNav(Done(elapsed))
         /\ path' = IF Asked.refused THEN Shown(Asked.to) ELSE path
         /\ screens' = IF Asked.mounted THEN (screens + 1) % MaxScreens ELSE screens
         /\ shared' = IF Synced(elapsed)
                        THEN [Mirror(Done(elapsed)) EXCEPT
                                !.replaceNext = shared.replaceNext /\ ~Replacing]
                        ELSE [shared EXCEPT !.replaceNext = @ /\ ~Replacing]
         /\ phase' = IF Asked.changed \/ Done(elapsed).live # live THEN "mounted" ELSE "painted"
         /\ overruled' = IF Asked.changed THEN swipe ELSE overruled
         /\ UNCHANGED <<announced, kind, animated, swipe>>
BY DEF Reconcile, News, Finished, Replacing, Asked, Kept, Running, Settled, Done, Synced, Shown

LEMMA ContainerFacts ==
  ASSUME TypeOK
  PROVE  /\ Container \in Containers
         /\ Container.entries = entries /\ Container.current = current /\ Container.anim = anim
         /\ Container.live = live /\ Container.last = last /\ Container.pending = pending
BY DEF TypeOK, Container, Containers, Entries

\* What the program asked for, in a container that stands still.
LEMMA AskedFacts ==
  ASSUME IInv, phase = "render"
  PROVE  /\ Asked.to \in Containers /\ Asked.to.live = live /\ Asked.to.last = path
         /\ Stands(Asked.to) /\ Fits(Asked.to) /\ Announces(Asked.to)
         /\ Asked.changed \in BOOLEAN /\ Asked.mounted \in BOOLEAN /\ Asked.refused \in BOOLEAN
         /\ Asked.changed => ~Asked.refused /\ News /\ Shown(Asked.to) = path
         /\ ~News => Asked.to = Container /\ ~Asked.refused /\ Standing
         /\ News /\ Asked.to.anim # None => ~Asked.to.anim.gesture /\ Asked.changed
         /\ News /\ ~Asked.changed /\ ~Asked.refused /\ path \in Matched
              => Shown(Asked.to) = path
         /\ ~Asked.changed => Standing
         /\ ~Asked.changed /\ anim = None
              => Asked.to.entries = entries /\ Asked.to.current = current
         /\ \A i \in 1 .. current : i \in DOMAIN entries =>
              \/ i \in DOMAIN Asked.to.entries /\ Asked.to.entries[i] = entries[i]
              \/ kind = "Stack" /\ (Asked.to.current < i \/ (shared.replaceNext /\ i = current))
<1> DEFINE n == [Container EXCEPT !.last = path]
<1>1. TypeOK
  BY DEF IInv
<1>2. path \in Paths /\ kind \in {"Stack", "Host"} /\ shared.replaceNext \in BOOLEAN
      /\ Replacing \in BOOLEAN /\ (Replacing => kind = "Stack" /\ shared.replaceNext)
  BY <1>1 DEF TypeOK, Replacing
<1>3. /\ n \in Containers /\ n.entries = entries /\ n.current = current /\ n.anim = anim
      /\ n.live = live /\ n.last = path /\ n.pending = pending
  BY <1>1, <1>2, ContainerFacts DEF Containers
<1>4. entries \in Seq(Entries) /\ Len(entries) \in Nat /\ DOMAIN entries = 1 .. Len(entries)
      /\ current \in Nat
  BY <1>1 DEF TypeOK, Entries
<1>5. Fits(n)
  BY <1>1, <1>3 DEF TypeOK, Fits
<1>6. CASE Fresh
  <2>1. /\ News /\ ~Replacing /\ path = First /\ First \in Matched /\ announced = First
        /\ entries = << >> /\ current = 1 /\ anim = None /\ live = {} /\ pending = None
    BY <1>6, ConstantFacts DEF Fresh, News, Replacing
  <2>2. Finished = n
    BY <1>3, <2>1 DEF Finished, Finish
  <2> HIDE DEF n
  <2>3. PathAt(n.entries, n.current) # First /\ Found(n, First) = {}
    BY <1>3, <1>4, <2>1, ConstantFacts DEF PathAt, Found
  <2>4. ~TooDeep(n, FALSE)
    BY <1>3, <2>1, ConstantFacts DEF TooDeep
  <2> DEFINE m == MountOn(n, FALSE, First)
  <2>5. Asked = [to |-> m, changed |-> TRUE, mounted |-> TRUE, refused |-> FALSE]
    <3>a. Replacing = FALSE
      BY <1>2, <2>1
    <3>1. Asked = NavigateTo(n, FALSE, First)
      BY <2>1, <2>2, <3>a DEF Asked
    <3> QED  BY <2>1, <2>3, <2>4, <3>1 DEF NavigateTo
  <2>6. /\ m \in Containers /\ m.live = n.live /\ m.last = n.last
        /\ Stands(m) /\ Fits(m) /\ Shown(m) = First
        /\ m.anim # None => n.live # {}
        /\ n.live = {} => m.pending = n.pending
    <3>1. FALSE \in BOOLEAN /\ (FALSE => kind = "Stack")
      OBVIOUS
    <3>2. n.current >= 1 /\ n.entries = << >> /\ n.current = 1 /\ n.anim = None
      BY <1>3, <2>1
    <3> QED  BY <1>1, <1>3, <1>5, <2>1, <2>4, <3>1, <3>2, MountOnFacts
  <2> HIDE DEF m
  <2>7. Asked.to = m /\ Asked.changed = TRUE /\ Asked.mounted = TRUE /\ Asked.refused = FALSE
    BY <2>5
  <2>8. Announces(m)
    BY <1>3, <2>1, <2>6 DEF Announces
  <2>9. \A i \in 1 .. current : i \notin DOMAIN entries
    BY <1>4, <2>1
  <2>10. m.anim = None
    BY <1>3, <2>1, <2>6
  <2> QED  BY <1>3, <2>1, <2>6, <2>7, <2>8, <2>9, <2>10
<1>7. CASE Standing /\ ~News
  <2>1. Asked = [to |-> Container, changed |-> FALSE, mounted |-> FALSE, refused |-> FALSE]
    BY <1>7 DEF Asked, Finished
  <2>2. /\ Asked.to = Container /\ Asked.changed = FALSE /\ Asked.mounted = FALSE
        /\ Asked.refused = FALSE
    BY <2>1
  <2>3. Fits(Container)
    BY <1>1, ContainerFacts DEF TypeOK, Fits
  <2> QED  BY <1>1, <1>7, <2>2, <2>3, ContainerFacts DEF Standing, News
<1>8. CASE Standing /\ News
  <2>1. Stands(n) /\ Announces(n)
    BY <1>1, <1>3, <1>8, ContainerFacts DEF Standing, Stands, Announces, Shown
  <2> DEFINE f == Finish(n)
  <2>2. /\ f \in Containers /\ f.current = n.current /\ f.anim = None /\ f.live = n.live
        /\ f.last = n.last
        /\ Stands(f) /\ Announces(f) /\ Len(f.entries) <= Len(n.entries)
        /\ \A i \in 1 .. n.current : i \in DOMAIN f.entries /\ f.entries[i] = n.entries[i]
        /\ n.anim = None => f = n
    BY <1>3, <2>1, FinishFacts
  <2>3. Finished = f
    BY <1>8 DEF Finished
  <2> HIDE DEF n, f
  <2>4. Fits(f)
    <3>1. Len(f.entries) \in Nat
      BY <2>2 DEF Containers
    <3> QED  BY <1>3, <1>4, <1>5, <2>2, <3>1, ConstantFacts DEF Fits
  <2>5. Asked = NavigateTo(f, Replacing, path)
    BY <1>8, <2>3 DEF Asked
  <2>6. f.live # {}
    BY <1>3, <1>8, <2>2 DEF Standing
  <2> DEFINE r == NavigateTo(f, Replacing, path)
  <2>7. /\ r.to \in Containers /\ r.to.live = f.live /\ r.to.last = f.last
        /\ Stands(r.to) /\ Fits(r.to) /\ Announces(r.to)
        /\ r.to.anim # None => ~r.to.anim.gesture
        /\ r.changed \in BOOLEAN /\ r.mounted \in BOOLEAN /\ r.refused \in BOOLEAN
        /\ ~r.changed => r.to = f /\ ~r.mounted
        /\ r.changed => ~r.refused /\ Shown(r.to) = path
        /\ ~r.changed /\ ~r.refused /\ path \in Matched => Shown(f) = path
        /\ \A i \in 1 .. f.current :
             \/ i \in DOMAIN r.to.entries /\ r.to.entries[i] = f.entries[i]
             \/ kind = "Stack" /\ (r.to.current < i \/ (Replacing /\ i = f.current))
    BY <1>1, <1>2, <2>2, <2>4, <2>6, NavigateToFacts
  <2>8. Asked = r
    BY <2>5
  <2> HIDE DEF r
  <2>9. \A i \in 1 .. current : i \in DOMAIN entries =>
          \/ i \in DOMAIN r.to.entries /\ r.to.entries[i] = entries[i]
          \/ kind = "Stack" /\ (r.to.current < i \/ (shared.replaceNext /\ i = current))
    BY <1>2, <1>3, <2>2, <2>7
  <2>10. ~r.changed => r.to.anim = None
    BY <2>2, <2>7
  <2>11. ~r.changed /\ anim = None => r.to.entries = entries /\ r.to.current = current
    BY <1>3, <2>2, <2>7
  <2> QED  BY <1>3, <1>8, <2>2, <2>7, <2>8, <2>9, <2>10, <2>11
<1> QED  BY <1>6, <1>7, <1>8 DEF IInv

LEMMA LiveFacts ==
  ASSUME NEW n \in Containers, Stands(n)
  PROVE  n.current \in LiveOf(n) /\ LiveOf(n) \subseteq DOMAIN n.entries /\ LiveOf(n) \subseteq Nat
<1>1. n.entries \in Seq(Entries) /\ DOMAIN n.entries = 1 .. Len(n.entries) /\ Len(n.entries) \in Nat
  BY DEF Containers
<1>2. LiveOf(n) \subseteq DOMAIN n.entries /\ n.current \in LiveOf(n)
  BY DEF LiveOf, Stands
<1> QED  BY <1>1, <1>2

\* What the container is when the path was followed and the transition that is
\* over was completed.
LEMMA DoneFacts ==
  ASSUME IInv, phase = "render", NEW elapsed \in BOOLEAN
  PROVE  LET d == Done(elapsed)
         IN  /\ d \in Containers /\ Stands(d) /\ Fits(d) /\ Announces(d)
             /\ d.live = LiveOf(d) /\ d.live # {}
             /\ d.last = (IF Asked.refused THEN Shown(Asked.to) ELSE path)
             /\ d.current = Asked.to.current /\ Shown(d) = Shown(Asked.to)
             /\ d.anim = None \/ d.anim = Asked.to.anim
             /\ \A i \in 1 .. d.current :
                  i \in DOMAIN d.entries /\ d.entries[i] = Asked.to.entries[i]
             /\ ~(Running /\ elapsed) => d.entries = Asked.to.entries /\ d.anim = Asked.to.anim
             /\ Running <=> Asked.to.anim # None /\ ~Asked.to.anim.gesture
             /\ kind = "Host" => d.entries = Asked.to.entries
<1> DEFINE a == Asked.to
<1> DEFINE k == Kept
<1>1. /\ a \in Containers /\ Stands(a) /\ Fits(a) /\ Announces(a) /\ a.last = path
  BY AskedFacts
<1>2. a.entries \in Seq(Entries) /\ a.current \in Nat /\ Shown(a) \in Paths
  <2>1. a.entries \in Seq(Entries) /\ a.current \in Nat
    BY <1>1 DEF Containers
  <2> QED  BY <1>1, <2>1, ShownFacts, ConstantFacts DEF Stands, Shown
<1>3. /\ k \in Containers /\ k.entries = a.entries /\ k.current = a.current /\ k.anim = a.anim
      /\ k.pending = a.pending
      /\ k.last = IF Asked.refused THEN Shown(a) ELSE path
  BY <1>1, <1>2 DEF Kept, Containers
<1> HIDE DEF a, k
<1>4. Stands(k) /\ Fits(k) /\ Announces(k) /\ Shown(k) = Shown(a)
  BY <1>1, <1>3 DEF Stands, Fits, Announces, Shown
<1> DEFINE s == Settled(elapsed)
<1>5. /\ s \in Containers /\ s.current = k.current /\ s.last = k.last
      /\ Stands(s) /\ Announces(s) /\ Shown(s) = Shown(k)
      /\ Len(s.entries) <= Len(k.entries)
      /\ \A i \in 1 .. k.current : i \in DOMAIN s.entries /\ s.entries[i] = k.entries[i]
      /\ kind = "Host" => s.entries = k.entries
      /\ s.anim = None \/ s.anim = k.anim
      /\ ~(Running /\ elapsed) => s = k
  <2>1. k.entries \in Seq(Entries) /\ Len(k.entries) \in Nat
        /\ DOMAIN k.entries = 1 .. Len(k.entries) /\ 1 .. k.current \subseteq DOMAIN k.entries
    BY <1>3, <1>4 DEF Containers, Stands
  <2>2. CASE Running /\ elapsed
    <3>1. s = Finish(k)
      BY <2>2 DEF Settled, k
    <3> HIDE DEF s
    <3> QED  BY <1>3, <1>4, <2>2, <3>1, FinishFacts
  <2>3. CASE ~(Running /\ elapsed)
    <3>1. s = k
      BY <2>3 DEF Settled, k
    <3> HIDE DEF s
    <3> QED  BY <1>3, <1>4, <2>1, <3>1
  <2> QED  BY <2>2, <2>3
<1>6. Fits(s)
  <2> HIDE DEF s
  <2>1. Len(s.entries) \in Nat /\ Len(k.entries) \in Nat
    BY <1>3, <1>5 DEF Containers
  <2> QED  BY <1>4, <1>5, <2>1, ConstantFacts DEF Fits
<1> DEFINE d == [s EXCEPT !.live = LiveOf(s)]
<1>7. d = Done(elapsed)
  BY DEF Done
<1> HIDE DEF s
<1>8. s.current \in LiveOf(s) /\ LiveOf(s) \in SUBSET Nat
  BY <1>5, LiveFacts
<1>9. /\ d \in Containers /\ d.entries = s.entries /\ d.current = s.current /\ d.anim = s.anim
      /\ d.pending = s.pending /\ d.last = s.last /\ d.live = LiveOf(s)
  BY <1>5, <1>8 DEF Containers
<1> HIDE DEF d
<1>10. Stands(d) /\ Fits(d) /\ Announces(d) /\ Shown(d) = Shown(s) /\ LiveOf(d) = LiveOf(s)
  BY <1>5, <1>6, <1>9 DEF Stands, Fits, Announces, Shown, LiveOf
<1>11. Running <=> a.anim # None /\ ~a.anim.gesture
  BY <1>3 DEF Running, k
<1> QED  BY <1>3, <1>4, <1>5, <1>7, <1>8, <1>9, <1>10, <1>11 DEF a

\* SetNav: the variables are the container's parts.
LEMMA ContainerIs ==
  ASSUME NEW d \in Containers, SetNav(d)
  PROVE  Container' = d
BY DEF Containers, SetNav, Container

LEMMA ReconcileInvariant ==
  ASSUME IInv, NEW elapsed \in BOOLEAN, Reconcile(elapsed)
  PROVE  IInv'
<1> DEFINE d == Done(elapsed)
<1> DEFINE a == Asked.to
<1>1. /\ phase = "render" /\ SetNav(d)
      /\ path' = IF Asked.refused THEN Shown(a) ELSE path
      /\ screens' = IF Asked.mounted THEN (screens + 1) % MaxScreens ELSE screens
      /\ shared' = IF Synced(elapsed)
                     THEN [Mirror(d) EXCEPT !.replaceNext = shared.replaceNext /\ ~Replacing]
                     ELSE [shared EXCEPT !.replaceNext = @ /\ ~Replacing]
      /\ phase' = IF Asked.changed \/ d.live # live THEN "mounted" ELSE "painted"
      /\ overruled' = IF Asked.changed THEN swipe ELSE overruled
      /\ UNCHANGED <<announced, kind, animated, swipe>>
  BY ReconcileIs
<1>2. /\ d \in Containers /\ Stands(d) /\ Fits(d) /\ Announces(d)
      /\ d.live = LiveOf(d) /\ d.live # {}
      /\ d.last = (IF Asked.refused THEN Shown(a) ELSE path)
      /\ d.current = a.current /\ Shown(d) = Shown(a)
      /\ d.anim = None \/ d.anim = a.anim
      /\ ~(Running /\ elapsed) => d.entries = a.entries /\ d.anim = a.anim
      /\ Running <=> a.anim # None /\ ~a.anim.gesture
  BY <1>1, DoneFacts
<1>3. /\ a \in Containers /\ Stands(a)
      /\ Asked.changed \in BOOLEAN /\ Asked.mounted \in BOOLEAN /\ Asked.refused \in BOOLEAN
      /\ Asked.changed => ~Asked.refused /\ News /\ Shown(a) = path
      /\ ~News => a = Container /\ ~Asked.refused /\ Standing
      /\ News /\ a.anim # None => ~a.anim.gesture /\ Asked.changed
      /\ News /\ ~Asked.changed /\ ~Asked.refused /\ path \in Matched => Shown(a) = path
      /\ ~Asked.changed => Standing
      /\ ~Asked.changed /\ anim = None => a.entries = entries /\ a.current = current
  BY <1>1, AskedFacts
<1>4. TypeOK /\ SharedMirrorsStack
  BY DEF IInv
<1>5. Shown(a) \in Matched
  <2>1. a.entries \in Seq(Entries) /\ a.current \in Nat
    BY <1>3 DEF Containers
  <2> QED  BY <1>3, <2>1, ShownFacts DEF Stands, Shown
<1> HIDE DEF d, a
<1>6. Container' = d
  BY <1>1, <1>2, ContainerIs
<1>7. /\ entries' = d.entries /\ current' = d.current /\ anim' = d.anim /\ live' = d.live
      /\ last' = d.last /\ pending' = d.pending
  BY <1>1 DEF SetNav
<1>8. path' = last' /\ path' \in Paths /\ last' \in Paths
  BY <1>1, <1>2, <1>4, <1>5, <1>7, ConstantFacts DEF TypeOK
<1>9. Stands(Container)' /\ live' # {} /\ LiveOf(Container)' = live' /\ Announces(Container)'
  BY <1>1, <1>2, <1>6, <1>7 DEF Stands, Announces, LiveOf, Shown
<1>10. Follows(Container)'
  <2> SUFFICES ASSUME d.last \in Matched, ~overruled'
               PROVE  /\ d.anim = None \/ ~d.anim.gesture => Shown(d) = d.last
                      /\ d.anim # None /\ d.anim.gesture => PathAt(d.entries, d.anim.outgoing) = d.last
    BY <1>6 DEF Follows, Shown
  <2>1. CASE Asked.changed
    BY <1>2, <1>3, <2>1
  <2>2. CASE ~Asked.changed /\ News
    BY <1>2, <1>3, <2>2
  <2>3. CASE ~Asked.changed /\ ~News
    <3>1. a = Container /\ Follows(Container) /\ d.last = last /\ ~overruled
      BY <1>1, <1>2, <1>3, <2>3 DEF Standing, News
    <3>2. Container.last = last /\ a.anim = anim
      BY <1>4, <3>1, ContainerFacts
    <3>3. CASE Running
      BY <1>2, <3>1, <3>2, <3>3 DEF Follows
    <3>4. CASE ~Running
      <4>1. d.entries = a.entries /\ d.anim = a.anim
        BY <1>2, <3>4
      <4> QED  BY <1>2, <3>1, <3>2, <3>4, <4>1 DEF Follows
    <3> QED  BY <3>3, <3>4
  <2> QED  BY <2>1, <2>2, <2>3
<1>11. swipe' /\ anim' # None /\ ~anim'.gesture => overruled'
  <2> SUFFICES ASSUME swipe, d.anim # None, ~d.anim.gesture PROVE overruled'
    BY <1>1, <1>7
  <2>1. CASE Asked.changed
    BY <1>1, <2>1
  <2>2. CASE ~Asked.changed
    <3>1. ~News /\ a = Container /\ Standing /\ d.anim = a.anim
      BY <1>2, <1>3, <2>2
    <3> QED  BY <1>1, <1>4, <2>2, <3>1, ContainerFacts DEF Standing
  <2> QED  BY <2>1, <2>2
<1>12. Standing'
  BY <1>8, <1>9, <1>10, <1>11 DEF Standing
<1>13. Framed'
  BY <1>8, <1>9 DEF Framed
<1>14. d.entries \in Seq(Entries) /\ d.current \in Nat /\ d.anim \in Anims \cup {None}
       /\ d.live \subseteq Nat /\ d.pending \in Paths \cup {None}
  BY <1>2 DEF Containers
<1>15. /\ shared' \in [paths : Seq(Matched), current : Nat, replaceNext : BOOLEAN]
       /\ shared'.current = d.current
       /\ shared'.paths = [i \in DOMAIN d.entries |-> d.entries[i].path]
  <2>1. (shared.replaceNext /\ ~Replacing) \in BOOLEAN
    OBVIOUS
  <2>2. shared \in [paths : Seq(Matched), current : Nat, replaceNext : BOOLEAN]
    BY <1>4 DEF TypeOK
  <2> DEFINE paths == [i \in DOMAIN d.entries |-> d.entries[i].path]
  <2>3. paths \in Seq(Matched)
    <3>1. \A i \in DOMAIN d.entries : d.entries[i] \in Entries
      BY <1>14
    <3>2. \A e \in Entries : e.path \in Matched
      BY DEF Entries
    <3>3. DOMAIN d.entries = 1 .. Len(d.entries) /\ Len(d.entries) \in Nat
      BY <1>14
    <3> HIDE DEF Entries
    <3>4. \A i \in 1 .. Len(d.entries) : d.entries[i].path \in Matched
      BY <3>1, <3>2, <3>3
    <3> QED  BY <3>3, <3>4
  <2>4. CASE Synced(elapsed)
    <3>1. shared' = [Mirror(d) EXCEPT !.replaceNext = shared.replaceNext /\ ~Replacing]
      BY <1>1, <2>4
    <3>2. shared' = [paths |-> paths, current |-> d.current,
                     replaceNext |-> shared.replaceNext /\ ~Replacing]
      BY <3>1 DEF Mirror
    <3> HIDE DEF paths
    <3>3. /\ shared' \in [paths : Seq(Matched), current : Nat, replaceNext : BOOLEAN]
          /\ shared'.current = d.current /\ shared'.paths = paths
      BY <1>14, <2>1, <2>3, <3>2
    <3> QED  BY <3>3 DEF paths
  <2>5. CASE ~Synced(elapsed)
    <3>1. shared' = [shared EXCEPT !.replaceNext = @ /\ ~Replacing]
      BY <1>1, <2>5
    <3>2. /\ shared' \in [paths : Seq(Matched), current : Nat, replaceNext : BOOLEAN]
          /\ shared'.current = shared.current /\ shared'.paths = shared.paths
      BY <2>1, <2>2, <3>1
    <3>3. d.entries = entries /\ d.current = current
      <4>1. ~Asked.changed /\ ~(News /\ anim # None) /\ ~(Running /\ elapsed)
        BY <2>5 DEF Synced
      <4>2. a.entries = entries /\ a.current = current
        BY <1>3, <1>4, <4>1, ContainerFacts
      <4> QED  BY <1>2, <4>1, <4>2
    <3>4. shared.current = current /\ shared.paths = [i \in DOMAIN entries |-> entries[i].path]
      BY <1>4 DEF SharedMirrorsStack
    <3> QED  BY <3>2, <3>3, <3>4
  <2> QED  BY <2>4, <2>5
<1>16. SharedMirrorsStack'
  BY <1>7, <1>15 DEF SharedMirrorsStack
<1>17. screens' \in 0 .. MaxScreens - 1
  BY <1>1, <1>4, ConstantFacts DEF TypeOK
<1>18. TypeOK'
  <2>1. /\ kind' \in {"Stack", "Host"} /\ animated' \in BOOLEAN /\ swipe' \in BOOLEAN
        /\ announced' \in Paths /\ overruled' \in BOOLEAN
        /\ phase' \in {"input", "taps", "render", "mounted", "painted"}
    BY <1>1, <1>4 DEF TypeOK
  <2>2. kind' = "Stack" /\ MaxDepth > 0 => Len(entries') <= MaxDepth
    BY <1>1, <1>2, <1>7 DEF Fits
  <2> QED  BY <1>7, <1>8, <1>14, <1>15, <1>17, <2>1, <2>2 DEF TypeOK, Entries
<1>19. Told'
  BY <1>1 DEF Told
<1> QED  BY <1>12, <1>13, <1>16, <1>18, <1>19 DEF IInv

(***************************************************************************)
(* The other actions, one after another.                                   *)
(***************************************************************************)

\* Between two renders there is a screen.
LEMMA OutsideRender ==
  ASSUME IInv, phase # "render"
  PROVE  /\ Standing /\ Len(entries) \in Nat /\ DOMAIN entries = 1 .. Len(entries)
         /\ current \in DOMAIN entries
         /\ \A i \in DOMAIN entries : entries[i] \in Entries /\ entries[i].path \in Matched
         /\ shared.current = current
         /\ DOMAIN shared.paths = DOMAIN entries
         /\ \A i \in DOMAIN entries : shared.paths[i] = entries[i].path
<1>1. Standing
  BY DEF IInv, Fresh
<1>2. entries \in Seq(Entries) /\ current \in DOMAIN entries
  BY <1>1, ContainerFacts DEF IInv, TypeOK, Entries, Standing, Stands
<1>3. \A i \in DOMAIN entries : entries[i] \in Entries
  BY <1>2
<1>4. \A e \in Entries : e.path \in Matched
  BY DEF Entries
<1>5. shared.current = current /\ shared.paths = [i \in DOMAIN entries |-> entries[i].path]
  BY DEF IInv, SharedMirrorsStack
<1> HIDE DEF Entries
<1> QED  BY <1>1, <1>2, <1>3, <1>4, <1>5

\* What the program does to the path leaves the container alone.
LEMMA PathInvariant ==
  ASSUME IInv, phase # "render", phase # "painted", path' \in Paths,
         UNCHANGED <<kind, animated, nav, swipe, screens, announced, overruled>>,
         phase' = phase, shared' \in [paths : Seq(Matched), current : Nat, replaceNext : BOOLEAN],
         shared'.current = shared.current, shared'.paths = shared.paths
  PROVE  IInv'
<1>1. /\ entries' = entries /\ current' = current /\ anim' = anim /\ live' = live
      /\ last' = last /\ pending' = pending
  BY DEF nav
<1>2. Container' = Container
  BY <1>1 DEF Container
<1>3. Standing /\ TypeOK /\ SharedMirrorsStack /\ Told
  BY OutsideRender DEF IInv
<1>4. Standing'
  BY <1>1, <1>2, <1>3 DEF Standing, Stands, Announces, Follows, Shown
<1>5. TypeOK'
  BY <1>1, <1>3 DEF TypeOK
<1>6. SharedMirrorsStack' /\ Framed' /\ Told'
  BY <1>1, <1>3 DEF SharedMirrorsStack, Framed, Told
<1> QED  BY <1>4, <1>5, <1>6 DEF IInv

LEMMA NavigateInvariant == ASSUME IInv, NEW p \in Paths, Navigate(p) PROVE IInv'
<1>1. shared \in [paths : Seq(Matched), current : Nat, replaceNext : BOOLEAN]
  BY DEF IInv, TypeOK
<1>2. phase # "render" /\ phase # "painted" /\ path' \in Paths /\ shared' = shared /\ phase' = phase
  BY DEF Navigate, Writing
<1> QED  BY <1>1, <1>2, PathInvariant DEF Navigate

LEMMA ReplaceInvariant == ASSUME IInv, NEW p \in Paths, Replace(p) PROVE IInv'
<1>1. shared \in [paths : Seq(Matched), current : Nat, replaceNext : BOOLEAN]
  BY DEF IInv, TypeOK
<1>2. phase # "render" /\ phase # "painted" /\ path' \in Paths /\ phase' = phase
      /\ shared' = [shared EXCEPT !.replaceNext = TRUE]
  BY DEF Replace, Writing
<1>3. /\ shared' \in [paths : Seq(Matched), current : Nat, replaceNext : BOOLEAN]
      /\ shared'.current = shared.current /\ shared'.paths = shared.paths
  BY <1>1, <1>2
<1> QED  BY <1>2, <1>3, PathInvariant DEF Replace

LEMMA BackInvariant == ASSUME IInv, Back PROVE IInv'
<1>1. shared \in [paths : Seq(Matched), current : Nat, replaceNext : BOOLEAN]
  BY DEF IInv, TypeOK
<1>2. phase # "render" /\ phase # "painted" /\ shared' = shared /\ phase' = phase
  BY DEF Back, Writing
<1>3. path' \in Paths
  BY <1>2, OutsideRender, ConstantFacts DEF Back
<1> QED  BY <1>1, <1>2, <1>3, PathInvariant DEF Back

\* A finger on the edge: the screen that leaves stays the one of the path.
LEMMA BeginSwipeInvariant == ASSUME IInv, BeginSwipe PROVE IInv'
<1> DEFINE a == [outgoing |-> current, incoming |-> current - 1, pop |-> TRUE,
                 gesture |-> TRUE, far |-> FALSE]
<1>1. /\ phase = "input" /\ kind = "Stack" /\ current > 1 /\ anim = None
      /\ current' = current - 1 /\ anim' = a
      /\ shared' = [shared EXCEPT !.current = current - 1] /\ swipe' = TRUE
      /\ UNCHANGED <<kind, animated, path, entries, live, last, pending, phase, screens,
                     announced, overruled>>
  BY DEF BeginSwipe
<1>2. TypeOK /\ SharedMirrorsStack /\ Standing /\ current \in 1 .. Len(entries)
      /\ DOMAIN entries = 1 .. Len(entries) /\ Len(entries) \in Nat
  BY <1>1, OutsideRender DEF IInv
<1>3. a \in Anims /\ a.outgoing = current /\ a.incoming = current - 1 /\ a.gesture = TRUE
  BY <1>1, <1>2 DEF Anims
<1>4. anim' # None
  BY <1>1, <1>3, ConstantFacts
<1> HIDE DEF a
<1>5. current - 1 \in DOMAIN entries /\ current - 1 \in Nat /\ current \in DOMAIN entries
  BY <1>1, <1>2
<1>6. Stands(Container)' /\ Announces(Container)'
  BY <1>1, <1>3, <1>4, <1>5 DEF Stands, Announces, Container
<1>7. Follows(Container)'
  <2>1. last \in Matched /\ ~overruled => PathAt(entries, current) = last
    BY <1>1, <1>2, ContainerFacts DEF Standing, Follows, Shown
  <2> QED  BY <1>1, <1>3, <1>4, <2>1 DEF Follows, Container
<1>8. Standing'
  BY <1>1, <1>2, <1>3, <1>4, <1>6, <1>7 DEF Standing
<1>9. TypeOK'
  <2>1. shared' \in [paths : Seq(Matched), current : Nat, replaceNext : BOOLEAN]
    BY <1>1, <1>2, <1>5 DEF TypeOK
  <2> QED  BY <1>1, <1>2, <1>3, <1>5, <2>1 DEF TypeOK
<1>10. SharedMirrorsStack'
  <2>1. shared \in [paths : Seq(Matched), current : Nat, replaceNext : BOOLEAN]
    BY <1>2 DEF TypeOK
  <2> QED  BY <1>1, <1>2, <2>1 DEF SharedMirrorsStack
<1>11. Framed' /\ Told'
  BY <1>1 DEF Framed, Told
<1> QED  BY <1>8, <1>9, <1>10, <1>11 DEF IInv

LEMMA DriveSwipeInvariant == ASSUME IInv, DriveSwipe PROVE IInv'
<1>1. /\ phase = "input" /\ anim # None /\ anim' = [anim EXCEPT !.far = ~@]
      /\ UNCHANGED <<kind, animated, path, entries, current, live, last, pending, shared, swipe,
                     phase, screens, announced, overruled>>
  BY DEF DriveSwipe
<1>2. TypeOK /\ SharedMirrorsStack /\ Standing
  BY <1>1, OutsideRender DEF IInv
<1>3. anim \in Anims
  BY <1>1, <1>2 DEF TypeOK
<1>4. /\ anim' \in Anims /\ anim'.outgoing = anim.outgoing /\ anim'.incoming = anim.incoming
      /\ anim'.pop = anim.pop /\ anim'.gesture = anim.gesture
  BY <1>1, <1>3 DEF Anims
<1>5. anim' # None
  BY <1>4, ConstantFacts
<1>6. Stands(Container)' /\ Announces(Container)'
  BY <1>1, <1>2, <1>4, <1>5, ContainerFacts DEF Standing, Stands, Announces, Container
<1>7. Follows(Container)'
  BY <1>1, <1>2, <1>4, <1>5, ContainerFacts DEF Standing, Follows, Shown, Container
<1>8. Standing'
  BY <1>1, <1>2, <1>4, <1>5, <1>6, <1>7 DEF Standing
<1>9. TypeOK'
  BY <1>1, <1>2, <1>4 DEF TypeOK
<1>10. SharedMirrorsStack' /\ Framed' /\ Told'
  BY <1>1, <1>2 DEF SharedMirrorsStack, Framed, Told
<1> QED  BY <1>8, <1>9, <1>10 DEF IInv

\* The path follows the finger.
LEMMA ReleaseToPopInvariant == ASSUME IInv, ReleaseToPop PROVE IInv'
<1>1. /\ phase = "input" /\ anim # None /\ anim' = [anim EXCEPT !.gesture = FALSE] /\ swipe' = FALSE
      /\ UNCHANGED <<kind, animated, entries, current, live, pending, shared, phase, screens,
                     announced, overruled>>
  BY DEF ReleaseToPop
<1>2. TypeOK /\ SharedMirrorsStack /\ Standing /\ current \in DOMAIN entries
      /\ entries[current].path \in Matched
  BY <1>1, OutsideRender DEF IInv
<1>3. path' = entries[current].path /\ last' = entries[current].path
  BY <1>2 DEF ReleaseToPop
<1>4. anim \in Anims
  BY <1>1, <1>2 DEF TypeOK
<1>5. /\ anim' \in Anims /\ anim'.outgoing = anim.outgoing /\ anim'.incoming = anim.incoming
      /\ anim'.pop = anim.pop /\ anim'.gesture = FALSE
  BY <1>1, <1>4 DEF Anims
<1>6. anim' # None
  BY <1>5, ConstantFacts
<1>7. Stands(Container)' /\ Announces(Container)'
  BY <1>1, <1>2, <1>5, <1>6, ContainerFacts DEF Standing, Stands, Announces, Container
<1>8. Follows(Container)'
  BY <1>1, <1>2, <1>3, <1>5, <1>6 DEF Follows, Shown, PathAt, Container
<1>9. Standing'
  BY <1>1, <1>2, <1>3, <1>7, <1>8, ConstantFacts DEF Standing
<1>10. TypeOK'
  BY <1>1, <1>2, <1>3, <1>5, ConstantFacts DEF TypeOK
<1>11. SharedMirrorsStack' /\ Framed' /\ Told'
  BY <1>1, <1>2 DEF SharedMirrorsStack, Framed, Told
<1> QED  BY <1>9, <1>10, <1>11 DEF IInv

\* The screen that was leaving is the current one again.
LEMMA ReleaseToStayInvariant == ASSUME IInv, ReleaseToStay PROVE IInv'
<1> DEFINE a == [outgoing |-> anim.incoming, incoming |-> anim.outgoing, pop |-> FALSE,
                 gesture |-> FALSE, far |-> FALSE]
<1>1. /\ phase = "input" /\ swipe /\ anim # None /\ anim' = a /\ swipe' = FALSE
      /\ current' = anim.outgoing /\ shared' = [shared EXCEPT !.current = anim.outgoing]
      /\ UNCHANGED <<kind, animated, path, entries, live, last, pending, phase, screens,
                     announced, overruled>>
  BY DEF ReleaseToStay
<1>2. TypeOK /\ SharedMirrorsStack /\ Standing /\ current \in DOMAIN entries
  BY <1>1, OutsideRender DEF IInv
<1>3. anim \in Anims
  BY <1>1, <1>2 DEF TypeOK
<1>4. anim.incoming = current /\ anim.outgoing \in DOMAIN entries /\ anim.outgoing \in Nat
      /\ anim.incoming \in Nat
  BY <1>1, <1>2, <1>3, ContainerFacts DEF Standing, Stands, Anims
<1>5. /\ a \in Anims /\ a.outgoing = current /\ a.incoming = anim.outgoing
      /\ a.pop = FALSE /\ a.gesture = FALSE
  BY <1>4 DEF Anims
<1> HIDE DEF a
<1>6. anim' # None
  BY <1>1, <1>5, ConstantFacts
<1>7. Stands(Container)' /\ Announces(Container)'
  BY <1>1, <1>2, <1>4, <1>5, <1>6 DEF Stands, Announces, Container
<1>8. Follows(Container)'
  <2>1. last \in Matched /\ ~overruled => PathAt(entries, anim.outgoing) = last
    <3>1. CASE anim.gesture
      BY <1>1, <1>2, <3>1, ContainerFacts DEF Standing, Follows
    <3>2. CASE ~anim.gesture
      BY <1>1, <1>2, <3>2 DEF Standing
    <3> QED  BY <3>1, <3>2
  <2> QED  BY <1>1, <1>5, <1>6, <2>1 DEF Follows, Shown, Container
<1>9. Standing'
  BY <1>1, <1>2, <1>7, <1>8 DEF Standing
<1>10. shared \in [paths : Seq(Matched), current : Nat, replaceNext : BOOLEAN]
  BY <1>2 DEF TypeOK
<1>11. TypeOK'
  <2>1. shared' \in [paths : Seq(Matched), current : Nat, replaceNext : BOOLEAN]
    BY <1>1, <1>4, <1>10
  <2> QED  BY <1>1, <1>2, <1>4, <1>5, <2>1 DEF TypeOK
<1>12. SharedMirrorsStack'
  BY <1>1, <1>2, <1>10 DEF SharedMirrorsStack
<1>13. Framed' /\ Told'
  BY <1>1 DEF Framed, Told
<1> QED  BY <1>9, <1>11, <1>12, <1>13 DEF IInv

LEMMA ReleaseNothingInvariant == ASSUME IInv, ReleaseNothing PROVE IInv'
<1>1. /\ phase = "input" /\ anim = None /\ swipe' = FALSE
      /\ UNCHANGED <<kind, animated, path, entries, current, anim, live, last, pending, shared,
                     phase, screens, announced, overruled>>
  BY DEF ReleaseNothing, nav
<1>2. TypeOK /\ SharedMirrorsStack /\ Standing /\ Container' = Container
  BY <1>1, OutsideRender DEF IInv, Container
<1>3. Standing'
  BY <1>1, <1>2 DEF Standing, Stands, Announces, Follows, Shown
<1>4. TypeOK' /\ SharedMirrorsStack' /\ Framed' /\ Told'
  BY <1>1, <1>2 DEF TypeOK, SharedMirrorsStack, Framed, Told
<1> QED  BY <1>3, <1>4 DEF IInv

\* What is announced is what is shown, unless a transition is under way.
LEMMA FireRouteChangeInvariant == ASSUME IInv, FireRouteChange PROVE IInv'
<1>1. /\ phase = "input" /\ phase' = "taps" /\ pending' = None
      /\ announced' = (IF pending # None THEN pending ELSE announced)
      /\ UNCHANGED <<kind, animated, path, entries, current, anim, live, last, shared, swipe,
                     screens, overruled>>
  BY DEF FireRouteChange
<1>2. TypeOK /\ SharedMirrorsStack /\ Standing
  BY <1>1, OutsideRender DEF IInv
<1>3. Stands(Container)'
  BY <1>1, <1>2, ContainerFacts DEF Standing, Stands, Container
<1>4. Announces(Container)'
  BY <1>1, <1>2, ContainerFacts DEF Standing, Announces, Shown, Container
<1>5. Follows(Container)'
  BY <1>1, <1>2, ContainerFacts DEF Standing, Follows, Shown, Container
<1>6. Standing'
  BY <1>1, <1>2, <1>3, <1>4, <1>5 DEF Standing
<1>7. TypeOK'
  BY <1>1, <1>2 DEF TypeOK
<1>8. SharedMirrorsStack' /\ Framed' /\ Told'
  BY <1>1, <1>2 DEF SharedMirrorsStack, Framed, Told
<1> QED  BY <1>6, <1>7, <1>8 DEF IInv

LEMMA PhaseInvariant ==
  ASSUME IInv, phase # "render", phase' \in {"input", "render"},
         UNCHANGED <<kind, animated, path, nav, shared, swipe, screens, announced, overruled>>
  PROVE  IInv'
<1>1. /\ entries' = entries /\ current' = current /\ anim' = anim /\ live' = live
      /\ last' = last /\ pending' = pending
  BY DEF nav
<1>2. TypeOK /\ SharedMirrorsStack /\ Standing /\ Container' = Container
  BY <1>1, OutsideRender DEF IInv, Container
<1>3. Standing'
  BY <1>1, <1>2 DEF Standing, Stands, Announces, Follows, Shown
<1>4. TypeOK' /\ SharedMirrorsStack' /\ Framed' /\ Told'
  BY <1>1, <1>2 DEF TypeOK, SharedMirrorsStack, Framed, Told
<1> QED  BY <1>3, <1>4 DEF IInv

LEMMA StutterInvariant == IInv /\ UNCHANGED vars => IInv'
<1> SUFFICES ASSUME IInv, UNCHANGED vars PROVE IInv'
  OBVIOUS
<1>1. UNCHANGED <<kind, animated, path, entries, current, anim, live, last, pending, shared, swipe,
                  phase, screens, announced, overruled>>
  BY DEF vars, nav
<1>2. Container' = Container
  BY <1>1 DEF Container
<1>3. (Fresh => Fresh') /\ (Standing => Standing')
  BY <1>1, <1>2 DEF Fresh, Standing, Stands, Announces, Follows, Shown
<1>4. TypeOK' /\ SharedMirrorsStack' /\ Framed' /\ Told'
  BY <1>1, <1>2 DEF IInv, TypeOK, SharedMirrorsStack, Framed, Told, LiveOf
<1> QED  BY <1>3, <1>4 DEF IInv

LEMMA InitInvariant == Init => IInv
<1> SUFFICES ASSUME Init PROVE IInv
  OBVIOUS
<1>1. /\ kind \in {"Stack", "Host"} /\ animated \in BOOLEAN /\ path = First
      /\ entries = << >> /\ current = 1 /\ anim = None /\ live = {} /\ last = None /\ pending = None
      /\ shared = [paths |-> << >>, current |-> 1, replaceNext |-> FALSE]
      /\ swipe = FALSE /\ phase = "render" /\ screens = 0
      /\ announced = First /\ overruled = FALSE
  BY DEF Init
<1>2. /\ shared.paths = << >> /\ shared.current = 1 /\ shared.replaceNext = FALSE
      /\ shared \in [paths : Seq(Matched), current : Nat, replaceNext : BOOLEAN]
  BY <1>1
<1>3. Fresh
  BY <1>1, <1>2 DEF Fresh
<1>4. entries \in Seq(Entries) /\ Len(entries) = 0 /\ DOMAIN entries = {}
  BY <1>1
<1>5. 0 \in 0 .. MaxScreens - 1
  BY ConstantFacts
<1>6. TypeOK
  <2>1. kind = "Stack" /\ MaxDepth > 0 => Len(entries) <= MaxDepth
    BY <1>4, ConstantFacts
  <2>2. entries \in Seq([path : Matched, id : 0 .. MaxScreens - 1])
    BY <1>4 DEF Entries
  <2>3. path \in Paths /\ announced \in Paths /\ current \in Nat /\ screens \in 0 .. MaxScreens - 1
    BY <1>1, <1>5, ConstantFacts
  <2>4. swipe \in BOOLEAN /\ overruled \in BOOLEAN
        /\ phase \in {"input", "taps", "render", "mounted", "painted"}
    BY <1>1
  <2>5. anim \in Anims \cup {None} /\ live \subseteq Nat /\ last \in Paths \cup {None}
        /\ pending \in Paths \cup {None}
    BY <1>1
  <2> QED  BY <1>1, <1>2, <2>1, <2>2, <2>3, <2>4, <2>5 DEF TypeOK
<1>7. SharedMirrorsStack
  BY <1>1, <1>2, <1>4 DEF SharedMirrorsStack
<1>8. Framed /\ Told
  BY <1>1 DEF Framed, Told
<1> QED  BY <1>3, <1>6, <1>7, <1>8 DEF IInv

LEMMA NextInvariant == IInv /\ [Next]_vars => IInv'
<1> SUFFICES ASSUME IInv, [Next]_vars PROVE IInv'
  OBVIOUS
<1>1. ASSUME NEW p \in Paths, Navigate(p) PROVE IInv'
  BY <1>1, NavigateInvariant
<1>2. ASSUME NEW p \in Paths, Replace(p) PROVE IInv'
  BY <1>2, ReplaceInvariant
<1>3. CASE Back
  BY <1>3, BackInvariant
<1>4. CASE BeginSwipe
  BY <1>4, BeginSwipeInvariant
<1>5. CASE DriveSwipe
  BY <1>5, DriveSwipeInvariant
<1>6. CASE ReleaseToPop
  BY <1>6, ReleaseToPopInvariant
<1>7. CASE ReleaseToStay
  BY <1>7, ReleaseToStayInvariant
<1>8. CASE ReleaseNothing
  BY <1>8, ReleaseNothingInvariant
<1>9. CASE FireRouteChange
  BY <1>9, FireRouteChangeInvariant
<1>10. CASE BeginRender
  BY <1>10, PhaseInvariant DEF BeginRender
<1>11. CASE NextTick
  BY <1>11, PhaseInvariant DEF NextTick
<1>12. ASSUME NEW elapsed \in BOOLEAN, Reconcile(elapsed) PROVE IInv'
  BY <1>12, ReconcileInvariant
<1>13. CASE UNCHANGED vars
  BY <1>13, StutterInvariant
<1> QED  BY <1>1, <1>2, <1>3, <1>4, <1>5, <1>6, <1>7, <1>8, <1>9, <1>10, <1>11, <1>12, <1>13
         DEF Next

LEMMA Invariant == Spec => []IInv
BY InitInvariant, NextInvariant, PTL DEF Spec

\* Every reachable state of the container is well typed, and a stack is never
\* deeper than max_depth.
THEOREM TypeCorrect == Spec => []TypeOK
<1>1. IInv => TypeOK
  BY DEF IInv
<1> QED  BY <1>1, Invariant, PTL

\* reconcile_nav, the swipe's releases, back and replace: every index a frame is
\* painted by names a screen there is, and what back and replace know the stack
\* by is the stack, whatever cuts it under a transition in flight.
THEOREM StackStaysWhole == Spec => []StackIsWhole
<1>1. IInv => StackIsWhole
  <2> SUFFICES ASSUME IInv PROVE LiveScreensExist
    BY DEF IInv, StackIsWhole
  <2>1. CASE Fresh
    BY <2>1 DEF Fresh, LiveScreensExist
  <2>2. CASE Standing
    <3>1. /\ Container \in Containers /\ Container.entries = entries
          /\ Container.current = current /\ Container.anim = anim /\ Stands(Container)
      BY <2>2, ContainerFacts DEF IInv, Standing
    <3>2. current \in LiveOf(Container) /\ LiveOf(Container) \subseteq DOMAIN entries
      BY <3>1, LiveFacts
    <3>3. phase = "painted" => live = LiveOf(Container)
      BY DEF IInv, Framed
    <3>4. anim # None => {anim.outgoing, anim.incoming} \subseteq DOMAIN entries
      BY <3>1 DEF Stands
    <3> QED  BY <3>2, <3>3, <3>4 DEF LiveScreensExist
  <2> QED  BY <2>1, <2>2 DEF IInv
<1> QED  BY <1>1, Invariant, PTL

\* navigate_to and FireRouteChange: a painted frame shows the screen the path
\* names, and what route_change said last is what is shown once nothing moves,
\* but for a path no route matches and one followed under a finger.
THEOREM PathAndNewsAgree == Spec => []ScreenPathAndNewsAgree
<1>1. IInv => ScreenPathAndNewsAgree
  <2> SUFFICES ASSUME IInv PROVE ScreenFollowsPath /\ SettledIsAnnounced
    BY DEF ScreenPathAndNewsAgree
  <2>1. /\ Container.entries = entries /\ Container.current = current /\ Container.anim = anim
        /\ Container.last = last /\ Container.pending = pending
    BY ContainerFacts DEF IInv
  <2>2. phase # "render" => Announces(Container) /\ Follows(Container)
    BY OutsideRender DEF Standing
  <2>3. ScreenFollowsPath
    BY <2>1, <2>2 DEF ScreenFollowsPath, Gesture, IInv, Framed, Follows, Shown
  <2>4. SettledIsAnnounced
    BY <2>1, <2>2 DEF SettledIsAnnounced, IInv, Told, Announces, Shown
  <2> QED  BY <2>3, <2>4
<1> QED  BY <1>1, Invariant, PTL

\* drop_nav_entries: a screen at or beneath the current one keeps its place and
\* its identity, until a pop below it or a replace of it; tabs never go.
THEOREM ScreensStay == Spec => ScreensArePreserved
<1> DEFINE Stay ==
      \A i \in 1 .. current :
        i \in DOMAIN entries /\ ~(i \in DOMAIN entries' /\ entries'[i] = entries[i])
          => /\ kind = "Stack"
             /\ \/ current' < i
                \/ i = current /\ shared.replaceNext
<1>1. ASSUME IInv, NEW elapsed \in BOOLEAN, Reconcile(elapsed) PROVE Stay
  <2> DEFINE d == Done(elapsed)
  <2> DEFINE a == Asked.to
  <2>1. phase = "render" /\ entries' = d.entries /\ current' = d.current
    BY <1>1, ReconcileIs DEF SetNav
  <2>2. /\ \A i \in 1 .. d.current : i \in DOMAIN d.entries /\ d.entries[i] = a.entries[i]
        /\ kind = "Host" => d.entries = a.entries
        /\ d.current = a.current /\ d.current \in Nat
    BY <1>1, <2>1, DoneFacts DEF Containers
  <2>3. \A i \in 1 .. current : i \in DOMAIN entries =>
          \/ i \in DOMAIN a.entries /\ a.entries[i] = entries[i]
          \/ kind = "Stack" /\ (a.current < i \/ (shared.replaceNext /\ i = current))
    BY <1>1, <2>1, AskedFacts
  <2>4. kind \in {"Stack", "Host"}
    BY <1>1 DEF IInv, TypeOK
  <2> HIDE DEF d, a
  <2> SUFFICES ASSUME NEW i \in 1 .. current, i \in DOMAIN entries,
                      ~(i \in DOMAIN entries' /\ entries'[i] = entries[i])
               PROVE  kind = "Stack" /\ (current' < i \/ (i = current /\ shared.replaceNext))
    OBVIOUS
  <2>5. CASE i <= d.current
    <3>1. i \in 1 .. d.current
      BY <2>2, <2>5
    <3> QED  BY <2>1, <2>2, <2>3, <3>1
  <2>6. CASE ~(i <= d.current)
    BY <2>1, <2>2, <2>3, <2>4, <2>6
  <2> QED  BY <2>5, <2>6
<1>2. IInv /\ [Next]_vars => [Stay]_vars
  <2> SUFFICES ASSUME IInv, Next PROVE Stay
    OBVIOUS
  <2>1. CASE entries' = entries
    BY <2>1
  <2>2. CASE \E elapsed \in BOOLEAN : Reconcile(elapsed)
    BY <1>1, <2>2
  <2>3. entries' = entries \/ \E elapsed \in BOOLEAN : Reconcile(elapsed)
    BY DEF Next, Navigate, Replace, Back, BeginSwipe, DriveSwipe, ReleaseToPop, ReleaseToStay,
           ReleaseNothing, FireRouteChange, BeginRender, NextTick, nav
  <2> QED  BY <2>1, <2>2, <2>3
<1> QED  BY <1>2, Invariant, PTL DEF ScreensArePreserved, Spec
=============================================================================
