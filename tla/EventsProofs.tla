---------------------------- MODULE EventsProofs ----------------------------
(***************************************************************************)
(* The event router is right for any elements, any frames of them and any  *)
(* handlers: what it holds it keeps on the element it took it for, and     *)
(* what an input fires is what the frame on screen allows.  The invariant  *)
(* relates each place the router holds to the element the history says it  *)
(* is for; a step on one frame is shown to be Allowed, a render to move    *)
(* every place to where its element is.                                    *)
(***************************************************************************)
EXTENDS Events, FiniteSetTheorems, WellFoundedInduction, TLAPS

(***************************************************************************)
(* The first and the last of a set of places.                              *)
(***************************************************************************)

LEMMA MinFacts ==
  ASSUME NEW is \in SUBSET Nat, is # {}
  PROVE  Min(is) \in is /\ \A j \in is : Min(is) <= j
<1>1. PICK i \in is : \A j \in is : ~(<<j, i>> \in OpToRel(<, Nat))
  BY NatLessThanWellFounded, WFMin
<1>2. \A j \in is : ~(j < i)
  BY <1>1 DEF OpToRel
<1>3. \A j \in is : i <= j
  BY <1>2
<1> QED  BY <1>3 DEF Min

LEMMA MaxFacts ==
  ASSUME NEW n \in Nat, NEW is \in SUBSET (1..n), is # {}
  PROVE  Max(is) \in is /\ \A j \in is : j <= Max(is)
<1> DEFINE below == {n - i : i \in is}
<1>1. below \in SUBSET Nat /\ below # {}
  <2>1. \A i \in is : i \in Nat /\ n - i \in Nat
    OBVIOUS
  <2> QED  BY <2>1
<1>2. PICK m \in below : \A k \in below : m <= k
  <2> HIDE DEF below
  <2> QED  BY <1>1, MinFacts
<1>3. PICK i \in is : m = n - i
  BY <1>2
<1>4. ASSUME NEW j \in is PROVE i >= j
  <2>1. n - j \in below
    OBVIOUS
  <2>2. n - i <= n - j
    BY <1>2, <1>3, <2>1
  <2>3. i \in 1..n /\ j \in 1..n
    OBVIOUS
  <2> HIDE DEF below
  <2> QED  BY <2>2, <2>3
<1>5. Max(is) \in is /\ \A j \in is : Max(is) >= j
  BY <1>4 DEF Max
<1> QED  BY <1>5

(***************************************************************************)
(* Places.                                                                 *)
(***************************************************************************)

LEMMA FrameFacts ==
  ASSUME NEW f \in Frames
  PROVE  /\ Len(Built[f]) \in Nat /\ DOMAIN Built[f] = 1..Len(Built[f])
         /\ Len(Painted[f]) \in Nat /\ DOMAIN Painted[f] = 1..Len(Painted[f])
         /\ IsInjective(Built[f]) /\ IsInjective(Painted[f])
         /\ Range(Built[f]) \subseteq Elements /\ Range(Painted[f]) \subseteq Range(Built[f])
         /\ None \notin Range(Built[f])
<1>1. /\ Built[f] \in Seq(Elements) /\ Painted[f] \in Seq(Range(Built[f]))
      /\ IsInjective(Built[f]) /\ IsInjective(Painted[f]) /\ None \notin Elements
  BY EventsAssumption
<1>2. Len(Built[f]) \in Nat /\ DOMAIN Built[f] = 1..Len(Built[f])
  BY <1>1
<1>3. Len(Painted[f]) \in Nat /\ DOMAIN Painted[f] = 1..Len(Painted[f])
  BY <1>1
<1>4. Range(Built[f]) \subseteq Elements
  BY <1>1 DEF Range
<1>5. Range(Painted[f]) \subseteq Range(Built[f])
  <2>1. \A i \in DOMAIN Painted[f] : Painted[f][i] \in Range(Built[f])
    BY <1>1
  <2> QED  BY <2>1 DEF Range
<1> QED  BY <1>1, <1>2, <1>3, <1>4, <1>5

LEMMA IndexFacts ==
  ASSUME NEW s, NEW e \in Range(s)
  PROVE  Index(s, e) \in DOMAIN s /\ s[Index(s, e)] = e
BY DEF Index, Range

LEMMA IndexIs ==
  ASSUME NEW s, IsInjective(s), NEW i \in DOMAIN s
  PROVE  Index(s, s[i]) = i
<1>1. s[i] \in Range(s)
  BY DEF Range
<1> QED  BY <1>1, IndexFacts DEF IsInjective

\* No element is built twice: there are no more places than elements.
LEMMA PlacesAreFew ==
  ASSUME NEW f \in Frames
  PROVE  /\ Cardinality(Elements) \in Nat
         /\ 1..Len(Built[f]) \subseteq 0..Cardinality(Elements)
<1> DEFINE s == Built[f]
           n == Len(s)
<1>1. n \in Nat /\ s \in [1..n -> Elements] /\ IsInjective(s) /\ IsFiniteSet(Elements)
  BY EventsAssumption
<1>2. s \in Injection(1..n, Elements)
  BY <1>1 DEF Injection
<1>3. Cardinality(1..n) <= Cardinality(Elements) /\ Cardinality(Elements) \in Nat
  BY <1>1, <1>2, FS_Injection, FS_CardinalityType
<1>4. Cardinality(1..n) = n
  <2>1. Cardinality(1..n) = IF 1 > n THEN 0 ELSE n - 1 + 1
    BY <1>1, FS_Interval
  <2> QED  BY <1>1, <2>1
<1> QED  BY <1>1, <1>3, <1>4

LEMMA PlaceFacts ==
  ASSUME NEW f \in Frames, NEW e
  PROVE  /\ Place(f, e) \in 0..Cardinality(Elements)
         /\ Place(f, e) # 0 <=> e \in Range(Built[f])
         /\ e \in Range(Built[f]) => Place(f, e) \in DOMAIN Built[f] /\ Built[f][Place(f, e)] = e
<1>1. CASE e \in Range(Built[f])
  BY <1>1, FrameFacts, IndexFacts, PlacesAreFew DEF Place
<1>2. CASE e \notin Range(Built[f])
  BY <1>2, PlacesAreFew DEF Place
<1> QED  BY <1>1, <1>2

LEMMA WhoFacts ==
  ASSUME frame \in Frames, NEW i
  PROVE  /\ Who(i) \in Elements \cup {None}
         /\ Who(i) # None <=> i \in DOMAIN Built[frame]
         /\ i \in DOMAIN Built[frame] => Place(frame, Who(i)) = i /\ Who(i) \in Range(Built[frame])
         /\ Who(0) = None
         /\ \A e \in Range(Built[frame]) : Who(Place(frame, e)) = e
<1>1. CASE i \in DOMAIN Built[frame]
  <2>1. Who(i) \in Range(Built[frame]) /\ Who(i) = Built[frame][i]
    BY <1>1 DEF Who, Range
  <2> QED  BY <1>1, <2>1, FrameFacts, IndexIs, PlaceFacts, EventsAssumption DEF Place, Who
<1>2. CASE i \notin DOMAIN Built[frame]
  BY <1>2, FrameFacts, PlaceFacts DEF Who
<1> QED  BY <1>1, <1>2

(***************************************************************************)
(* What lies on top.                                                       *)
(***************************************************************************)

LEMMA TopmostFacts ==
  ASSUME NEW f \in Frames, NEW S
  PROVE  /\ Topmost(f, S) = None <=> Range(Painted[f]) \cap S = {}
         /\ Topmost(f, S) # None =>
              /\ Topmost(f, S) \in Range(Painted[f]) \cap S
              /\ \A e \in Range(Painted[f]) \cap S :
                   Index(Painted[f], e) <= Index(Painted[f], Topmost(f, S))
<1> DEFINE s == Painted[f]
           n == Len(s)
           is == {i \in 1..n : s[i] \in S}
           top == IF is # {} THEN Max(is) ELSE 0
<1>1. n \in Nat /\ DOMAIN s = 1..n /\ IsInjective(s) /\ None \notin Range(s)
  BY FrameFacts
<1>2. Topmost(f, S) = IF top = 0 THEN None ELSE s[top]
  BY DEF Topmost, SelectLastInSeq
<1>3. CASE is = {}
  BY <1>1, <1>2, <1>3 DEF Range
<1>4. CASE is # {}
  <2>1. top \in is /\ \A j \in is : j <= top
    <3> HIDE DEF s
    <3> QED  BY <1>1, <1>4, MaxFacts
  <2>2. top \in DOMAIN s /\ s[top] \in S /\ top # 0
    BY <1>1, <2>1
  <2>a. Topmost(f, S) = s[top]
    BY <1>2, <2>2
  <2>b. s[top] \in Range(s)
    BY <2>2 DEF Range
  <2>3. Index(s, s[top]) = top
    BY <1>1, <2>1, IndexIs
  <2>4. ASSUME NEW e \in Range(s) \cap S PROVE Index(s, e) <= top
    BY <1>1, <2>1, <2>4, IndexFacts
  <2> HIDE DEF top, s
  <2>c. Topmost(f, S) # None /\ Topmost(f, S) \in Range(s) \cap S
    BY <1>1, <2>2, <2>a, <2>b
  <2> QED  BY <2>3, <2>4, <2>a, <2>c DEF s
<1> QED  BY <1>3, <1>4

LEMMA LowestFacts ==
  ASSUME NEW f \in Frames, NEW S
  PROVE  /\ Lowest(f, S) = None <=> Range(Painted[f]) \cap S = {}
         /\ Lowest(f, S) # None => Lowest(f, S) \in Range(Painted[f]) \cap S
<1> DEFINE s == Painted[f]
           n == Len(s)
           is == {i \in 1..n : s[i] \in S}
           low == IF is # {} THEN Min(is) ELSE 0
<1>1. n \in Nat /\ DOMAIN s = 1..n /\ None \notin Range(s)
  BY FrameFacts
<1>2. Lowest(f, S) = IF low = 0 THEN None ELSE s[low]
  BY DEF Lowest, SelectInSeq
<1>3. CASE is = {}
  BY <1>1, <1>2, <1>3 DEF Range
<1>4. CASE is # {}
  <2>1. low \in is
    <3>1. is \in SUBSET Nat
      BY <1>1
    <3> HIDE DEF is
    <3> QED  BY <1>4, <3>1, MinFacts
  <2>2. low \in DOMAIN s /\ s[low] \in S /\ low # 0
    BY <1>1, <2>1
  <2>3. Lowest(f, S) = s[low]
    BY <1>2, <2>2
  <2>4. s[low] \in Range(s)
    BY <2>2 DEF Range
  <2> HIDE DEF low, s
  <2> QED  BY <1>1, <2>2, <2>3, <2>4 DEF s
<1> QED  BY <1>3, <1>4

(***************************************************************************)
(* What is hit, and what is fired.                                         *)
(***************************************************************************)

LEMMA ReachFacts ==
  ASSUME NEW f \in Frames
  PROVE  /\ Reach[f] \subseteq Range(Painted[f])
         /\ Modal[f] # None => Modal[f] \in Reach[f]
<1>1. Reach[f] = IF Modal[f] = None THEN Range(Painted[f])
                 ELSE {e \in Range(Painted[f]) :
                         Index(Painted[f], e) >= Index(Painted[f], Modal[f])}
  BY DEF Reach
<1>2. Modal[f] = Topmost(f, Scrims)
  BY DEF Modal
<1>3. Modal[f] # None => Modal[f] \in Range(Painted[f])
  BY <1>2, TopmostFacts
<1>4. Modal[f] # None => Index(Painted[f], Modal[f]) >= Index(Painted[f], Modal[f])
  <2>1. ASSUME Modal[f] # None PROVE Index(Painted[f], Modal[f]) \in Nat
    BY <1>3, <2>1, IndexFacts, FrameFacts
  <2> QED  BY <2>1
<1> QED  BY <1>1, <1>3, <1>4

LEMMA AtFacts ==
  ASSUME NEW f \in Frames, NEW spot \in Spots
  PROVE  At[f][spot] \subseteq Reach[f]
<1>1. At[f][spot] = {e \in Reach[f] : spot \in Area[f][e]}
  BY DEF At
<1> QED  BY <1>1

\* What is topmost of what is at a spot is there, and within reach.
LEMMA TopmostAt ==
  ASSUME NEW f \in Frames, NEW spot \in Spots, NEW S \in SUBSET At[f][spot]
  PROVE  /\ Topmost(f, S) # None => Topmost(f, S) \in S
         /\ Topmost(f, S) \in Reach[f] \cup {None}
         /\ S # {} => Topmost(f, S) # None
<1>1. S \subseteq Reach[f] /\ S \subseteq Range(Painted[f])
  BY AtFacts, ReachFacts
<1> QED  BY <1>1, TopmostFacts

\* Of two sets at a spot that share the topmost of each, it is the same one.
LEMMA SameTopmost ==
  ASSUME NEW f \in Frames, NEW S, NEW T,
         Topmost(f, S) # None, Topmost(f, T) # None,
         Topmost(f, S) \in T, Topmost(f, T) \in S
  PROVE  Topmost(f, S) = Topmost(f, T)
<1> DEFINE s == Topmost(f, S)
           t == Topmost(f, T)
           p == Painted[f]
<1>1. /\ s \in Range(p) \cap S /\ \A e \in Range(p) \cap S : Index(p, e) <= Index(p, s)
      /\ t \in Range(p) \cap T /\ \A e \in Range(p) \cap T : Index(p, e) <= Index(p, t)
  BY TopmostFacts
<1> HIDE DEF s, t, p
<1>2. Index(p, t) <= Index(p, s) /\ Index(p, s) <= Index(p, t)
  BY <1>1 DEF s, t
<1>3. Index(p, s) \in Nat /\ Index(p, t) \in Nat /\ p[Index(p, s)] = s /\ p[Index(p, t)] = t
  BY <1>1, IndexFacts, FrameFacts DEF p
<1>4. Index(p, t) = Index(p, s)
  BY <1>2, <1>3
<1> QED  BY <1>3, <1>4 DEF s, t

LEMMA HitFacts ==
  ASSUME NEW f \in Frames, NEW spot \in Spots, NEW kind \in Kinds
  PROVE  Hit[f][spot][kind] # None =>
           Hit[f][spot][kind] \in At[f][spot] /\ kind \in Listens[Hit[f][spot][kind]]
<1> DEFINE S == {e \in At[f][spot] : kind \in Listens[e]}
<1>1. Hit[f][spot][kind] = Topmost(f, S)
  BY DEF Hit
<1>2. Topmost(f, S) # None => Topmost(f, S) \in S
  BY TopmostAt
<1> QED  BY <1>1, <1>2

LEMMA HitAnyFacts ==
  ASSUME NEW f \in Frames, NEW spot \in Spots
  PROVE  /\ HitAny[f][spot] \in Reach[f] \cup {None}
         /\ LET S == {e \in At[f][spot] : Listens[e] # {}}
            IN  S # {} => HitAny[f][spot] = Topmost(f, S) /\ HitAny[f][spot] # None
<1> DEFINE S == {e \in At[f][spot] : Listens[e] # {}}
<1>1. HitAny[f][spot] = IF S = {} /\ Modal[f] = None THEN Topmost(f, At[f][spot] \cap Tracked)
                        ELSE Topmost(f, S)
  BY DEF HitAny
<1>2. S \in SUBSET At[f][spot] /\ At[f][spot] \cap Tracked \in SUBSET At[f][spot]
  OBVIOUS
<1> HIDE DEF S
<1>3. Topmost(f, S) \in Reach[f] \cup {None} /\ (S # {} => Topmost(f, S) # None)
  BY <1>2, TopmostAt
<1>4. Topmost(f, At[f][spot] \cap Tracked) \in Reach[f] \cup {None}
  BY <1>2, TopmostAt
<1> QED  BY <1>1, <1>3, <1>4 DEF S

LEMMA FocusableAtFacts ==
  ASSUME NEW f \in Frames, NEW spot \in Spots
  PROVE  FocusableAt[f][spot] # None =>
           FocusableAt[f][spot] \in (Reach[f] \cap Focusable) \ Disabled[f]
<1> DEFINE S == (At[f][spot] \cap Focusable) \ Disabled[f]
<1>1. FocusableAt[f][spot] = Topmost(f, S)
  BY DEF FocusableAt
<1>2. S \in SUBSET At[f][spot]
  OBVIOUS
<1>3. Topmost(f, S) # None => Topmost(f, S) \in S
  BY <1>2, TopmostAt
<1> QED  BY <1>1, <1>3, AtFacts

LEMMA FiresFacts ==
  ASSUME NEW f \in Frames, NEW spot \in Spots, NEW kind \in Kinds, NEW h \in Fires[f][spot][kind]
  PROVE  /\ h = <<kind, h[2]>> /\ h[2] \in Elements \ Disabled[f]
         /\ h[2] = Hit[f][spot][kind] /\ h[2] \in At[f][spot] /\ kind \in Listens[h[2]]
         /\ kind \in Presses => PressOwner[f][spot] \in {h[2], None}
<1> DEFINE S == {e \in Elements \ Disabled[f] :
                   /\ e = Hit[f][spot][kind]
                   /\ kind \in Presses => PressOwner[f][spot] \in {e, None}
                   /\ e \in Scrims => At[f][spot] = {e}}
<1>1. Fires[f][spot][kind] = {<<kind, e>> : e \in S}
  BY DEF Fires
<1>2. PICK e \in S : h = <<kind, e>>
  BY <1>1
<1>3. e # None
  BY EventsAssumption
<1> QED  BY <1>2, <1>3, HitFacts

\* An element that takes presses and is the topmost of any kind hears the click.
LEMMA ClickOfTheTopmost ==
  ASSUME NEW f \in Frames, NEW spot \in Spots, NEW kind \in Presses,
         NEW h \in Fires[f][spot][kind], NEW t, t = HitAny[f][spot],
         Listens[t] \cap Presses # {} \/ t \in Focusable \ Disabled[f]
  PROVE  h[2] = t
<1> DEFINE S == {e \in At[f][spot] : Listens[e] \cap Presses # {} \/ e \in Focusable \ Disabled[f]}
           T == {e \in At[f][spot] : Listens[e] # {}}
<1>1. /\ h[2] \in At[f][spot] /\ kind \in Listens[h[2]] /\ h[2] # None
      /\ PressOwner[f][spot] \in {h[2], None}
  <2>1. kind \in Kinds
    BY DEF Kinds
  <2> QED  BY <2>1, FiresFacts, EventsAssumption
<1>2. h[2] \in S /\ h[2] \in T
  BY <1>1
<1>3. PressOwner[f][spot] = Topmost(f, S)
  BY DEF PressOwner
<1>4. S \in SUBSET At[f][spot] /\ T \in SUBSET At[f][spot]
  OBVIOUS
<1>5. t = Topmost(f, T) /\ t # None
  BY <1>2, HitAnyFacts
<1> HIDE DEF S
<1>6. Topmost(f, S) # None
  BY <1>2, <1>4, TopmostAt
<1>7. h[2] = Topmost(f, S)
  BY <1>1, <1>3, <1>6
<1> HIDE DEF T
<1>8. t \in T
  BY <1>4, <1>5, TopmostAt
<1>9. t \in S
  BY <1>8 DEF S, T
<1> QED  BY <1>2, <1>5, <1>6, <1>7, <1>9, SameTopmost

(***************************************************************************)
(* The inductive invariant: what the router holds is where its element is. *)
(***************************************************************************)

FocusIsHeld ==
  /\ focused \in 0..Cardinality(Elements)
  /\ focusedSig \in Focusable \cup {None} /\ (focusedSig = None) = (focused = 0)
  /\ told \subseteq Focusable /\ strays \subseteq Focusable
  /\ Who(focused) = focusedSig
  /\ told \ strays \subseteq {Who(focused)}
  /\ focused # 0 => Who(focused) \in told

HoverIsHeld ==
  /\ hovered \in 0..Cardinality(Elements)
  /\ inside \subseteq Elements /\ unheard \subseteq Elements
  /\ \A e \in inside \ (unheard \cup Unrecorded) : "exit" \in Listens[e] => e = Who(hovered)

PressIsHeld ==
  /\ down = None \/ down \in [at: 0..Cardinality(Elements), secondary: BOOLEAN]
  /\ took \in Elements \cup {None}
  /\ down # None /\ down.at # 0 /\ took \notin Unrecorded =>
       took # None /\ Who(down.at) = took

TapIsHeld ==
  /\ lastTap \in 0..Cardinality(Elements)
  /\ tapped \in Elements \cup {None}
  /\ lastTap # 0 /\ tapped \notin Unrecorded \cup {None} => Who(lastTap) = tapped

HeardIsSaid == heard \subseteq Kinds \X Elements

EvInv ==
  frame \in Frames /\ FocusIsHeld /\ HoverIsHeld /\ PressIsHeld /\ TapIsHeld /\ HeardIsSaid

LEMMA InvariantIsEnough == EvInv => TypeOK /\ EveryoneIsTold
<1> SUFFICES ASSUME EvInv PROVE TypeOK /\ EveryoneIsTold
  OBVIOUS
<1>1. TypeOK
  BY DEF EvInv, FocusIsHeld, HoverIsHeld, PressIsHeld, TapIsHeld, HeardIsSaid, TypeOK
<1>2. EveryoneIsTold
  BY DEF EvInv, FocusIsHeld, HoverIsHeld, EveryoneIsTold
<1> QED  BY <1>1, <1>2

LEMMA InitInvariant == Init => EvInv
<1> SUFFICES ASSUME Init PROVE EvInv
  OBVIOUS
<1>1. /\ frame \in Frames /\ focused = 0 /\ hovered = 0 /\ lastTap = 0 /\ focusedSig = None
      /\ down = None /\ told = {} /\ heard = {} /\ took = None /\ tapped = None
      /\ inside = {} /\ unheard = {} /\ strays = {}
  BY DEF Init
<1>2. 0 \in 0..Cardinality(Elements) /\ Who(0) = None
  BY <1>1, PlacesAreFew, WhoFacts
<1> QED  BY <1>1, <1>2 DEF EvInv, FocusIsHeld, HoverIsHeld, PressIsHeld, TapIsHeld, HeardIsSaid

\* What a step does not touch is held as it was.
LEMMA HeldStill ==
  ASSUME UNCHANGED frame
  PROVE  /\ FocusIsHeld /\ UNCHANGED <<focused, focusedSig, told, strays>> => FocusIsHeld'
         /\ HoverIsHeld /\ UNCHANGED <<hovered, inside, unheard>> => HoverIsHeld'
         /\ PressIsHeld /\ UNCHANGED <<down, took>> => PressIsHeld'
         /\ TapIsHeld /\ UNCHANGED <<lastTap, tapped>> => TapIsHeld'
<1>1. FocusIsHeld /\ UNCHANGED <<focused, focusedSig, told, strays>> => FocusIsHeld'
  BY DEF FocusIsHeld, Who
<1>2. HoverIsHeld /\ UNCHANGED <<hovered, inside, unheard>> => HoverIsHeld'
  BY DEF HoverIsHeld, Who
<1>3. PressIsHeld /\ UNCHANGED <<down, took>> => PressIsHeld'
  BY DEF PressIsHeld, Who
<1>4. TapIsHeld /\ UNCHANGED <<lastTap, tapped>> => TapIsHeld'
  BY DEF TapIsHeld, Who
<1> QED  BY <1>1, <1>2, <1>3, <1>4

(***************************************************************************)
(* Focus.                                                                  *)
(***************************************************************************)

LEMMA StealFocusHolds ==
  ASSUME frame \in Frames, UNCHANGED frame, FocusIsHeld,
         NEW e \in Range(Painted[frame]) \cap Focusable,
         StealFocus(e), strays' = Strays(e)
  PROVE  FocusIsHeld' /\ Who(focused)' = e
<1> DEFINE old == Who(focused)
           RP == Range(Painted[frame])
<1>1. e \in Range(Built[frame]) /\ e \in Elements /\ e # None
  BY FrameFacts
<1>2. old \in Focusable \cup {None} /\ None \notin Focusable
  BY EventsAssumption DEF FocusIsHeld
<1>3. strays' = (strays \cup ({old} \ (RP \cup {None}))) \ {e}
  BY DEF Strays
<1>4. strays' \subseteq Focusable
  BY <1>2, <1>3 DEF FocusIsHeld
<1>5. CASE e = old
  <2>1. UNCHANGED <<focused, focusedSig, told>>
    BY <1>5 DEF StealFocus
  <2>2. Who(focused)' = e
    BY <1>5, <2>1 DEF Who
  <2>3. told' \ strays' \subseteq {e}
    BY <1>3, <1>5, <2>1 DEF FocusIsHeld
  <2> HIDE DEF old
  <2> QED  BY <1>4, <1>5, <2>1, <2>2, <2>3 DEF FocusIsHeld, old
<1>6. CASE e # old
  <2>1. /\ focused' = Place(frame, e) /\ focusedSig' = e
        /\ told' = (told \ (RP \cap {old})) \cup {e}
    BY <1>6 DEF StealFocus
  <2>2. Who(focused)' = e
    BY <1>1, <2>1, PlaceFacts DEF Who
  <2>3. focused' \in 0..Cardinality(Elements) /\ focused' # 0
    BY <1>1, <2>1, PlaceFacts
  <2> HIDE DEF old, RP
  <2>4. told' \subseteq Focusable /\ e \in told'
    BY <2>1 DEF FocusIsHeld
  <2>5. told' \ strays' \subseteq {e}
    <3> SUFFICES ASSUME NEW x \in told' \ strays', x # e PROVE FALSE
      OBVIOUS
    <3>1. x \in told /\ x \notin RP \cap {old} /\ x \in Focusable
      BY <2>1 DEF FocusIsHeld
    <3>2. x \notin strays /\ (x = old => x \in RP)
      BY <1>2, <1>3, <3>1
    <3>3. x = old
      BY <3>1, <3>2 DEF FocusIsHeld, old
    <3> QED  BY <3>1, <3>2, <3>3
  <2> QED  BY <1>1, <1>4, <2>1, <2>2, <2>3, <2>4, <2>5 DEF FocusIsHeld
<1> QED  BY <1>5, <1>6

LEMMA FollowFacts ==
  ASSUME frame \in Frames, NEW g \in Frames, NEW i \in 0..Cardinality(Elements)
  PROVE  /\ Follow(i, g) \in 0..Cardinality(Elements)
         /\ i = 0 => Follow(i, g) = 0
         /\ Who(i) \in Elements \ Unrecorded =>
              /\ Follow(i, g) = Place(g, Who(i))
              /\ Follow(i, g) # 0 <=> Who(i) \in Range(Built[g])
              /\ Follow(i, g) # 0 =>
                   Follow(i, g) \in DOMAIN Built[g] /\ Built[g][Follow(i, g)] = Who(i)
<1>1. i = 0 => Who(i) = None
  BY WhoFacts
<1>2. None \notin Elements
  BY EventsAssumption
<1>3. Place(g, Who(i)) \in 0..Cardinality(Elements)
  BY PlaceFacts
<1> QED  BY <1>1, <1>2, <1>3, PlaceFacts DEF Follow

LEMMA FollowFocusHolds ==
  ASSUME frame \in Frames, FocusIsHeld, NEW g \in Frames, frame' = g,
         FollowFocus(g), UNCHANGED strays
  PROVE  FocusIsHeld' /\ Who(focused)' \in {Who(focused), None}
         /\ (Who(focused) \in Range(Built[g]) => Who(focused)' = Who(focused))
<1> DEFINE now == Follow(focused, g)
<1>1. /\ focused' = now
      /\ focusedSig' = IF now = 0 THEN None ELSE focusedSig
      /\ told' = IF now = 0 THEN told \ {focusedSig} ELSE told
  BY DEF FollowFocus
<1>2. /\ Focusable \subseteq Elements \ Unrecorded /\ None \notin Elements
  BY EventsAssumption
<1>3. now \in 0..Cardinality(Elements) /\ (focused = 0 => now = 0)
  BY FollowFacts DEF FocusIsHeld
<1>4. focused # 0 => Who(focused) \in Elements \ Unrecorded
  BY <1>2 DEF FocusIsHeld
<1>5. focused # 0 => /\ now # 0 <=> Who(focused) \in Range(Built[g])
                     /\ now # 0 => now \in DOMAIN Built[g] /\ Built[g][now] = Who(focused)
  BY <1>4, FollowFacts DEF FocusIsHeld
<1>6. 0 \notin DOMAIN Built[g]
  BY FrameFacts
<1>7. Who(focused)' = IF now \in DOMAIN Built[g] THEN Built[g][now] ELSE None
  BY <1>1 DEF Who
<1>8. focused = 0 => Who(focused) = None /\ Who(focused) \notin Range(Built[g])
  BY <1>2, FrameFacts DEF FocusIsHeld
<1> HIDE DEF now
<1>9. Who(focused)' = IF now = 0 THEN None ELSE Who(focused)
  BY <1>3, <1>5, <1>6, <1>7
<1>10. Who(focused)' = focusedSig'
  BY <1>1, <1>9 DEF FocusIsHeld
<1>11. (focusedSig' = None) = (focused' = 0)
  BY <1>1, <1>3 DEF FocusIsHeld
<1>12. told' \ strays \subseteq {Who(focused)'} /\ (focused' # 0 => Who(focused)' \in told')
  BY <1>1, <1>3, <1>9 DEF FocusIsHeld
<1> QED  BY <1>1, <1>3, <1>5, <1>8, <1>9, <1>10, <1>11, <1>12 DEF FocusIsHeld

(***************************************************************************)
(* A frame.                                                                *)
(***************************************************************************)

\* A place that is followed is its element's in the next frame, or no place.
LEMMA FollowedElement ==
  ASSUME frame \in Frames, NEW g \in Frames, frame' = g,
         NEW i \in 0..Cardinality(Elements), NEW e \in Elements \ Unrecorded, Who(i) = e
  PROVE  /\ Follow(i, g) # 0 => Follow(i, g) \in DOMAIN Built[g] /\ Built[g][Follow(i, g)] = e
         /\ e \in Range(Built[g]) => Follow(i, g) # 0
BY FollowFacts

LEMMA RenderHolds ==
  ASSUME EvInv, NEW g \in Frames, NEW other \in BOOLEAN, Render(g, other)
  PROVE  /\ EvInv'
         /\ Who(focused)' \in {Who(focused), None}
         /\ Who(focused) \in Range(Built[g]) => Who(focused)' = Who(focused)
<1>1. /\ frame \in Frames /\ frame' = g /\ heard' = {} /\ UNCHANGED <<took, strays>>
      /\ inside' = inside \cap Range(Built[g]) /\ unheard' = unheard \cap Range(Built[g])
      /\ FocusIsHeld /\ HoverIsHeld /\ PressIsHeld /\ TapIsHeld
  BY DEF Render, EvInv
<1>2. /\ Who(0) = None /\ 0 \notin DOMAIN Built[g] /\ None \notin Elements
      /\ Range(Built[g]) \subseteq Elements
  BY <1>1, WhoFacts, FrameFacts, EventsAssumption
<1>3. inside' \subseteq Elements /\ unheard' \subseteq Elements
  BY <1>1 DEF HoverIsHeld
<1>4. CASE HoldsElements \/ other
  <2>1. /\ FollowFocus(g) /\ hovered' = Follow(hovered, g) /\ down' = FollowPress(g)
        /\ lastTap' = Follow(lastTap, g) /\ tapped' = tapped
    BY <1>4 DEF Render
  <2>2. FocusIsHeld' /\ Who(focused)' \in {Who(focused), None}
        /\ (Who(focused) \in Range(Built[g]) => Who(focused)' = Who(focused))
    BY <1>1, <2>1, FollowFocusHolds
  <2>3. HoverIsHeld'
    <3>1. hovered' \in 0..Cardinality(Elements)
      BY <1>1, <2>1, FollowFacts DEF HoverIsHeld
    <3>2. ASSUME NEW e \in inside' \ (unheard' \cup Unrecorded), "exit" \in Listens[e]
          PROVE  e = Who(hovered)'
      <4>1. e = Who(hovered) /\ e \in Elements \ Unrecorded /\ e \in Range(Built[g])
        BY <1>1, <3>2 DEF HoverIsHeld
      <4>2. hovered' \in DOMAIN Built[g] /\ Built[g][hovered'] = e
        BY <1>1, <2>1, <4>1, FollowedElement DEF HoverIsHeld
      <4> QED  BY <1>1, <4>2 DEF Who
    <3> QED  BY <1>3, <3>1, <3>2 DEF HoverIsHeld
  <2>4. PressIsHeld'
    <3>1. CASE down = None
      BY <1>1, <2>1, <3>1 DEF PressIsHeld, FollowPress
    <3>2. CASE down # None
      <4>1. /\ down \in [at: 0..Cardinality(Elements), secondary: BOOLEAN]
            /\ down' = [down EXCEPT !.at = Follow(down.at, g)]
        BY <1>1, <2>1, <3>2 DEF PressIsHeld, FollowPress
      <4>2. /\ Follow(down.at, g) \in 0..Cardinality(Elements)
            /\ down.at = 0 => Follow(down.at, g) = 0
        BY <1>1, <4>1, FollowFacts
      <4>3. down' \in [at: 0..Cardinality(Elements), secondary: BOOLEAN]
            /\ down'.at = Follow(down.at, g)
        BY <4>1, <4>2
      <4>4. ASSUME down'.at # 0, took \notin Unrecorded 
            PROVE  took # None /\ Who(down.at)' = took
        <5>1. down.at # 0 /\ Who(down.at) = took /\ took # None
          BY <1>1, <3>2, <4>2, <4>3, <4>4 DEF PressIsHeld
        <5>2. took \in Elements \ Unrecorded
          BY <1>1, <4>4, <5>1 DEF PressIsHeld
        <5>3. down'.at \in DOMAIN Built[g] /\ Built[g][down'.at] = took
          BY <1>1, <4>1, <4>3, <4>4, <5>1, <5>2, FollowedElement
        <5> QED  BY <1>1, <5>1, <5>3 DEF Who
      <4> QED  BY <1>1, <4>3, <4>4 DEF PressIsHeld
    <3> QED  BY <3>1, <3>2
  <2>5. TapIsHeld'
    <3>1. lastTap' \in 0..Cardinality(Elements) /\ (lastTap = 0 => lastTap' = 0)
      BY <1>1, <2>1, FollowFacts DEF TapIsHeld
    <3>2. ASSUME lastTap' # 0, tapped \notin Unrecorded \cup {None} PROVE Who(lastTap)' = tapped
      <4>1. Who(lastTap) = tapped /\ tapped \in Elements \ Unrecorded
        BY <1>1, <3>1, <3>2 DEF TapIsHeld
      <4>2. lastTap' \in DOMAIN Built[g] /\ Built[g][lastTap'] = tapped
        BY <1>1, <2>1, <3>2, <4>1, FollowedElement DEF TapIsHeld
      <4> QED  BY <1>1, <4>2 DEF Who
    <3> QED  BY <1>1, <2>1, <3>1, <3>2 DEF TapIsHeld
  <2> QED  BY <1>1, <2>2, <2>3, <2>4, <2>5 DEF EvInv, HeardIsSaid
<1>5. CASE ~(HoldsElements \/ other)
  <2>1. /\ UNCHANGED <<focused, focusedSig, told, hovered, down, lastTap>>
        /\ tapped' = IF Follow(lastTap, g) = lastTap THEN tapped ELSE None
        /\ focused = 0 /\ down = None /\ hovered = 0
    BY <1>5 DEF Render, HoldsElements
  <2>2. Who(focused)' = None /\ Who(hovered)' = None /\ Who(focused) = None /\ Who(hovered) = None
    BY <1>1, <1>2, <2>1 DEF Who
  <2>3. FocusIsHeld'
    BY <1>1, <2>1, <2>2 DEF FocusIsHeld
  <2>4. HoverIsHeld'
    BY <1>1, <1>2, <1>3, <2>1, <2>2 DEF HoverIsHeld
  <2>5. PressIsHeld'
    BY <1>1, <2>1 DEF PressIsHeld
  <2>6. TapIsHeld'
    <3>1. ASSUME lastTap # 0, tapped' \notin Unrecorded \cup {None} PROVE Who(lastTap)' = tapped'
      <4>1. Follow(lastTap, g) = lastTap /\ tapped' = tapped
        BY <2>1, <3>1
      <4>2. Who(lastTap) = tapped /\ tapped \in Elements \ Unrecorded
        BY <1>1, <3>1, <4>1 DEF TapIsHeld
      <4>3. lastTap \in DOMAIN Built[g] /\ Built[g][lastTap] = tapped
        BY <1>1, <3>1, <4>1, <4>2, FollowedElement DEF TapIsHeld
      <4> QED  BY <1>1, <2>1, <4>1, <4>3 DEF Who
    <3> QED  BY <1>1, <2>1, <3>1 DEF TapIsHeld
  <2> QED  BY <1>1, <1>2, <2>2, <2>3, <2>4, <2>5, <2>6 DEF EvInv, HeardIsSaid
<1> QED  BY <1>4, <1>5

(***************************************************************************)
(* What an event says, and to whom.                                        *)
(***************************************************************************)

Said == Kinds \X Elements

\* Who may hear an event of a step that renders nothing.
MayHear == Reach[frame] \cup {Captured, Who(hovered), Who(focused), Who(focused)'}

LEMMA KindsAre ==
  /\ Presses \subseteq Kinds /\ Clicks \subseteq Presses
  /\ {"move", "drag", "enter", "hover", "exit", "focus", "blur"} \subseteq Kinds
  /\ "tap" \in Kinds /\ "double" \in Kinds /\ "long" \in Kinds
  /\ "up" \in Kinds /\ "down" \in Kinds /\ "secondary" \in Kinds
BY DEF Presses, Clicks, Kinds

LEMMA FireFacts ==
  ASSUME frame \in Frames, NEW spot \in Spots, NEW kind \in Kinds, NEW h \in Fire(kind, spot)
  PROVE  h \in Said /\ h[1] = kind /\ h[2] \in Reach[frame]
<1>1. h \in Fires[frame][spot][kind]
  BY DEF Fire
<1>2. h = <<kind, h[2]>> /\ h[2] \in Elements /\ h[2] \in At[frame][spot]
  BY <1>1, FiresFacts
<1>3. h[2] \in Reach[frame]
  BY <1>2, AtFacts
<1>4. h[1] = kind
  BY <1>2
<1> QED  BY <1>2, <1>3, <1>4 DEF Said

LEMMA FireOnFacts ==
  ASSUME frame \in Frames, NEW e, NEW kind \in Kinds, NEW h \in FireOn(kind, e)
  PROVE  h \in Said /\ h = <<kind, e>> /\ h[1] = kind /\ h[2] = e /\ e \in Range(Painted[frame])
<1>1. e \in Range(Painted[frame]) /\ h = <<kind, e>>
  BY DEF FireOn
<1>2. e \in Elements
  BY <1>1, FrameFacts
<1> QED  BY <1>1, <1>2 DEF Said

LEMMA FocusNewsFacts ==
  ASSUME frame \in Frames, NEW e, NEW h \in FocusNews(e)
  PROVE  h \in Said /\ h[2] \in {Who(focused), e} /\ h[1] \in {"blur", "focus"}
<1>1. h \in FireOn("blur", Who(focused)) \/ h \in FireOn("focus", e)
  BY DEF FocusNews
<1>2. "blur" \in Kinds /\ "focus" \in Kinds
  BY KindsAre
<1>3. CASE h \in FireOn("blur", Who(focused))
  BY <1>2, <1>3, FireOnFacts
<1>4. CASE h \in FireOn("focus", e)
  BY <1>2, <1>4, FireOnFacts
<1> QED  BY <1>1, <1>3, <1>4

\* Every step of a hand on a frame: what the invariant keeps and what is heard.
Allowed ==
  /\ EvInv'
  /\ \A h \in heard' : h[2] \in MayHear
  /\ Who(focused) \in Reach[frame] /\ Modal[frame] # None => Who(focused)' \in Reach[frame]

LEMMA AllowedStep ==
  ASSUME EvInv, UNCHANGED frame,
         FocusIsHeld', HoverIsHeld', PressIsHeld', TapIsHeld',
         \A h \in heard' : h \in Said /\ h[2] \in MayHear,
         Who(focused) \in Reach[frame] /\ Modal[frame] # None => Who(focused)' \in Reach[frame]
  PROVE  Allowed
<1>1. heard' \subseteq Kinds \X Elements
  BY DEF Said
<1> QED  BY <1>1 DEF Allowed, EvInv, HeardIsSaid

\* Where nobody takes focus.
LEMMA FocusStands ==
  ASSUME UNCHANGED <<frame, focused>>
  PROVE  Who(focused)' = Who(focused)
BY DEF Who

(***************************************************************************)
(* The keys.                                                               *)
(***************************************************************************)

LEMMA MoveFocusAllowed ==
  ASSUME EvInv, NEW e \in Range(Painted[frame]) \cap Focusable, NEW pressed, MoveFocus(e, pressed),
         \A h \in pressed : h \in Said /\ h[2] \in {Who(focused), e},
         Who(focused) \in Reach[frame] /\ Modal[frame] # None => e \in Reach[frame]
  PROVE  Allowed
<1>1. /\ StealFocus(e) /\ strays' = Strays(e) /\ heard' = FocusNews(e) \cup pressed
      /\ UNCHANGED <<frame, hovered, lastTap, down, took, tapped, inside, unheard>>
  BY DEF MoveFocus
<1>2. FocusIsHeld' /\ Who(focused)' = e
  BY <1>1, StealFocusHolds DEF EvInv
<1>3. HoverIsHeld' /\ PressIsHeld' /\ TapIsHeld'
  BY <1>1, HeldStill DEF EvInv
<1>4. \A h \in heard' : h \in Said /\ h[2] \in {Who(focused), e}
  BY <1>1, FocusNewsFacts DEF EvInv
<1>5. \A h \in heard' : h \in Said /\ h[2] \in MayHear
  BY <1>2, <1>4 DEF MayHear
<1> QED  BY <1>1, <1>2, <1>3, <1>5, AllowedStep

LEMMA StepFacts ==
  ASSUME frame \in Frames, NEW S \in SUBSET Range(Painted[frame]), S # {}, NEW e, NEW back \in BOOLEAN
  PROVE  Step(S, e, back) \in S
<1> DEFINE before == {o \in S : e \in S /\ Index(Painted[frame], o) < Index(Painted[frame], e)}
           after  == {o \in S : e \in S /\ Index(Painted[frame], o) > Index(Painted[frame], e)}
           under  == IF before = {} THEN S ELSE before
           over   == IF after = {} THEN S ELSE after
<1>1. Step(S, e, back) = IF back THEN Topmost(frame, under) ELSE Lowest(frame, over)
  BY DEF Step
<1>2. under \subseteq S /\ over \subseteq S /\ under # {} /\ over # {}
  OBVIOUS
<1> HIDE DEF under, over
<1>3. Topmost(frame, under) \in S
  BY <1>2, TopmostFacts
<1>4. Lowest(frame, over) \in S
  BY <1>2, LowestFacts
<1> QED  BY <1>1, <1>3, <1>4

LEMMA TabAllowed ==
  ASSUME EvInv, NEW back \in BOOLEAN, Tab(back)
  PROVE  Allowed
<1> DEFINE stops == Enabled(Scope)
           e == Step(stops, Who(focused), back)
<1>1. stops # {} /\ MoveFocus(e, {})
  BY DEF Tab
<1>2. stops \subseteq Range(Painted[frame]) \cap Focusable /\ stops \subseteq Reach[frame]
  BY DEF Enabled, Scope
<1>3. e \in stops
  BY <1>1, <1>2, StepFacts DEF EvInv
<1> HIDE DEF stops, e
<1> QED  BY <1>1, <1>2, <1>3, MoveFocusAllowed

LEMMA GroupKeyAllowed ==
  ASSUME EvInv, NEW key \in {"next", "previous", "home", "end"}, GroupKey(key)
  PROVE  Allowed
<1>1. PICK g \in {Radios, Tabs} :
        LET e    == Who(focused)
            live == Enabled(g)
            to   == CASE key = "next" -> Step(live, e, FALSE)
                      [] key = "previous" -> Step(live, e, TRUE)
                      [] key = "home" -> Lowest(frame, live)
                      [] key = "end" -> Topmost(frame, live)
        IN  /\ e \in live
            /\ MoveFocus(to, IF g = Radios /\ to # e THEN FireOn("tap", to) ELSE {})
  BY DEF GroupKey
<1> DEFINE e    == Who(focused)
           live == Enabled(g)
           to   == CASE key = "next" -> Step(live, e, FALSE)
                     [] key = "previous" -> Step(live, e, TRUE)
                     [] key = "home" -> Lowest(frame, live)
                     [] key = "end" -> Topmost(frame, live)
           pressed == IF g = Radios /\ to # e THEN FireOn("tap", to) ELSE {}
<1>2. e \in live /\ MoveFocus(to, pressed)
  BY <1>1
<1>3. live \subseteq g \cap Range(Painted[frame]) /\ g \subseteq Focusable /\ frame \in Frames
  BY EventsAssumption DEF Enabled, EvInv
<1> HIDE DEF live, e
<1>4. Step(live, e, FALSE) \in live /\ Step(live, e, TRUE) \in live
  BY <1>2, <1>3, StepFacts
<1>5. Lowest(frame, live) \in live /\ Topmost(frame, live) \in live
  BY <1>2, <1>3, TopmostFacts, LowestFacts
<1>6. to \in live
  BY <1>4, <1>5
<1>7. e \in Reach[frame] => to \in Reach[frame]
  BY <1>2, <1>3, <1>6, GroupsAssumption
<1> HIDE DEF to
<1>8. \A h \in pressed : h \in Said /\ h[2] \in {Who(focused), to}
  BY <1>3, FireOnFacts, KindsAre
<1> QED  BY <1>2, <1>3, <1>6, <1>7, <1>8, MoveFocusAllowed DEF e

\* The rest of the keys, and what an assistive technology asks for.
LEMMA OtherKeysAllowed ==
  ASSUME EvInv, Press \/ Escape \/ \E i \in DOMAIN Built[frame] : FocusElement(i)
  PROVE  Allowed
<1> USE DEF EvInv
<1>1. CASE Press \/ Escape
  <2>1. UNCHANGED <<frame, router, took, tapped, inside, unheard, strays>>
    BY <1>1 DEF Press, Escape
  <2>2. FocusIsHeld' /\ HoverIsHeld' /\ PressIsHeld' /\ TapIsHeld' /\ Who(focused)' = Who(focused)
    BY <2>1, HeldStill, FocusStands DEF router
  <2>3. ASSUME NEW h \in heard' PROVE h \in Said /\ h[2] \in MayHear
    <3>1. CASE Press
      <4>1. h \in FireOn("tap", Who(focused))
        BY <2>3, <3>1 DEF Press
      <4> QED  BY <4>1, FireOnFacts, KindsAre DEF MayHear
    <3>2. CASE Escape
      <4>1. h = <<"tap", Modal[frame]>> /\ Modal[frame] \in Reach[frame]
        BY <2>3, <3>2, ReachFacts DEF Escape
      <4>2. Modal[frame] \in Elements
        BY <4>1, ReachFacts, FrameFacts
      <4> QED  BY <4>1, <4>2, KindsAre DEF MayHear, Said
    <3> QED  BY <1>1, <3>1, <3>2
  <2> QED  BY <2>1, <2>2, <2>3, AllowedStep
<1>2. CASE \E i \in DOMAIN Built[frame] : FocusElement(i)
  <2>1. PICK i \in DOMAIN Built[frame] : Who(i) \in Scope /\ MoveFocus(Who(i), {})
    BY <1>2 DEF FocusElement
  <2>2. Who(i) \in Reach[frame] /\ Who(i) \in Range(Painted[frame]) \cap Focusable
    BY <2>1, ReachFacts DEF Scope
  <2> QED  BY <2>1, <2>2, MoveFocusAllowed
<1> QED  BY <1>1, <1>2

(***************************************************************************)
(* The pointer.                                                            *)
(***************************************************************************)

LEMMA PointerDownAllowed ==
  ASSUME EvInv, NEW spot \in Spots, NEW secondary \in BOOLEAN, PointerDown(spot, secondary)
  PROVE  Allowed
<1> USE DEF EvInv
<1> DEFINE kind == IF secondary THEN "secondary" ELSE "down"
           f    == FocusableAt[frame][spot]
           hit  == HitAny[frame][spot]
<1>1. /\ down' = [at |-> Place(frame, hit), secondary |-> secondary] /\ took' = hit
      /\ UNCHANGED <<frame, hovered, lastTap, tapped, inside, unheard>>
      /\ \/ /\ f = None /\ UNCHANGED <<focused, focusedSig, told, strays>>
            /\ heard' = Fire(kind, spot)
         \/ /\ f # None /\ StealFocus(f) /\ strays' = Strays(f)
            /\ heard' = Fire(kind, spot) \cup FocusNews(f)
  BY DEF PointerDown
<1>2. kind \in Kinds
  BY KindsAre
<1>3. hit \in Reach[frame] \cup {None} /\ (hit # None => hit \in Elements /\ hit \in Range(Built[frame]))
  BY HitAnyFacts, ReachFacts, FrameFacts
<1>4. f # None => f \in Reach[frame] /\ f \in Range(Painted[frame]) \cap Focusable
  BY FocusableAtFacts, ReachFacts
<1> HIDE DEF kind, f, hit
<1>5. HoverIsHeld' /\ TapIsHeld'
  BY <1>1, HeldStill
<1>6. PressIsHeld'
  <2>1. down' \in [at: 0..Cardinality(Elements), secondary: BOOLEAN] /\ down'.at = Place(frame, hit)
    BY <1>1, PlaceFacts
  <2>2. ASSUME down'.at # 0 PROVE hit # None /\ Who(down.at)' = hit
    <3>1. hit \in Range(Built[frame]) /\ Place(frame, hit) \in DOMAIN Built[frame]
          /\ Built[frame][Place(frame, hit)] = hit
      BY <2>1, <2>2, PlaceFacts
    <3>2. hit # None
      BY <3>1, FrameFacts
    <3> QED  BY <1>1, <2>1, <3>1, <3>2 DEF Who
  <2> QED  BY <1>1, <1>3, <2>1, <2>2 DEF PressIsHeld
<1>7. CASE f = None
  <2>1. UNCHANGED <<focused, focusedSig, told, strays>> /\ heard' = Fire(kind, spot)
    BY <1>1, <1>7
  <2>2. FocusIsHeld' /\ Who(focused)' = Who(focused)
    BY <1>1, <2>1, HeldStill, FocusStands
  <2>3. \A h \in heard' : h \in Said /\ h[2] \in MayHear
    BY <1>2, <2>1, FireFacts DEF MayHear
  <2> QED  BY <1>1, <1>5, <1>6, <2>2, <2>3, AllowedStep
<1>8. CASE f # None
  <2>1. StealFocus(f) /\ strays' = Strays(f) /\ heard' = Fire(kind, spot) \cup FocusNews(f)
    BY <1>1, <1>8
  <2>2. FocusIsHeld' /\ Who(focused)' = f
    BY <1>1, <1>4, <1>8, <2>1, StealFocusHolds
  <2>3. \A h \in heard' : h \in Said /\ h[2] \in Reach[frame] \cup {Who(focused), f}
    BY <1>2, <2>1, FireFacts, FocusNewsFacts
  <2>4. \A h \in heard' : h \in Said /\ h[2] \in MayHear
    BY <2>2, <2>3 DEF MayHear
  <2> QED  BY <1>1, <1>4, <1>5, <1>6, <1>8, <2>2, <2>4, AllowedStep
<1> QED  BY <1>7, <1>8

\* A release is heard by what keeps the drag or by what is under the pointer.
LEMMA UpFacts ==
  ASSUME frame \in Frames, NEW spot \in Spots, NEW h \in Up(spot)
  PROVE  h \in Said /\ h[1] = "up" /\ h[2] \in MayHear
<1>1. CASE Captured # None
  <2>1. h \in FireOn("up", Captured)
    BY <1>1 DEF Up
  <2> QED  BY <2>1, FireOnFacts, KindsAre DEF MayHear
<1>2. CASE Captured = None
  <2>1. h \in Fire("up", spot)
    BY <1>2 DEF Up
  <2> QED  BY <2>1, FireFacts, KindsAre DEF MayHear
<1> QED  BY <1>1, <1>2

LEMMA PointerUpAllowed ==
  ASSUME EvInv, NEW spot \in Spots, NEW pace \in Paces, PointerUp(spot, pace)
  PROVE  Allowed /\ ClickIsThePress
<1> USE DEF EvInv
<1> DEFINE place  == Place(frame, HitAny[frame][spot])
           same   == pace # "far" /\ SamePlace(down, spot)
           tap    == same /\ pace # "slow" /\ ~down.secondary
           double == tap /\ pace = "again" /\ lastTap = place /\ Hit[frame][spot]["double"] # None
           hit    == HitAny[frame][spot]
<1>1. /\ down # None
      /\ heard' = Up(spot) \cup (IF double THEN Fire("double", spot)
                                ELSE IF tap THEN Fire("tap", spot)
                                ELSE IF same /\ pace = "slow" THEN Fire("long", spot) ELSE {})
      /\ lastTap' = IF tap /\ ~double THEN place ELSE 0
      /\ tapped' = IF tap /\ ~double THEN hit ELSE None
      /\ down' = None /\ took' = None
      /\ UNCHANGED <<frame, focused, focusedSig, hovered, told, inside, unheard, strays>>
  BY DEF PointerUp
<1>2. same => /\ down.at # 0 /\ down.at = place /\ hit \in Range(Built[frame])
              /\ Who(place) = hit /\ hit # None /\ hit \in Elements
  <2>1. same => down.at # 0 /\ down.at = place
    BY DEF SamePlace
  <2>2. place # 0 => hit \in Range(Built[frame])
    BY PlaceFacts
  <2> QED  BY <2>1, <2>2, WhoFacts, FrameFacts
<1>3. /\ place \in 0..Cardinality(Elements)
  BY PlaceFacts
<1>4. (tap => same) /\ (double => tap)
  OBVIOUS
<1> HIDE DEF place, same, tap, hit
<1>5. FocusIsHeld' /\ HoverIsHeld' /\ Who(focused)' = Who(focused)
  BY <1>1, HeldStill, FocusStands
<1>6. PressIsHeld'
  BY <1>1 DEF PressIsHeld
<1>7. TapIsHeld'
  <2>1. CASE tap /\ ~double
    <3>1. lastTap' = place /\ tapped' = hit /\ Who(lastTap)' = Who(place)
      BY <1>1, <2>1 DEF Who
    <3> QED  BY <1>2, <1>3, <1>4, <2>1, <3>1 DEF TapIsHeld
  <2>2. CASE ~(tap /\ ~double)
    <3>1. lastTap' = 0 /\ tapped' = None
      BY <1>1, <2>2
    <3> QED  BY <3>1, <1>3, PlacesAreFew DEF TapIsHeld
  <2> QED  BY <2>1, <2>2
<1>8. ASSUME NEW h \in heard'
      PROVE  \/ h \in Up(spot)
             \/ same /\ \E kind \in Clicks : /\ h \in Fire(kind, spot)
                                             /\ kind = "double" => double
  <2> HIDE DEF double
  <2>1. h \in Up(spot) \/ (double /\ h \in Fire("double", spot)) \/ (tap /\ h \in Fire("tap", spot))
        \/ (same /\ h \in Fire("long", spot))
    BY <1>1, <1>8
  <2>2. "double" \in Clicks /\ "tap" \in Clicks /\ "long" \in Clicks /\ "tap" # "double" /\ "long" # "double"
    BY DEF Clicks
  <2> QED  BY <1>4, <2>1, <2>2
<1>9. \A h \in heard' : h \in Said /\ h[2] \in MayHear
  <2> SUFFICES ASSUME NEW h \in heard' PROVE h \in Said /\ h[2] \in MayHear
    OBVIOUS
  <2>1. CASE h \in Up(spot)
    BY <2>1, UpFacts
  <2>2. CASE \E kind \in Clicks : h \in Fire(kind, spot)
    BY <2>2, FireFacts, KindsAre DEF MayHear
  <2> QED  BY <1>8, <2>1, <2>2
<1>10. Allowed
  BY <1>1, <1>5, <1>6, <1>7, <1>9, AllowedStep
<1>11. ASSUME NEW h \in heard', h[1] \in Clicks, took \notin Unrecorded
       PROVE  /\ TakesPress(took) => h[2] = took
              /\ h[1] = "double" => tapped \in Unrecorded \cup {took, None}
  <2>1. h \notin Up(spot)
    <3>1. "up" \notin Clicks
      BY DEF Clicks
    <3> QED  BY <1>11, <3>1, UpFacts
  <2>2. PICK kind \in Clicks : h \in Fire(kind, spot) /\ (kind = "double" => double)
    BY <1>8, <2>1
  <2>3. same
    BY <1>8, <2>1
  <2>4. took = hit
    BY <1>1, <1>2, <1>11, <2>3 DEF PressIsHeld
  <2>5. h[1] = kind /\ h \in Fires[frame][spot][kind] /\ kind \in Presses
    BY <2>2, FireFacts, KindsAre DEF Fire
  <2>6. TakesPress(took) => h[2] = took
    BY <2>4, <2>5, ClickOfTheTopmost DEF TakesPress, hit
  <2>7. double => tapped \in Unrecorded \cup {took, None}
    <3> SUFFICES ASSUME double, tapped \notin Unrecorded \cup {None} PROVE tapped = took
      OBVIOUS
    <3>1. lastTap = place /\ lastTap # 0
      BY <1>2, <2>3
    <3>2. Who(lastTap) = tapped
      BY <3>1 DEF TapIsHeld
    <3> HIDE DEF double
    <3> QED  BY <1>2, <2>3, <2>4, <3>1, <3>2
  <2> QED  BY <2>2, <2>5, <2>6, <2>7
<1>12. ClickIsThePress
  BY <1>11 DEF ClickIsThePress
<1> QED  BY <1>10, <1>12

LEMMA StrayUpAndDragAllowed ==
  ASSUME EvInv, NEW spot \in Spots, StrayUp(spot) \/ Drag(spot)
  PROVE  Allowed
<1> USE DEF EvInv
<1>1. UNCHANGED <<frame, router, took, tapped, inside, unheard, strays>>
  BY DEF StrayUp, Drag
<1>2. FocusIsHeld' /\ HoverIsHeld' /\ PressIsHeld' /\ TapIsHeld' /\ Who(focused)' = Who(focused)
  BY <1>1, HeldStill, FocusStands DEF router
<1>3. ASSUME NEW h \in heard' PROVE h \in Said /\ h[2] \in MayHear
  <2>1. CASE StrayUp(spot)
    BY <1>3, <2>1, UpFacts DEF StrayUp
  <2>2. CASE Drag(spot)
    <3>1. \/ h \in Fire("move", spot) \/ h \in Fire("drag", spot)
          \/ h \in FireOn("drag", Captured)
      BY <1>3, <2>2 DEF Drag
    <3>2. CASE h \in Fire("move", spot) \/ h \in Fire("drag", spot)
      BY <3>2, FireFacts, KindsAre DEF MayHear
    <3>3. CASE h \in FireOn("drag", Captured)
      BY <3>3, FireOnFacts, KindsAre DEF MayHear
    <3> QED  BY <3>1, <3>2, <3>3
  <2> QED  BY <2>1, <2>2
<1> QED  BY <1>1, <1>2, <1>3, AllowedStep

LEMMA HoverAllowed ==
  ASSUME EvInv, NEW spot \in Spots, Hover(spot)
  PROVE  Allowed
<1> USE DEF EvInv
<1> DEFINE hit   == HitAny[frame][spot]
           new   == Place(frame, hit)
           exit  == IF new = hovered THEN {} ELSE Leaves(hovered)
           enter == IF new = hovered THEN {} ELSE FireOn("enter", hit)
           RP    == Range(Painted[frame])
<1>1. /\ hovered' = new
      /\ heard' = Fire("move", spot) \cup exit \cup enter \cup FireOn("hover", hit)
      /\ inside' = (inside \ {e \in Elements : <<"exit", e>> \in exit})
                     \cup {e \in Elements : <<"enter", e>> \in enter}
      /\ unheard' = {e \in unheard \cup inside :
                       /\ e \in inside' /\ e # hit
                       /\ e \in unheard \/ e \notin RP \/ e \in Disabled[frame]}
      /\ UNCHANGED <<frame, focused, focusedSig, lastTap, down, told, took, tapped, strays>>
  BY DEF Hover
<1>2. hit \in Reach[frame] \cup {None}
  BY HitAnyFacts
<1>3. new \in 0..Cardinality(Elements)
  BY PlaceFacts
<1>4. Who(new) = hit
  <2>1. CASE hit = None
    <3>1. new = 0
      BY <2>1, PlaceFacts, FrameFacts
    <3> QED  BY <2>1, <3>1, WhoFacts
  <2>2. CASE hit # None
    BY <1>2, <2>2, ReachFacts, FrameFacts, WhoFacts
  <2> QED  BY <2>1, <2>2
<1>5. \A h \in exit : h \in FireOn("exit", Who(hovered))
  BY DEF Leaves
<1>6. \A h \in enter : h \in FireOn("enter", hit)
  OBVIOUS
<1>7. FocusIsHeld' /\ PressIsHeld' /\ TapIsHeld' /\ Who(focused)' = Who(focused)
  BY <1>1, HeldStill, FocusStands
<1>8. ASSUME NEW h \in heard' PROVE h \in Said /\ h[2] \in MayHear
  <2> HIDE DEF exit, enter, hit
  <2>1. \/ h \in Fire("move", spot) \/ h \in FireOn("exit", Who(hovered))
        \/ h \in FireOn("enter", hit) \/ h \in FireOn("hover", hit)
    BY <1>1, <1>5, <1>6, <1>8
  <2>2. CASE h \in Fire("move", spot)
    BY <2>2, FireFacts, KindsAre DEF MayHear
  <2>3. CASE h \in FireOn("exit", Who(hovered))
    BY <2>3, FireOnFacts, KindsAre DEF MayHear
  <2>4. CASE h \in FireOn("enter", hit) \/ h \in FireOn("hover", hit)
    <3>1. h \in Said /\ h[2] = hit /\ hit \in Range(Painted[frame])
      BY <2>4, FireOnFacts, KindsAre
    <3>2. hit \in Reach[frame]
      BY <1>2, <3>1, FrameFacts
    <3> QED  BY <3>1, <3>2 DEF MayHear
  <2> QED  BY <2>1, <2>2, <2>3, <2>4
<1>9. HoverIsHeld'
  <2>1. inside' \subseteq Elements /\ unheard' \subseteq Elements
    BY <1>1 DEF HoverIsHeld
  <2>2. ASSUME NEW e \in inside' \ (unheard' \cup Unrecorded), "exit" \in Listens[e], e # hit
        PROVE  FALSE
    <3>1. e \in inside /\ e \in Elements /\ <<"exit", e>> \notin exit
      <4>1. <<"enter", e>> \notin enter
        <5>1. ASSUME <<"enter", e>> \in FireOn("enter", hit) PROVE FALSE
          <6>1. <<"enter", e>>[2] = hit
            BY <5>1, FireOnFacts, KindsAre
          <6> QED  BY <2>2, <6>1
        <5> QED  BY <1>6, <5>1
      <4> HIDE DEF exit, enter
      <4> QED  BY <1>1, <2>1, <2>2, <4>1
    <3>2. e \notin unheard /\ e \in RP /\ e \notin Disabled[frame]
      BY <1>1, <2>2, <3>1
    <3>3. e = Who(hovered)
      BY <2>2, <3>1, <3>2 DEF HoverIsHeld
    <3>4. new # hovered
      BY <1>4, <2>2, <3>3
    <3>5. <<"exit", e>> \in exit
      BY <2>2, <3>2, <3>3, <3>4 DEF Leaves, FireOn
    <3> QED  BY <3>1, <3>5
  <2>3. Who(hovered)' = hit
    BY <1>1, <1>4 DEF Who
  <2> HIDE DEF hit, new
  <2> QED  BY <1>1, <1>3, <2>1, <2>2, <2>3 DEF HoverIsHeld
<1> QED  BY <1>1, <1>7, <1>8, <1>9, AllowedStep

(***************************************************************************)
(* The theorems.                                                           *)
(***************************************************************************)

\* Only a release ends a press and keeps the frame.
LEMMA NoOtherRelease ==
  ASSUME EvInv, down = None \/ down' # None
  PROVE  ClickIsThePress
BY DEF ClickIsThePress

LEMMA HandStep ==
  ASSUME EvInv, Next
  PROVE  \/ Allowed /\ frame' = frame /\ ClickIsThePress
         \/ \E g \in Frames, other \in BOOLEAN : Render(g, other)
<1>1. ASSUME NEW spot \in Spots, NEW secondary \in BOOLEAN, PointerDown(spot, secondary)
      PROVE  Allowed /\ frame' = frame /\ ClickIsThePress
  <2>1. frame' = frame /\ down' = [at |-> Place(frame, HitAny[frame][spot]), secondary |-> secondary]
    BY <1>1 DEF PointerDown
  <2>2. down' \in [at: 0..Cardinality(Elements), secondary: BOOLEAN]
    BY <2>1, PlaceFacts DEF EvInv
  <2>3. down' # None
    BY <2>2, EventsAssumption
  <2> QED  BY <1>1, <2>1, <2>3, PointerDownAllowed, NoOtherRelease
<1>2. ASSUME NEW spot \in Spots, NEW pace \in Paces, PointerUp(spot, pace)
      PROVE  Allowed /\ frame' = frame /\ ClickIsThePress
  <2>1. frame' = frame
    BY <1>2 DEF PointerUp
  <2> QED  BY <1>2, <2>1, PointerUpAllowed
<1>3. ASSUME NEW spot \in Spots, StrayUp(spot) \/ Drag(spot)
      PROVE  Allowed /\ frame' = frame /\ ClickIsThePress
  <2>1. frame' = frame /\ down' = down
    BY <1>3 DEF StrayUp, Drag, router
  <2>2. down = None \/ down' # None
    BY <2>1
  <2> QED  BY <1>3, <2>1, <2>2, StrayUpAndDragAllowed, NoOtherRelease
<1>4. ASSUME NEW spot \in Spots, Hover(spot)
      PROVE  Allowed /\ frame' = frame /\ ClickIsThePress
  <2>1. frame' = frame /\ down = None
    BY <1>4 DEF Hover
  <2> QED  BY <1>4, <2>1, HoverAllowed, NoOtherRelease
<1>5. ASSUME NEW back \in BOOLEAN, Tab(back)
      PROVE  Allowed /\ frame' = frame /\ ClickIsThePress
  <2>1. frame' = frame /\ down' = down
    BY <1>5 DEF Tab, MoveFocus
  <2>2. down = None \/ down' # None
    BY <2>1
  <2> QED  BY <1>5, <2>1, <2>2, TabAllowed, NoOtherRelease
<1>6. ASSUME NEW key \in {"next", "previous", "home", "end"}, GroupKey(key)
      PROVE  Allowed /\ frame' = frame /\ ClickIsThePress
  <2>1. frame' = frame /\ down' = down
    BY <1>6 DEF GroupKey, MoveFocus
  <2>2. down = None \/ down' # None
    BY <2>1
  <2> QED  BY <1>6, <2>1, <2>2, GroupKeyAllowed, NoOtherRelease
<1>7. ASSUME Press \/ Escape \/ \E i \in DOMAIN Built[frame] : FocusElement(i)
      PROVE  Allowed /\ frame' = frame /\ ClickIsThePress
  <2>1. frame' = frame /\ down' = down
    BY <1>7 DEF Press, Escape, FocusElement, MoveFocus, router
  <2>2. down = None \/ down' # None
    BY <2>1
  <2> QED  BY <1>7, <2>1, <2>2, OtherKeysAllowed, NoOtherRelease
<1> QED
  BY <1>1, <1>2, <1>3, <1>4, <1>5, <1>6, <1>7 DEF Next

LEMMA NextInvariant == EvInv /\ [Next]_vars => EvInv'
<1> SUFFICES ASSUME EvInv, [Next]_vars PROVE EvInv'
  OBVIOUS
<1>1. CASE Next
  <2>1. CASE Allowed
    BY <2>1 DEF Allowed
  <2>2. CASE \E g \in Frames, other \in BOOLEAN : Render(g, other)
    BY <2>2, RenderHolds
  <2> QED  BY <1>1, <2>1, <2>2, HandStep
<1>2. CASE UNCHANGED vars
  <2>1. UNCHANGED <<frame, focused, hovered, lastTap, focusedSig, down, told, heard, took, tapped,
                    inside, unheard, strays>>
    BY <1>2 DEF vars, router
  <2>2. FocusIsHeld' /\ HoverIsHeld' /\ PressIsHeld' /\ TapIsHeld'
    BY <2>1, HeldStill DEF EvInv
  <2>3. HeardIsSaid' /\ (frame \in Frames)'
    BY <2>1 DEF EvInv, HeardIsSaid
  <2> QED  BY <2>2, <2>3 DEF EvInv
<1> QED  BY <1>1, <1>2

LEMMA Invariant == Spec => []EvInv
BY InitInvariant, NextInvariant, PTL DEF Spec

(* The router's places, press, focus and hover, and what it fires, are of   *)
(* the layout and of its elements, whatever the frames that follow.         *)
THEOREM TypeCorrect == Spec => []TypeOK
BY Invariant, InvariantIsEnough, PTL

(* Whoever was told of focus or hover has it, or was told that it went: for *)
(* any elements, frames and handlers, and any order of input and renders.   *)
THEOREM EveryoneStaysTold == Spec => []EveryoneIsTold
BY Invariant, InvariantIsEnough, PTL

LEMMA StepGoesWhereItMay ==
  ASSUME EvInv, Next
  PROVE  ClickIsThePress /\ (frame' = frame => ModalShutsThePage) /\ FocusStaysInTheModal
<1>1. CASE Allowed /\ frame' = frame /\ ClickIsThePress
  BY <1>1 DEF Allowed, MayHear, ModalShutsThePage, FocusStaysInTheModal
<1>2. CASE \E g \in Frames, other \in BOOLEAN : Render(g, other)
  <2>1. PICK g \in Frames, other \in BOOLEAN : Render(g, other)
    BY <1>2
  <2>2. heard' = {} /\ frame' = g
    BY <2>1 DEF Render
  <2>3. ClickIsThePress /\ ModalShutsThePage
    BY <2>2 DEF ClickIsThePress, ModalShutsThePage
  <2>4. ASSUME Who(focused) \in Reach[frame], frame' = frame PROVE Who(focused)' \in Reach[frame]
    <3>1. Who(focused) \in Range(Built[g])
      BY <2>2, <2>4, ReachFacts, FrameFacts DEF EvInv
    <3> QED  BY <2>1, <2>4, <3>1, RenderHolds
  <2> QED  BY <2>3, <2>4 DEF FocusStaysInTheModal
<1> QED  BY <1>1, <1>2, HandStep

(* A click is the press's, a modal overlay shuts the page, and focus that   *)
(* is in it stays there: over every step of every behaviour.                *)
THEOREM InputIsRouted == Spec => InputGoesWhereItMay
<1>1. EvInv /\ [Next]_vars =>
        [ClickIsThePress /\ (frame' = frame => ModalShutsThePage) /\ FocusStaysInTheModal]_vars
  BY StepGoesWhereItMay
<1> QED  BY Invariant, <1>1, PTL DEF Spec, InputGoesWhereItMay
=============================================================================
