--------------------------- MODULE CarryOverProofs ---------------------------
(***************************************************************************)
(* What batches write and when, for every trace, every order of runs and   *)
(* every value of the thresholds that SplitterConstants admits.  Of the    *)
(* recursive functions of Splitter the proofs use one equation for each    *)
(* point: the state of the fold after it is AddPoint of the state before.  *)
(* The last section is about the split of any points: where its flights    *)
(* start, and what becomes of a segment that is carried over midnight.     *)
(***************************************************************************)
EXTENDS CarryOver, FiniteSetTheorems, WellFoundedInduction, TLAPS

(* Midnights are DayLen apart. *)
LEMMA MidnightSteps ==
    ASSUME NEW d \in Int
    PROVE  /\ Midnight(d) \in Int
           /\ Midnight(d - 1) = Midnight(d) - DayLen
           /\ Midnight(d - 2) = Midnight(d) - 2 * DayLen
           /\ Midnight(d - 3) = Midnight(d) - 3 * DayLen
           /\ Midnight(d - 3) = Midnight((d - 1) - 2)
<1>1. DayLen \in Int
    BY SplitterConstants
<1>2. /\ (d - 1) * DayLen = d * DayLen - DayLen
      /\ (d - 2) * DayLen = d * DayLen - 2 * DayLen
      /\ (d - 3) * DayLen = d * DayLen - 3 * DayLen
      /\ d * DayLen \in Int
    BY <1>1, Z3
<1>3. (d - 1) - 2 = d - 3
    OBVIOUS
<1> QED
    BY <1>2, <1>3 DEF Midnight

(* finalize_segment returns a flight within the segment's time span. *)
LEMMA FlightWithinSegment ==
    ASSUME NEW S \in SUBSET Point, NEW f \in FinalizeSegment(S),
           NEW lo \in Int, NEW hi \in Int,
           \A p \in S : lo <= p.ts /\ p.ts <= hi
    PROVE  /\ f \in Flight
           /\ lo <= f.start /\ f.start <= f.end /\ f.end <= hi
<1> DEFINE path == OnPath(Plausible({p \in S : p.air}))
<1>1. path \subseteq S
    BY DEF OnPath, Plausible
<1>2. PICK e \in path \X path :
          /\ \A p \in path : e[1].ts <= p.ts /\ p.ts <= e[2].ts
          /\ f = [start |-> e[1].ts, end |-> e[2].ts]
    BY DEF FinalizeSegment
<1>3. e[1] \in S /\ e[2] \in S /\ e[1].ts <= e[2].ts
    BY <1>1, <1>2
<1>4. e[1].ts \in Int /\ e[2].ts \in Int
    BY <1>3 DEF Point
<1> QED
    BY <1>2, <1>3, <1>4 DEF Flight

(* It returns one flight at most. *)
LEMMA OneFlightPerSegment ==
    ASSUME NEW S \in SUBSET Point, NEW f \in FinalizeSegment(S), NEW g \in FinalizeSegment(S)
    PROVE  f = g
<1> DEFINE path == OnPath(Plausible({p \in S : p.air}))
<1>1. path \subseteq Point
    BY DEF OnPath, Plausible
<1>2. PICK e \in path \X path :
          /\ \A p \in path : e[1].ts <= p.ts /\ p.ts <= e[2].ts
          /\ f = [start |-> e[1].ts, end |-> e[2].ts]
    BY DEF FinalizeSegment
<1>3. PICK h \in path \X path :
          /\ \A p \in path : h[1].ts <= p.ts /\ p.ts <= h[2].ts
          /\ g = [start |-> h[1].ts, end |-> h[2].ts]
    BY DEF FinalizeSegment
<1>4. /\ e[1] \in path /\ e[2] \in path /\ h[1] \in path /\ h[2] \in path
      /\ e[1].ts \in Int /\ e[2].ts \in Int /\ h[1].ts \in Int /\ h[2].ts \in Int
    BY <1>1, <1>2, <1>3 DEF Point
<1>5. e[1].ts = h[1].ts /\ e[2].ts = h[2].ts
    BY <1>2, <1>3, <1>4
<1> QED
    BY <1>2, <1>3, <1>5

(* A segment that the split test lets grow stays within the cap. *)
LEMMA GrowingSegmentCapped ==
    ASSUME NEW p \in Point, NEW c \in Point, NEW start \in Int,
           ~ShouldFlightSplit(p, c, start)
    PROVE  c.ts - start <= MaxSegment
<1>1. ~(c.ts - start > MaxSegment)
    BY DEF ShouldFlightSplit
<1>2. c.ts - start \in Int /\ MaxSegment \in Int
    BY SplitterConstants DEF Point
<1> QED
    BY <1>1, <1>2

(* What is in progress ends on the day of the cutoff. *)
LEMMA InProgressEndsToday ==
    ASSUME NEW d \in Int, NEW p \in Point, InProgress(p, Midnight(d))
    PROVE  Midnight(d - 1) < p.ts
<1>1. Midnight(d) \in Int /\ Midnight(d - 1) = Midnight(d) - DayLen
    BY MidnightSteps
<1>2. p.ts \in Int /\ DayLen \in Int /\ GroundGap \in Int /\ WindowAir \in Int
    BY SplitterConstants DEF Point
<1>3. GroundGap < DayLen /\ WindowAir < DayLen
    BY SplitterConstants
<1>4. CASE p.air
    BY <1>1, <1>2, <1>3, <1>4 DEF InProgress, InProgressWindow
<1>5. CASE ~p.air
    BY <1>1, <1>2, <1>3, <1>5 DEF InProgress, InProgressWindow
<1> QED
    BY <1>4, <1>5

-----------------------------------------------------------------------------
(* The folds of Splitter, point by point. *)

(* What holds of 0 and with each number of the next holds of all.          *)
LEMMA SetInduction ==
    ASSUME NEW S, 0 \in S, \A n \in Nat : n \in S => n + 1 \in S
    PROVE  Nat \subseteq S
<1> SUFFICES ASSUME Nat \ S # {} PROVE FALSE
    OBVIOUS
<1> DEFINE less == {e \in Nat \X Nat : e[1] < e[2]}
           T == Nat \ S
<1>1. IsWellFoundedOn(less, Nat)
    BY NatLessThanWellFounded DEF OpToRel
<1>2. \E x \in T : \A y \in T : ~(<<y, x>> \in less)
  <2> HIDE DEF less
  <2> QED
      BY <1>1, WFMin
<1>3. PICK m \in T : \A y \in T : ~(<<y, m>> \in less)
    BY <1>2
<1>4. \A y \in T : y \in Nat /\ m \in Nat /\ ~(y < m)
    BY <1>3
<1>5. m # 0 /\ m - 1 \in Nat /\ m - 1 < m
    BY <1>3
<1>6. m - 1 \in S
    BY <1>4, <1>5
<1> QED
    BY <1>3, <1>5, <1>6

(* The largest of numbers up to k is k, if it is among them. *)
LEMMA MaxOfRange ==
    ASSUME NEW k \in Nat, NEW s \in SUBSET (1..k), k \in s
    PROVE  Max(s) = k
<1>1. \A y \in s : k >= y
    OBVIOUS
<1>2. \A x \in s : (\A y \in s : x >= y) => x = k
    OBVIOUS
<1> QED
    BY <1>1, <1>2, Zenon DEF Max

(* The function a fold over s[1..n] with AddPoint is defined by: its value  *)
(* on a set of places.                                                     *)
WalkIter(g, s, n) ==
    g = [t \in SUBSET (1..n) |->
             IF t = {} THEN NothingWalked ELSE AddPoint(g[t \ {Max(t)}], s[Max(t)])]

(* It extends from one length to the next, *)
LEMMA WalkIterExists ==
    ASSUME NEW s, NEW k \in Nat, NEW g, WalkIter(g, s, k)
    PROVE  \E h : WalkIter(h, s, k + 1)
<1> DEFINE h == [t \in SUBSET (1..(k + 1)) |->
                   IF t \in SUBSET (1..k) THEN g[t] ELSE AddPoint(g[t \ {k + 1}], s[k + 1])]
<1>1. ASSUME NEW t \in SUBSET (1..(k + 1))
      PROVE  h[t] = IF t = {} THEN NothingWalked ELSE AddPoint(h[t \ {Max(t)}], s[Max(t)])
  <2>1. CASE t \notin SUBSET (1..k)
    <3>1. k + 1 \in t BY <2>1
    <3>2. Max(t) = k + 1 BY <3>1, MaxOfRange
    <3>3. t \ {k + 1} \in SUBSET (1..k) OBVIOUS
    <3>4. h[t \ {k + 1}] = g[t \ {k + 1}] BY <3>3
    <3>5. h[t] = AddPoint(g[t \ {k + 1}], s[k + 1]) BY <2>1
    <3> HIDE DEF h
    <3> QED BY <3>1, <3>2, <3>4, <3>5
  <2>2. CASE t = {}
    <3>1. h[t] = g[t] BY <2>2
    <3>2. g[t] = NothingWalked BY <2>2 DEF WalkIter
    <3> QED BY <2>2, <3>1, <3>2
  <2>3. CASE t \in SUBSET (1..k) /\ t # {}
    <3>1. h[t] = g[t] BY <2>3
    <3>2. g[t] = AddPoint(g[t \ {Max(t)}], s[Max(t)]) BY <2>3 DEF WalkIter
    <3>3. t \ {Max(t)} \in SUBSET (1..k) BY <2>3
    <3>4. h[t \ {Max(t)}] = g[t \ {Max(t)}] BY <3>3
    <3> HIDE DEF h
    <3> QED BY <2>3, <3>1, <3>2, <3>4
  <2> QED BY <2>1, <2>2, <2>3
<1>2. h = [t \in SUBSET (1..(k + 1)) |->
             IF t = {} THEN NothingWalked ELSE AddPoint(h[t \ {Max(t)}], s[Max(t)])]
  <2>1. h = [t \in SUBSET (1..(k + 1)) |-> h[t]] BY DEF h
  <2> HIDE DEF h
  <2> QED BY <1>1, <2>1
<1> HIDE DEF h
<1> QED BY <1>2 DEF WalkIter

(* computes the fold where it exists, *)
LEMMA FoldIsIter ==
    ASSUME NEW s, NEW n \in Nat, DOMAIN s = 1..n, \E g : WalkIter(g, s, n)
    PROVE  \E g : WalkIter(g, s, n) /\ FoldLeft(AddPoint, NothingWalked, s) = g[1..n]
<1> DEFINE it == CHOOSE g : WalkIter(g, s, n)
<1>1. WalkIter(it, s, n) OBVIOUS
<1>2. FoldLeft(AddPoint, NothingWalked, s) = it[1..n]
    BY DEF FoldLeft, MapThenFoldSet, WalkIter
<1> QED BY <1>1, <1>2

(* and so exists for every length. *)
LEMMA WalkIterOfAll ==
    ASSUME NEW s, NEW n \in Nat
    PROVE  \E g : WalkIter(g, s, n)
<1> DEFINE A == {k \in Nat : \E g : WalkIter(g, s, k)}
<1>1. 0 \in A
  <2> DEFINE g == [t \in SUBSET (1..0) |-> NothingWalked]
  <2>1. \A t \in SUBSET (1..0) : t = {} OBVIOUS
  <2>2. WalkIter(g, s, 0) BY <2>1 DEF WalkIter
  <2> HIDE DEF g
  <2> QED BY <2>2
<1>2. ASSUME NEW k \in Nat, k \in A PROVE k + 1 \in A
  <2>1. PICK g : WalkIter(g, s, k) BY <1>2
  <2> QED BY <2>1, WalkIterExists
<1> HIDE DEF A
<1>3. Nat \subseteq A BY <1>1, <1>2, SetInduction
<1> QED BY <1>3 DEF A

(* The fold passes through a walk per place, each from the one before. *)
LEMMA WalkFold ==
    ASSUME NEW s, NEW n \in Nat, DOMAIN s = 1..n
    PROVE  \E h : /\ h[0] = NothingWalked
                  /\ \A k \in 1..n : h[k] = AddPoint(h[k - 1], s[k])
                  /\ FoldLeft(AddPoint, NothingWalked, s) = h[n]
<1>1. PICK g : WalkIter(g, s, n) /\ FoldLeft(AddPoint, NothingWalked, s) = g[1..n]
    BY WalkIterOfAll, FoldIsIter
<1> DEFINE h == [k \in 0..n |-> g[1..k]]
<1>2. h[0] = NothingWalked
    BY <1>1 DEF WalkIter
<1>3. ASSUME NEW k \in 1..n PROVE h[k] = AddPoint(h[k - 1], s[k])
  <2>1. Max(1..k) = k BY MaxOfRange
  <2>2. (1..k) \ {k} = 1..(k - 1) OBVIOUS
  <2>3. 1..k \in SUBSET (1..n) /\ 1..k # {} OBVIOUS
  <2>4. g[1..k] = AddPoint(g[1..(k - 1)], s[k])
      BY <1>1, <2>1, <2>2, <2>3 DEF WalkIter
  <2> QED BY <2>4
<1>4. h[n] = g[1..n] OBVIOUS
<1> HIDE DEF h
<1> QED BY <1>1, <1>2, <1>3, <1>4


(* The same of KeepPlausible. *)
KeepIter(g, s, n) ==
    g = [t \in SUBSET (1..n) |->
             IF t = {} THEN << >> ELSE KeepPlausible(g[t \ {Max(t)}], s[Max(t)])]

(* It extends from one length to the next, *)
LEMMA KeepIterExists ==
    ASSUME NEW s, NEW k \in Nat, NEW g, KeepIter(g, s, k)
    PROVE  \E h : KeepIter(h, s, k + 1)
<1> DEFINE h == [t \in SUBSET (1..(k + 1)) |->
                   IF t \in SUBSET (1..k) THEN g[t] ELSE KeepPlausible(g[t \ {k + 1}], s[k + 1])]
<1>1. ASSUME NEW t \in SUBSET (1..(k + 1))
      PROVE  h[t] = IF t = {} THEN << >> ELSE KeepPlausible(h[t \ {Max(t)}], s[Max(t)])
  <2>1. CASE t \notin SUBSET (1..k)
    <3>1. k + 1 \in t BY <2>1
    <3>2. Max(t) = k + 1 BY <3>1, MaxOfRange
    <3>3. t \ {k + 1} \in SUBSET (1..k) OBVIOUS
    <3>4. h[t \ {k + 1}] = g[t \ {k + 1}] BY <3>3
    <3>5. h[t] = KeepPlausible(g[t \ {k + 1}], s[k + 1]) BY <2>1
    <3> HIDE DEF h
    <3> QED BY <3>1, <3>2, <3>4, <3>5
  <2>2. CASE t = {}
    <3>1. h[t] = g[t] BY <2>2
    <3>2. g[t] = << >> BY <2>2 DEF KeepIter
    <3> QED BY <2>2, <3>1, <3>2
  <2>3. CASE t \in SUBSET (1..k) /\ t # {}
    <3>1. h[t] = g[t] BY <2>3
    <3>2. g[t] = KeepPlausible(g[t \ {Max(t)}], s[Max(t)]) BY <2>3 DEF KeepIter
    <3>3. t \ {Max(t)} \in SUBSET (1..k) BY <2>3
    <3>4. h[t \ {Max(t)}] = g[t \ {Max(t)}] BY <3>3
    <3> HIDE DEF h
    <3> QED BY <2>3, <3>1, <3>2, <3>4
  <2> QED BY <2>1, <2>2, <2>3
<1>2. h = [t \in SUBSET (1..(k + 1)) |->
             IF t = {} THEN << >> ELSE KeepPlausible(h[t \ {Max(t)}], s[Max(t)])]
  <2>1. h = [t \in SUBSET (1..(k + 1)) |-> h[t]] BY DEF h
  <2> HIDE DEF h
  <2> QED BY <1>1, <2>1
<1> HIDE DEF h
<1> QED BY <1>2 DEF KeepIter

(* computes the fold where it exists, *)
LEMMA KeepFoldIsIter ==
    ASSUME NEW s, NEW n \in Nat, DOMAIN s = 1..n, \E g : KeepIter(g, s, n)
    PROVE  \E g : KeepIter(g, s, n) /\ FoldLeft(KeepPlausible, << >>, s) = g[1..n]
<1> DEFINE it == CHOOSE g : KeepIter(g, s, n)
<1>1. KeepIter(it, s, n) OBVIOUS
<1>2. FoldLeft(KeepPlausible, << >>, s) = it[1..n]
    BY DEF FoldLeft, MapThenFoldSet, KeepIter
<1> QED BY <1>1, <1>2

(* and so exists for every length. *)
LEMMA KeepIterOfAll ==
    ASSUME NEW s, NEW n \in Nat
    PROVE  \E g : KeepIter(g, s, n)
<1> DEFINE A == {k \in Nat : \E g : KeepIter(g, s, k)}
<1>1. 0 \in A
  <2> DEFINE g == [t \in SUBSET (1..0) |-> << >>]
  <2>1. \A t \in SUBSET (1..0) : t = {} OBVIOUS
  <2>2. KeepIter(g, s, 0) BY <2>1 DEF KeepIter
  <2> HIDE DEF g
  <2> QED BY <2>2
<1>2. ASSUME NEW k \in Nat, k \in A PROVE k + 1 \in A
  <2>1. PICK g : KeepIter(g, s, k) BY <1>2
  <2> QED BY <2>1, KeepIterExists
<1> HIDE DEF A
<1>3. Nat \subseteq A BY <1>1, <1>2, SetInduction
<1> QED BY <1>3 DEF A

(* The fold passes through the kept points per place. *)
LEMMA KeepFold ==
    ASSUME NEW s, NEW n \in Nat, DOMAIN s = 1..n
    PROVE  \E h : /\ h[0] = << >>
                  /\ \A k \in 1..n : h[k] = KeepPlausible(h[k - 1], s[k])
                  /\ FoldLeft(KeepPlausible, << >>, s) = h[n]
<1>1. PICK g : KeepIter(g, s, n) /\ FoldLeft(KeepPlausible, << >>, s) = g[1..n]
    BY KeepIterOfAll, KeepFoldIsIter
<1> DEFINE h == [k \in 0..n |-> g[1..k]]
<1>2. h[0] = << >>
    BY <1>1 DEF KeepIter
<1>3. ASSUME NEW k \in 1..n PROVE h[k] = KeepPlausible(h[k - 1], s[k])
  <2>1. Max(1..k) = k BY MaxOfRange
  <2>2. (1..k) \ {k} = 1..(k - 1) OBVIOUS
  <2>3. 1..k \in SUBSET (1..n) /\ 1..k # {} OBVIOUS
  <2>4. g[1..k] = KeepPlausible(g[1..(k - 1)], s[k])
      BY <1>1, <2>1, <2>2, <2>3 DEF KeepIter
  <2> QED BY <2>4
<1>4. h[n] = g[1..n] OBVIOUS
<1> HIDE DEF h
<1> QED BY <1>1, <1>2, <1>3, <1>4


(* InOrder by its definition. *)
LEMMA InOrderAt ==
    ASSUME NEW S, NEW i \in 1..Cardinality(S)
    PROVE  InOrder(S)[i] = CHOOSE p \in S : Cardinality({q \in S : q.ts < p.ts}) = i - 1
BY DEF InOrder

(* A point later than all others comes last and moves none of them. *)
LEMMA InOrderNext ==
    ASSUME NEW S \in SUBSET Point, IsFiniteSet(S), NEW c \in Point, \A p \in S : p.ts < c.ts
    PROVE  /\ DOMAIN InOrder(S) = 1..Cardinality(S)
           /\ DOMAIN InOrder(S \cup {c}) = 1..(Cardinality(S) + 1)
           /\ InOrder(S \cup {c})[Cardinality(S) + 1] = c
           /\ \A i \in 1..Cardinality(S) : InOrder(S \cup {c})[i] = InOrder(S)[i]
<1> DEFINE T == S \cup {c}
           n == Cardinality(S)
           Before(U, p) == {q \in U : q.ts < p.ts}
<1>1. c \notin S /\ c.ts \in Int /\ \A p \in S : p.ts \in Int
    BY DEF Point
<1>2. n \in Nat /\ Cardinality(T) = n + 1
    BY <1>1, FS_AddElement, FS_CardinalityType
<1>3. \A p \in S : Before(T, p) = Before(S, p)
    BY <1>1
<1>4. Before(T, c) = S
    BY <1>1
<1>5. ASSUME NEW p \in S PROVE Cardinality(Before(S, p)) \in Nat /\ Cardinality(Before(S, p)) < n
  <2>1. Before(S, p) \in SUBSET S /\ p \notin Before(S, p)
      BY <1>1
  <2>2. IsFiniteSet(Before(S, p)) /\ Cardinality(Before(S, p)) <= n /\ Cardinality(Before(S, p)) # n
      BY <2>1, FS_Subset
  <2> QED BY <1>2, <2>2, FS_CardinalityType
<1>6. InOrder(T)[n + 1] = c
  <2>0. n + 1 \in 1..Cardinality(T) BY <1>2
  <2>1. InOrder(T)[n + 1] = CHOOSE p \in T : Cardinality(Before(T, p)) = (n + 1) - 1
      BY <2>0, InOrderAt
  <2>2. \A p \in T : Cardinality(Before(T, p)) = (n + 1) - 1 <=> p = c
    <3>1. (n + 1) - 1 = n BY <1>2
    <3>2. \A p \in S : Cardinality(Before(T, p)) # n
        BY <1>2, <1>3, <1>5
    <3>3. Cardinality(Before(T, c)) = n BY <1>4
    <3> HIDE DEF n, Before
    <3> QED BY <1>1, <3>1, <3>2, <3>3
  <2>3. c \in T OBVIOUS
  <2> HIDE DEF Before, T, n
  <2>4. (CHOOSE p \in T : Cardinality(Before(T, p)) = (n + 1) - 1) = c
      BY <2>2, <2>3, Zenon
  <2> QED BY <2>1, <2>4
<1>7. ASSUME NEW i \in 1..n PROVE InOrder(T)[i] = InOrder(S)[i]
  <2>0. i \in 1..Cardinality(T) BY <1>2
  <2>1. InOrder(T)[i] = CHOOSE p \in T : Cardinality(Before(T, p)) = i - 1
      BY <2>0, InOrderAt
  <2>2. InOrder(S)[i] = CHOOSE p \in S : Cardinality(Before(S, p)) = i - 1
      BY InOrderAt
  <2>3. \A p : (p \in T /\ Cardinality(Before(T, p)) = i - 1)
                   <=> (p \in S /\ Cardinality(Before(S, p)) = i - 1)
      BY <1>2, <1>3, <1>4, <1>5
  <2> HIDE DEF T, n, Before
  <2>4. (CHOOSE p \in T : Cardinality(Before(T, p)) = i - 1)
            = CHOOSE p \in S : Cardinality(Before(S, p)) = i - 1
      BY <2>3, Zenon
  <2> QED BY <2>1, <2>2, <2>4
<1>8. DOMAIN InOrder(S) = 1..n /\ DOMAIN InOrder(T) = 1..(n + 1)
    BY <1>2 DEF InOrder
<1> HIDE DEF T
<1> QED BY <1>6, <1>7, <1>8 DEF T

(* The walk over no point. *)
LEMMA WalkedNone == Walked({}) = NothingWalked
<1>1. Cardinality({}) = 0 BY FS_EmptySet
<1> DEFINE s == InOrder({})
<1>2. DOMAIN s = 1..0 BY <1>1 DEF InOrder
<1> HIDE DEF s
<1>3. FoldLeft(AddPoint, NothingWalked, s) = NothingWalked
    BY <1>2, 0 \in Nat, WalkFold
<1> QED BY <1>3 DEF Walked, s

(* The walk over one more point, the latest: the split can be computed one *)
(* point at a time.                                                        *)
LEMMA WalkedNext ==
    ASSUME NEW S \in SUBSET Point, IsFiniteSet(S), NEW c \in Point, \A p \in S : p.ts < c.ts
    PROVE  Walked(S \cup {c}) = AddPoint(Walked(S), c)
<1> DEFINE n == Cardinality(S)
           s == InOrder(S)
           t == InOrder(S \cup {c})
<1>1. /\ n \in Nat /\ DOMAIN s = 1..n /\ DOMAIN t = 1..(n + 1)
      /\ t[n + 1] = c /\ \A i \in 1..n : t[i] = s[i]
    BY InOrderNext, FS_CardinalityType
<1> HIDE DEF n, s, t
<1>2. PICK h : /\ h[0] = NothingWalked
               /\ \A k \in 1..n : h[k] = AddPoint(h[k - 1], s[k])
               /\ FoldLeft(AddPoint, NothingWalked, s) = h[n]
    BY <1>1, WalkFold
<1>3. PICK g : /\ g[0] = NothingWalked
               /\ \A k \in 1..(n + 1) : g[k] = AddPoint(g[k - 1], t[k])
               /\ FoldLeft(AddPoint, NothingWalked, t) = g[n + 1]
  <2>1. n + 1 \in Nat BY <1>1
  <2> QED BY <1>1, <2>1, WalkFold
<1> DEFINE A == {k \in Nat : k <= n => g[k] = h[k]}
<1>4. 0 \in A BY <1>2, <1>3
<1>5. ASSUME NEW k \in Nat, k \in A PROVE k + 1 \in A
  <2>1. CASE k + 1 <= n
    <3>1. g[k] = h[k] /\ k + 1 \in 1..n /\ k + 1 \in 1..(n + 1) /\ (k + 1) - 1 = k
        BY <1>1, <1>5, <2>1
    <3>2. g[k + 1] = AddPoint(g[k], t[k + 1]) /\ h[k + 1] = AddPoint(h[k], s[k + 1])
        BY <1>2, <1>3, <3>1
    <3>3. g[k + 1] = h[k + 1] BY <1>1, <3>1, <3>2
    <3> QED BY <3>3
  <2>2. CASE ~(k + 1 <= n) BY <2>2
  <2> QED BY <2>1, <2>2
<1> HIDE DEF A
<1>6. n \in A BY <1>1, <1>4, <1>5, SetInduction
<1>7. g[n] = h[n] BY <1>1, <1>6 DEF A
<1>8. n + 1 \in 1..(n + 1) /\ (n + 1) - 1 = n BY <1>1
<1>9. g[n + 1] = AddPoint(g[n], c) BY <1>1, <1>3, <1>8
<1> QED BY <1>2, <1>3, <1>7, <1>9 DEF Walked, s, t

(* The plausible points, in order. *)
Kept(S) == FoldLeft(KeepPlausible, << >>, InOrder(S))

(* Of no point, none. *)
LEMMA KeptNone == Kept({}) = << >>
<1>1. Cardinality({}) = 0 BY FS_EmptySet
<1> DEFINE s == InOrder({})
<1>2. DOMAIN s = 1..0 BY <1>1 DEF InOrder
<1> HIDE DEF s
<1>3. FoldLeft(KeepPlausible, << >>, s) = << >>
    BY <1>2, 0 \in Nat, KeepFold
<1> QED BY <1>3 DEF Kept, s

(* One more point, the latest, is kept or dropped. *)
LEMMA KeptNext ==
    ASSUME NEW S \in SUBSET Point, IsFiniteSet(S), NEW c \in Point, \A p \in S : p.ts < c.ts
    PROVE  Kept(S \cup {c}) = KeepPlausible(Kept(S), c)
<1> DEFINE n == Cardinality(S)
           s == InOrder(S)
           t == InOrder(S \cup {c})
<1>1. /\ n \in Nat /\ DOMAIN s = 1..n /\ DOMAIN t = 1..(n + 1)
      /\ t[n + 1] = c /\ \A i \in 1..n : t[i] = s[i]
    BY InOrderNext, FS_CardinalityType
<1> HIDE DEF n, s, t
<1>2. PICK h : /\ h[0] = << >>
               /\ \A k \in 1..n : h[k] = KeepPlausible(h[k - 1], s[k])
               /\ FoldLeft(KeepPlausible, << >>, s) = h[n]
    BY <1>1, KeepFold
<1>3. PICK g : /\ g[0] = << >>
               /\ \A k \in 1..(n + 1) : g[k] = KeepPlausible(g[k - 1], t[k])
               /\ FoldLeft(KeepPlausible, << >>, t) = g[n + 1]
  <2>1. n + 1 \in Nat BY <1>1
  <2> QED BY <1>1, <2>1, KeepFold
<1> DEFINE A == {k \in Nat : k <= n => g[k] = h[k]}
<1>4. 0 \in A BY <1>2, <1>3
<1>5. ASSUME NEW k \in Nat, k \in A PROVE k + 1 \in A
  <2>1. CASE k + 1 <= n
    <3>1. g[k] = h[k] /\ k + 1 \in 1..n /\ k + 1 \in 1..(n + 1) /\ (k + 1) - 1 = k
        BY <1>1, <1>5, <2>1
    <3>2. g[k + 1] = KeepPlausible(g[k], t[k + 1]) /\ h[k + 1] = KeepPlausible(h[k], s[k + 1])
        BY <1>2, <1>3, <3>1
    <3>3. g[k + 1] = h[k + 1] BY <1>1, <3>1, <3>2
    <3> QED BY <3>3
  <2>2. CASE ~(k + 1 <= n) BY <2>2
  <2> QED BY <2>1, <2>2
<1> HIDE DEF A
<1>6. n \in A BY <1>1, <1>4, <1>5, SetInduction
<1>7. g[n] = h[n] BY <1>1, <1>6 DEF A
<1>8. n + 1 \in 1..(n + 1) /\ (n + 1) - 1 = n BY <1>1
<1>9. g[n + 1] = KeepPlausible(g[n], c) BY <1>1, <1>3, <1>8
<1> QED BY <1>2, <1>3, <1>7, <1>9 DEF Kept, s, t

-----------------------------------------------------------------------------
(* What later points do to a segment. *)

(* Points at different times within an interval are finitely many. *)
LEMMA FiniteInInterval ==
    ASSUME NEW S \in SUBSET Point, OneAtATime(S), NEW lo \in Int, NEW hi \in Int,
           \A p \in S : lo < p.ts /\ p.ts <= hi
    PROVE  IsFiniteSet(S)
<1> DEFINE f == [p \in S |-> p.ts]
<1>1. \A p \in S : p.ts \in Int /\ p.ts \in lo..hi
    BY DEF Point
<1>2. f \in Injection(S, lo..hi)
  <2>1. f \in [S -> lo..hi] BY <1>1
  <2>2. \A p, q \in S : f[p] = f[q] => p = q BY DEF OneAtATime
  <2> QED BY <2>1, <2>2 DEF Injection, IsInjective
<1>3. IsFiniteSet(lo..hi) BY FS_Interval
<1> QED BY <1>2, <1>3, FS_Injection

Upto(S, t) == {p \in S : p.ts <= t}

(* One tick adds at most one point, the last. *)
LEMMA UptoNext ==
    ASSUME NEW S \in SUBSET Point, OneAtATime(S), IsFiniteSet(S), NEW t \in Int
    PROVE  /\ IsFiniteSet(Upto(S, t)) /\ Upto(S, t) \in SUBSET Point
           /\ \/ Upto(S, t + 1) = Upto(S, t)
              \/ \E c \in S : /\ c.ts = t + 1 /\ \A p \in Upto(S, t) : p.ts < c.ts
                              /\ Upto(S, t + 1) = Upto(S, t) \cup {c}
<1>1. \A p \in S : p.ts \in Int BY DEF Point
<1>2. IsFiniteSet(Upto(S, t)) /\ Upto(S, t) \in SUBSET Point
    BY FS_Subset DEF Upto
<1>3. CASE \E c \in S : c.ts = t + 1
  <2>1. PICK c \in S : c.ts = t + 1 BY <1>3
  <2>2. \A p \in S : p.ts <= t + 1 <=> p.ts <= t \/ p = c
      BY <1>1, <2>1 DEF OneAtATime
  <2>3. Upto(S, t + 1) = Upto(S, t) \cup {c} BY <2>2 DEF Upto
  <2>4. \A p \in Upto(S, t) : p.ts < c.ts BY <1>1, <2>1 DEF Upto
  <2> QED BY <1>2, <2>1, <2>3, <2>4
<1>4. CASE ~\E c \in S : c.ts = t + 1
  <2>1. \A p \in S : p.ts <= t + 1 <=> p.ts <= t BY <1>1, <1>4
  <2> QED BY <1>2, <2>1 DEF Upto
<1> QED BY <1>3, <1>4

(* What is kept of S is a sequence of points of S. *)
LEMMA KeptIsSeq ==
    ASSUME NEW S \in SUBSET Point, OneAtATime(S), IsFiniteSet(S), NEW lo \in Int,
           \A p \in S : lo < p.ts, NEW n \in Nat
    PROVE  Kept(Upto(S, lo + n)) \in Seq(S)
<1> DEFINE A == {k \in Nat : Kept(Upto(S, lo + k)) \in Seq(S)}
<1>0. \A p \in S : p.ts \in Int BY DEF Point
<1>1. 0 \in A
  <2>1. Upto(S, lo + 0) = {} BY <1>0 DEF Upto
  <2>2. Kept(Upto(S, lo + 0)) = << >> BY <2>1, KeptNone
  <2>3. << >> \in Seq(S) OBVIOUS
  <2> QED BY <2>2, <2>3
<1>2. ASSUME NEW k \in Nat, k \in A PROVE k + 1 \in A
  <2>1. lo + k \in Int /\ lo + (k + 1) = (lo + k) + 1 /\ k + 1 \in Nat OBVIOUS
  <2> DEFINE u == lo + k
  <2> HIDE DEF u
  <2>2. CASE Upto(S, u + 1) = Upto(S, u)
      BY <1>2, <2>1, <2>2 DEF u
  <2>3. CASE \E c \in S : /\ \A p \in Upto(S, u) : p.ts < c.ts
                          /\ Upto(S, u + 1) = Upto(S, u) \cup {c}
    <3>1. PICK c \in S : /\ \A p \in Upto(S, u) : p.ts < c.ts
                         /\ Upto(S, u + 1) = Upto(S, u) \cup {c}
        BY <2>3
    <3>2. Kept(Upto(S, u + 1)) = KeepPlausible(Kept(Upto(S, u)), c)
        BY <2>1, <3>1, UptoNext, KeptNext DEF u
    <3>3. Kept(Upto(S, u)) \in Seq(S) BY <1>2 DEF u
    <3>4. \/ Kept(Upto(S, u + 1)) = Kept(Upto(S, u))
          \/ Kept(Upto(S, u + 1)) = Append(Kept(Upto(S, u)), c)
        BY <3>2 DEF KeepPlausible
    <3>5. \A q \in Seq(S) : Append(q, c) \in Seq(S) OBVIOUS
    <3>6. Kept(Upto(S, u + 1)) \in Seq(S) BY <3>3, <3>4, <3>5, Zenon
    <3> QED BY <2>1, <3>6 DEF u
  <2>4. u \in Int BY <2>1 DEF u
  <2> HIDE DEF A
  <2> QED BY <2>2, <2>3, <2>4, UptoNext
<1> HIDE DEF A
<1>3. n \in A BY <1>1, <1>2, SetInduction
<1> QED BY <1>3 DEF A

(* What is kept up to a time stays kept, and later only later points are. *)
LEMMA KeptGrows ==
    ASSUME NEW S \in SUBSET Point, OneAtATime(S), IsFiniteSet(S), NEW lo \in Int,
           \A p \in S : lo < p.ts, NEW m \in Nat, NEW n \in Nat
    PROVE  LET K(i) == ToSet(Kept(Upto(S, lo + i)))
           IN  /\ K(m) \subseteq K(m + n)
               /\ \A p \in K(m + n) : p \in K(m) \/ p.ts > lo + m
<1> DEFINE K(i) == ToSet(Kept(Upto(S, lo + i)))
           A == {k \in Nat : /\ K(m) \subseteq K(m + k)
                             /\ \A p \in K(m + k) : p \in K(m) \/ p.ts > lo + m}
<1>0. \A p \in S : p.ts \in Int BY DEF Point
<1>1. 0 \in A
  <2>1. m + 0 = m OBVIOUS
  <2> HIDE DEF K
  <2> QED BY <2>1
<1>2. ASSUME NEW k \in Nat, k \in A PROVE k + 1 \in A
  <2> DEFINE u == lo + (m + k)
  <2>1. /\ u \in Int /\ lo + (m + (k + 1)) = u + 1 /\ k + 1 \in Nat /\ m + k \in Nat
        /\ u + 1 > lo + m
      OBVIOUS
  <2> HIDE DEF u
  <2>2. CASE Upto(S, u + 1) = Upto(S, u)
    <3>1. K(m + (k + 1)) = K(m + k) BY <2>1, <2>2 DEF u
    <3> HIDE DEF K
    <3> QED BY <1>2, <2>1, <3>1
  <2>3. CASE \E c \in S : /\ c.ts = u + 1 /\ \A p \in Upto(S, u) : p.ts < c.ts
                          /\ Upto(S, u + 1) = Upto(S, u) \cup {c}
    <3>1. PICK c \in S : /\ c.ts = u + 1 /\ \A p \in Upto(S, u) : p.ts < c.ts
                         /\ Upto(S, u + 1) = Upto(S, u) \cup {c}
        BY <2>3
    <3>2. Kept(Upto(S, u + 1)) = KeepPlausible(Kept(Upto(S, u)), c)
        BY <2>1, <3>1, UptoNext, KeptNext
    <3>3. Kept(Upto(S, u)) \in Seq(S) BY <2>1, KeptIsSeq DEF u
    <3> DEFINE old == Kept(Upto(S, u))
               new == Kept(Upto(S, u + 1))
    <3>4. new = old \/ new = Append(old, c) BY <3>2 DEF KeepPlausible
    <3>5. ToSet(old) \subseteq ToSet(new) /\ \A p \in ToSet(new) : p \in ToSet(old) \/ p = c
      <4> HIDE DEF old, new
      <4>1. old \in Seq(S) BY <3>3 DEF old
      <4> QED BY <3>4, <4>1 DEF ToSet
    <3>6. K(m + k) = ToSet(old) /\ K(m + (k + 1)) = ToSet(new)
        BY <2>1 DEF u
    <3> HIDE DEF K, old, new
    <3> QED BY <1>2, <2>1, <3>1, <3>5, <3>6
  <2> HIDE DEF A
  <2> QED BY <2>1, <2>2, <2>3, UptoNext
<1> HIDE DEF A
<1>3. n \in A BY <1>1, <1>2, SetInduction
<1> QED BY <1>3 DEF A

(* The same of the set of plausible points. *)
LEMMA PlausibleGrows ==
    ASSUME NEW S \in SUBSET Point, OneAtATime(S), NEW lo \in Int, NEW t \in Int, NEW hi \in Int,
           lo <= t, t <= hi, \A p \in S : lo < p.ts /\ p.ts <= hi
    PROVE  /\ Plausible(Upto(S, t)) \subseteq Plausible(S)
           /\ \A p \in Plausible(S) : p.ts <= t => p \in Plausible(Upto(S, t))
<1> DEFINE m == t - lo
           n == hi - t
<1>1. /\ m \in Nat /\ n \in Nat /\ lo + m = t /\ lo + (m + n) = hi
      /\ \A p \in S : p.ts \in Int
    BY DEF Point
<1>2. IsFiniteSet(S) BY FiniteInInterval
<1>3. /\ ToSet(Kept(Upto(S, t))) \subseteq ToSet(Kept(Upto(S, hi)))
      /\ \A p \in ToSet(Kept(Upto(S, hi))) : p \in ToSet(Kept(Upto(S, t))) \/ p.ts > t
  <2> HIDE DEF m, n
  <2> QED BY <1>1, <1>2, KeptGrows
<1>4. Upto(S, hi) = S BY DEF Upto
<1>5. \A U : Plausible(U) = {p \in U : p \in ToSet(Kept(U))}
    BY DEF Plausible, Kept
<1> QED BY <1>1, <1>3, <1>4, <1>5 DEF Upto

(* Some point of a set that does not go on forever is the last. *)
LEMMA LatestPoint ==
    ASSUME NEW P \in SUBSET Point, P # {}, NEW hi \in Int, \A p \in P : p.ts <= hi
    PROVE  \E last \in P : \A p \in P : p.ts <= last.ts
<1> SUFFICES ASSUME \A last \in P : \E p \in P : ~(p.ts <= last.ts) PROVE FALSE
    OBVIOUS
<1>1. \A p \in P : p.ts \in Int BY DEF Point
<1>2. PICK q \in P : TRUE OBVIOUS
<1> DEFINE A == {k \in Nat : \E p \in P : p.ts >= q.ts + k}
<1>3. 0 \in A BY <1>1, <1>2
<1>4. ASSUME NEW k \in Nat, k \in A PROVE k + 1 \in A
  <2>1. PICK p \in P : p.ts >= q.ts + k BY <1>4
  <2>2. PICK r \in P : ~(r.ts <= p.ts) OBVIOUS
  <2>3. r.ts >= q.ts + (k + 1) BY <1>1, <2>1, <2>2
  <2> QED BY <2>3
<1> DEFINE k == hi - q.ts + 1
<1>5. k \in Nat /\ hi < q.ts + k BY <1>1
<1> HIDE DEF k
<1>6. k \in A
  <2> HIDE DEF A
  <2> QED BY <1>3, <1>4, <1>5, SetInduction
<1>7. PICK p \in P : p.ts >= q.ts + k BY <1>6
<1> QED BY <1>1, <1>5, <1>7

(* Points that come after a segment extend its flight, under its start: a  *)
(* point before the flight begins lies more than SubSeqGap from its first, *)
(* and so from all that come later.                                        *)
LEMMA FlightExtends ==
    ASSUME NEW S \in SUBSET Point, OneAtATime(S), NEW lo \in Int, NEW t \in Int, NEW hi \in Int,
           lo <= t, t <= hi, \A p \in S : lo < p.ts /\ p.ts <= hi,
           NEW f \in FinalizeSegment(Upto(S, t))
    PROVE  /\ AtLeastTwo(S)
           /\ \E g \in FinalizeSegment(S) : g.start = f.start /\ g.end >= f.end
<1> DEFINE B    == {p \in S : p.air}
           P    == Plausible(Upto(B, t))
           Q    == Plausible(B)
           old  == OnPath(P)
           new  == OnPath(Q)
<1>1. \A p \in S : p.ts \in Int BY DEF Point
<1>2. {p \in Upto(S, t) : p.air} = Upto(B, t) BY DEF Upto
<1>3. /\ P \subseteq Q /\ \A p \in Q : p.ts <= t => p \in P
      /\ Q \subseteq S /\ \A p \in P : p.ts <= t
  <2>1. B \in SUBSET Point /\ OneAtATime(B) BY DEF OneAtATime
  <2>2. P \subseteq Q /\ \A p \in Q : p.ts <= t => p \in P
    <3> HIDE DEF P, Q
    <3>1. \A p \in B : lo < p.ts /\ p.ts <= hi OBVIOUS
    <3> HIDE DEF B
    <3> QED BY <2>1, <3>1, PlausibleGrows DEF P, Q
  <2>3. Q \subseteq B BY DEF Plausible
  <2>4. P \subseteq Upto(B, t) BY DEF Plausible
  <2>5. \A p \in Upto(B, t) : p.ts <= t BY DEF Upto
  <2> HIDE DEF P, Q
  <2> QED BY <2>2, <2>3, <2>4, <2>5
<1>4. PICK e \in old \X old :
          /\ \A p \in old : e[1].ts <= p.ts /\ p.ts <= e[2].ts
          /\ f = [start |-> e[1].ts, end |-> e[2].ts]
  <2>1. f \in {[start |-> e[1].ts, end |-> e[2].ts] : e \in
                   {e \in old \X old : \A p \in old : e[1].ts <= p.ts /\ p.ts <= e[2].ts}}
      BY <1>2 DEF FinalizeSegment
  <2> HIDE DEF old
  <2> QED BY <2>1
<1> HIDE DEF P, Q
<1>5. old \subseteq new /\ new \subseteq S /\ old \subseteq P
    BY <1>3 DEF OnPath
<1>6. e[1] \in old /\ e[2] \in old BY <1>4
<1>7. AtLeastTwo(S)
    BY <1>3, <1>6 DEF OnPath, AtLeastTwo
<1>8. ASSUME NEW p \in new PROVE e[1].ts <= p.ts
  <2>1. p \in Q /\ p.ts \in Int /\ e[1].ts \in Int /\ e[1] \in P /\ e[1].ts <= t
      BY <1>1, <1>3, <1>5, <1>6 DEF OnPath
  <2>2. CASE p.ts > t BY <2>1, <2>2
  <2>3. CASE p.ts <= t
    <3>1. SUFFICES ASSUME p.ts < e[1].ts PROVE FALSE BY <2>1
    <3>2. p \in P BY <1>3, <2>1, <2>3
    <3>3. PICK q \in Q : p.ts # q.ts /\ Gap(p, q) <= SubSeqGap /\ Gap(q, p) <= SubSeqGap
        BY DEF OnPath
    <3>4. q.ts \in Int /\ SubSeqGap \in Int BY <1>1, <1>3, SplitterConstants
    <3>5. CASE q.ts <= t
      <4>1. p \in old BY <1>3, <3>2, <3>3, <3>5 DEF OnPath
      <4> QED BY <1>4, <2>1, <3>1, <4>1
    <3>6. CASE ~(q.ts <= t)
      <4>1. /\ Gap(p, e[1]) <= SubSeqGap /\ Gap(e[1], p) <= SubSeqGap
            /\ p.ts # e[1].ts
          BY <2>1, <3>1, <3>3, <3>4, <3>6, SplitterConstants DEF Gap
      <4>2. p \in old BY <2>1, <3>2, <4>1 DEF OnPath
      <4> QED BY <1>4, <2>1, <3>1, <4>2
    <3> QED BY <3>5, <3>6
  <2> QED BY <2>1, <2>2, <2>3
<1>9. PICK last \in new : \A p \in new : p.ts <= last.ts
  <2> HIDE DEF new, old
  <2>1. new # {} /\ new \in SUBSET Point /\ \A p \in new : p.ts <= hi BY <1>5, <1>6
  <2> QED BY <2>1, LatestPoint
<1> DEFINE g == [start |-> e[1].ts, end |-> last.ts]
<1>10. g \in FinalizeSegment(S)
  <2> DEFINE d == <<e[1], last>>
  <2>1. d \in new \X new /\ d[1] = e[1] /\ d[2] = last BY <1>5, <1>6
  <2>2. \A p \in new : d[1].ts <= p.ts /\ p.ts <= d[2].ts BY <1>8, <1>9, <2>1
  <2>3. g = [start |-> d[1].ts, end |-> d[2].ts] BY <2>1
  <2> HIDE DEF d, g, new
  <2>4. g \in {[start |-> x[1].ts, end |-> x[2].ts] : x \in
                   {x \in new \X new : \A p \in new : x[1].ts <= p.ts /\ p.ts <= x[2].ts}}
      BY <2>1, <2>2, <2>3
  <2> QED BY <2>4 DEF FinalizeSegment, new, Q
<1>11. e[2].ts <= last.ts /\ last.ts \in Int /\ e[2].ts \in Int
    BY <1>1, <1>5, <1>6, <1>9
<1> QED BY <1>4, <1>7, <1>10, <1>11

-----------------------------------------------------------------------------
(* The split of any points at different times, as Splitter defines it. *)

(* What holds of no point, and with some points of these and one later,    *)
(* holds of all of them.                                                   *)
LEMMA PointInduction ==
    ASSUME NEW S \in SUBSET Point, OneAtATime(S), NEW lo \in Int, NEW hi \in Int,
           \A p \in S : lo < p.ts /\ p.ts <= hi,
           NEW Good, {} \in Good,
           \A T \in SUBSET S : \A c \in S :
               T \in Good /\ IsFiniteSet(T) /\ (\A p \in T : p.ts < c.ts) => T \cup {c} \in Good
    PROVE  S \in Good
<1>1. \A p \in S : p.ts \in Int BY DEF Point
<1>2. IsFiniteSet(S) BY FiniteInInterval
<1> DEFINE A == {k \in Nat : Upto(S, lo + k) \in Good}
<1>3. 0 \in A
  <2>1. Upto(S, lo + 0) = {} BY <1>1 DEF Upto
  <2> QED BY <2>1
<1>4. ASSUME NEW k \in Nat, k \in A PROVE k + 1 \in A
  <2> DEFINE u == lo + k
  <2>1. u \in Int /\ lo + (k + 1) = u + 1 /\ k + 1 \in Nat OBVIOUS
  <2>2. Upto(S, u) \in Good BY <1>4
  <2> HIDE DEF u
  <2>3. Upto(S, u) \in SUBSET S BY DEF Upto
  <2>4. Upto(S, u + 1) \in Good BY <1>2, <2>1, <2>2, <2>3, UptoNext
  <2> QED BY <2>1, <2>4
<1> HIDE DEF A
<1>5. CASE lo <= hi
  <2>1. hi - lo \in Nat /\ lo + (hi - lo) = hi BY <1>5
  <2>2. hi - lo \in A BY <1>3, <1>4, <2>1, SetInduction
  <2>3. Upto(S, hi) = S BY DEF Upto
  <2> QED BY <2>1, <2>2, <2>3 DEF A
<1>6. CASE ~(lo <= hi)
  <2>1. S = {} BY <1>1, <1>6
  <2> QED BY <2>1
<1> QED BY <1>5, <1>6

Segments(w) == w.closed \cup {w.seg}

(* What a walk over S has cut: segments of S that have no point in common, *)
(* of which the last is the latest, none longer than the cap.              *)
IsWalk(w, S) ==
    /\ w = [closed |-> w.closed, seg |-> w.seg, prev |-> w.prev, start |-> w.start]
    /\ w.closed \in SUBSET SUBSET S /\ w.seg \in SUBSET S
    /\ S # {} => w.seg # {}
    /\ \A t \in w.closed : \A p \in t, q \in w.seg : p.ts < q.ts
    /\ \A t, u \in w.closed : t # u => t \cap u = {}
    /\ \A t \in Segments(w) : \A p, q \in t : q.ts - p.ts <= MaxSegment
    /\ w.seg # {} =>
          /\ w.prev \in w.seg /\ w.start \in Int
          /\ \A p \in w.seg : w.start <= p.ts /\ p.ts <= w.prev.ts
          /\ \E first \in w.seg : first.ts = w.start

(* A point joins the last segment, or begins one of its own. *)
LEMMA AddedPoint ==
    ASSUME NEW w, NEW S, IsWalk(w, S), NEW c
    PROVE  \/ /\ w.seg # {} /\ ~ShouldFlightSplit(w.prev, c, w.start)
              /\ AddPoint(w, c) = [closed |-> w.closed, seg |-> w.seg \cup {c},
                                   prev |-> c, start |-> w.start]
           \/ AddPoint(w, c) = [closed |-> w.closed \cup {w.seg}, seg |-> {c},
                                prev |-> c, start |-> c.ts]
<1> DEFINE a == w.closed
           s == w.seg
           p == w.prev
           t == w.start
<1>1. w = [closed |-> a, seg |-> s, prev |-> p, start |-> t] BY DEF IsWalk
<1> HIDE DEF a, s, p, t
<1>2. CASE s # {} /\ ~ShouldFlightSplit(p, c, t)
  <2>1. AddPoint(w, c) = [closed |-> a, seg |-> s \cup {c}, prev |-> c, start |-> t]
      BY <1>1, <1>2 DEF AddPoint
  <2> QED BY <1>2, <2>1 DEF a, s, p, t
<1>3. CASE ~(s # {} /\ ~ShouldFlightSplit(p, c, t))
  <2>1. AddPoint(w, c) = [closed |-> a \cup {s}, seg |-> {c}, prev |-> c, start |-> c.ts]
      BY <1>1, <1>3 DEF AddPoint
  <2> QED BY <2>1 DEF a, s, p, t
<1> QED BY <1>2, <1>3

LEMMA WalkGrows ==
    ASSUME NEW T \in SUBSET Point, NEW w, IsWalk(w, T), NEW c \in Point, \A p \in T : p.ts < c.ts
    PROVE  IsWalk(AddPoint(w, c), T \cup {c})
<1> DEFINE n == AddPoint(w, c)
<1>1. /\ \A p \in T \cup {c} : p.ts \in Int
      /\ w.seg \in SUBSET T /\ w.closed \in SUBSET SUBSET T /\ MaxSegment \in Nat
    BY SplitterConstants DEF IsWalk, Point
<1>2. CASE /\ w.seg # {} /\ ~ShouldFlightSplit(w.prev, c, w.start)
           /\ n = [closed |-> w.closed, seg |-> w.seg \cup {c}, prev |-> c, start |-> w.start]
  <2>1. n = [closed |-> w.closed, seg |-> w.seg \cup {c}, prev |-> c, start |-> w.start]
      BY <1>2
  <2>2. n.closed = w.closed /\ n.seg = w.seg \cup {c} /\ n.prev = c /\ n.start = w.start
      BY <2>1
  <2>3. /\ w.prev \in w.seg /\ w.start \in Int
        /\ \A p \in w.seg : w.start <= p.ts /\ p.ts <= w.prev.ts
        /\ \E first \in w.seg : first.ts = w.start
      BY <1>2 DEF IsWalk
  <2>4. c.ts - w.start <= MaxSegment
    <3>1. w.prev \in Point BY <1>1, <2>3
    <3> QED BY <1>2, <2>3, <3>1, GrowingSegmentCapped
  <2> HIDE DEF n
  <2>5. \A p, q \in w.seg \cup {c} : q.ts - p.ts <= MaxSegment
    <3>1. \A p, q \in w.seg : q.ts - p.ts <= MaxSegment BY DEF IsWalk, Segments
    <3>2. \A p \in w.seg : c.ts - p.ts <= MaxSegment /\ p.ts - c.ts <= MaxSegment
        BY <1>1, <2>3, <2>4
    <3>3. c.ts - c.ts <= MaxSegment BY <1>1
    <3> QED BY <3>1, <3>2, <3>3
  <2>6. \A t \in Segments(n) : \A p, q \in t : q.ts - p.ts <= MaxSegment
      BY <2>2, <2>5 DEF IsWalk, Segments
  <2>7. \A t \in n.closed : \A p \in t, q \in n.seg : p.ts < q.ts
      BY <1>1, <2>2 DEF IsWalk
  <2>8. \A t, u \in n.closed : t # u => t \cap u = {} BY <2>2 DEF IsWalk
  <2>9. /\ n.prev \in n.seg /\ n.start \in Int
        /\ \A p \in n.seg : n.start <= p.ts /\ p.ts <= n.prev.ts
        /\ \E first \in n.seg : first.ts = n.start
    <3>1. \A p \in n.seg : n.start <= p.ts /\ p.ts <= n.prev.ts BY <1>1, <2>2, <2>3
    <3> QED BY <2>2, <2>3, <3>1
  <2>10. n.closed \in SUBSET SUBSET (T \cup {c}) /\ n.seg \in SUBSET (T \cup {c}) /\ n.seg # {}
      BY <1>1, <2>2
  <2>11. n = [closed |-> n.closed, seg |-> n.seg, prev |-> n.prev, start |-> n.start]
      BY <2>1, <2>2
  <2>12. IsWalk(n, T \cup {c}) BY <2>6, <2>7, <2>8, <2>9, <2>10, <2>11 DEF IsWalk
  <2> QED BY <2>12 DEF n
<1>3. CASE n = [closed |-> w.closed \cup {w.seg}, seg |-> {c}, prev |-> c, start |-> c.ts]
  <2>1. n.closed = w.closed \cup {w.seg} /\ n.seg = {c} /\ n.prev = c /\ n.start = c.ts
      BY <1>3
  <2>2. n = [closed |-> n.closed, seg |-> n.seg, prev |-> n.prev, start |-> n.start]
      BY <1>3, <2>1
  <2> HIDE DEF n
  <2>3. \A p, q \in {c} : q.ts - p.ts <= MaxSegment BY <1>1
  <2>4. \A t \in Segments(n) : \A p, q \in t : q.ts - p.ts <= MaxSegment
      BY <2>1, <2>3 DEF IsWalk, Segments
  <2>5. \A t \in n.closed : \A p \in t, q \in n.seg : p.ts < q.ts
    <3>1. \A t \in n.closed : t \subseteq T BY <1>1, <2>1
    <3> QED BY <2>1, <3>1
  <2>6. \A t, u \in n.closed : t # u => t \cap u = {}
    <3>1. \A t \in w.closed : t \cap w.seg = {}
      <4> SUFFICES ASSUME NEW t \in w.closed, NEW p \in t, p \in w.seg PROVE FALSE
          OBVIOUS
      <4>1. p.ts < p.ts /\ p.ts \in Int BY <1>1 DEF IsWalk
      <4> QED BY <4>1
    <3> QED BY <2>1, <3>1 DEF IsWalk
  <2>7. /\ n.prev \in n.seg /\ n.start \in Int
        /\ \A p \in n.seg : n.start <= p.ts /\ p.ts <= n.prev.ts
        /\ \E first \in n.seg : first.ts = n.start
      BY <1>1, <2>1
  <2>8. n.closed \in SUBSET SUBSET (T \cup {c}) /\ n.seg \in SUBSET (T \cup {c}) /\ n.seg # {}
      BY <1>1, <2>1
  <2>9. IsWalk(n, T \cup {c}) BY <2>2, <2>4, <2>5, <2>6, <2>7, <2>8 DEF IsWalk
  <2> QED BY <2>9 DEF n
<1> QED BY <1>2, <1>3, AddedPoint

(* The walk over S is one, *)
LEMMA WalkIsWalk ==
    ASSUME NEW S \in SUBSET Point, OneAtATime(S), NEW lo \in Int, NEW hi \in Int,
           \A p \in S : lo < p.ts /\ p.ts <= hi
    PROVE  IsWalk(Walked(S), S)
<1> DEFINE Good == {T \in SUBSET S : IsWalk(Walked(T), T)}
<1>1. {} \in Good
  <2>1. MaxSegment \in Nat BY SplitterConstants
  <2>2. IsWalk(NothingWalked, {}) BY DEF IsWalk, NothingWalked, Segments
  <2> QED BY <2>2, WalkedNone
<1>2. ASSUME NEW T \in SUBSET S, NEW c \in S, T \in Good, IsFiniteSet(T), \A p \in T : p.ts < c.ts
      PROVE  T \cup {c} \in Good
  <2>1. T \in SUBSET Point /\ c \in Point OBVIOUS
  <2>2. Walked(T \cup {c}) = AddPoint(Walked(T), c) BY <1>2, <2>1, WalkedNext
  <2>3. IsWalk(Walked(T), T) BY <1>2
  <2>4. IsWalk(AddPoint(Walked(T), c), T \cup {c}) BY <1>2, <2>1, <2>3, WalkGrows
  <2> QED BY <2>2, <2>4
<1> HIDE DEF Good
<1>3. S \in Good BY <1>1, <1>2, PointInduction
<1> QED BY <1>3 DEF Good

(* and its last segment, walked again on its own, is not cut. *)
Whole(w) == [closed |-> {{}}, seg |-> w.seg, prev |-> w.prev, start |-> w.start]

LEMMA LastSegmentWhole ==
    ASSUME NEW S \in SUBSET Point, OneAtATime(S), NEW lo \in Int, NEW hi \in Int,
           \A p \in S : lo < p.ts /\ p.ts <= hi
    PROVE  Walked(S).seg # {} => Walked(Walked(S).seg) = Whole(Walked(S))
<1> DEFINE Good == {T \in SUBSET S : Walked(T).seg # {} => Walked(Walked(T).seg) = Whole(Walked(T))}
<1>1. {} \in Good BY WalkedNone DEF NothingWalked
<1>2. ASSUME NEW T \in SUBSET S, NEW c \in S, T \in Good, IsFiniteSet(T), \A p \in T : p.ts < c.ts
      PROVE  T \cup {c} \in Good
  <2> DEFINE w == Walked(T)
             n == Walked(T \cup {c})
  <2>1. T \in SUBSET Point /\ c \in Point /\ OneAtATime(T) BY DEF OneAtATime
  <2>2. n = AddPoint(w, c) BY <1>2, <2>1, WalkedNext
  <2>3. IsWalk(w, T) BY <2>1, WalkIsWalk
  <2>4. w.seg # {} => Walked(w.seg) = Whole(w) BY <1>2
  <2>5. w.seg \in SUBSET T BY <2>3 DEF IsWalk
  <2>6. Walked(w.seg \cup {c}) = AddPoint(Walked(w.seg), c)
    <3> HIDE DEF w
    <3>1. IsFiniteSet(w.seg) BY <1>2, <2>5, FS_Subset
    <3>2. w.seg \in SUBSET Point /\ \A p \in w.seg : p.ts < c.ts BY <1>2, <2>1, <2>5
    <3> QED BY <2>1, <3>1, <3>2, WalkedNext
  <2>7. Walked({c}) = AddPoint(NothingWalked, c)
    <3>1. IsFiniteSet({}) /\ {} \in SUBSET Point /\ {} \cup {c} = {c} BY FS_EmptySet
    <3> QED BY <2>1, <3>1, WalkedNext, WalkedNone
  <2> HIDE DEF w, n
  <2>8. CASE /\ w.seg # {} /\ ~ShouldFlightSplit(w.prev, c, w.start)
             /\ n = [closed |-> w.closed, seg |-> w.seg \cup {c}, prev |-> c, start |-> w.start]
    <3>1. n = [closed |-> w.closed, seg |-> w.seg \cup {c}, prev |-> c, start |-> w.start]
        BY <2>8
    <3>2. AddPoint(Whole(w), c) = [closed |-> {{}}, seg |-> w.seg \cup {c}, prev |-> c, start |-> w.start]
        BY <2>8 DEF AddPoint, Whole
    <3>3. Walked(n.seg) = Whole(n) BY <2>4, <2>6, <2>8, <3>1, <3>2 DEF Whole
    <3> QED BY <3>3 DEF n
  <2>9. CASE n = [closed |-> w.closed \cup {w.seg}, seg |-> {c}, prev |-> c, start |-> c.ts]
    <3>1. AddPoint(NothingWalked, c) = [closed |-> {{}}, seg |-> {c}, prev |-> c, start |-> c.ts]
        BY DEF AddPoint, NothingWalked
    <3>2. Walked(n.seg) = Whole(n) BY <2>7, <2>9, <3>1 DEF Whole
    <3> QED BY <3>2 DEF n
  <2> QED BY <2>2, <2>3, <2>8, <2>9, AddedPoint
<1> HIDE DEF Good
<1>3. S \in Good BY <1>1, <1>2, PointInduction
<1> QED BY <1>3 DEF Good

(* A flight starts at a point of its segment. *)
LEMMA FlightStartsAt ==
    ASSUME NEW S \in SUBSET Point, NEW f \in FinalizeSegment(S)
    PROVE  /\ f.start \in Int /\ f.end \in Int
           /\ \E p \in S : p.ts = f.start
<1> DEFINE path == OnPath(Plausible({p \in S : p.air}))
<1>1. path \subseteq S
    BY DEF OnPath, Plausible
<1>2. PICK e \in path \X path : f = [start |-> e[1].ts, end |-> e[2].ts]
    BY DEF FinalizeSegment
<1>3. e[1] \in S /\ e[2] \in S
    BY <1>1, <1>2
<1> HIDE DEF path
<1> QED
    BY <1>2, <1>3 DEF Point

(* The flights of a split are those of its segments, *)
LEMMA FlightOfSegment ==
    ASSUME NEW S
    PROVE  \A f : f \in SplitFlights(S) <=>
                     \E t \in Segments(Walked(S)) : AtLeastTwo(t) /\ f \in FinalizeSegment(t)
BY DEF SplitFlights, Segments

LEMMA SegmentsApart ==
    ASSUME NEW S \in SUBSET Point, NEW w, IsWalk(w, S), NEW t \in Segments(w), NEW u \in Segments(w)
    PROVE  /\ t \subseteq S
           /\ \A p \in t, q \in u : p = q => t = u
<1>1. w.closed \in SUBSET SUBSET S /\ w.seg \in SUBSET S BY DEF IsWalk
<1>2. \A p \in S : p.ts \in Int BY DEF Point
<1>3. \A x \in w.closed : \A p \in x, q \in w.seg : p # q
  <2> SUFFICES ASSUME NEW x \in w.closed, NEW p \in x, p \in w.seg PROVE FALSE
      OBVIOUS
  <2>1. p.ts < p.ts BY DEF IsWalk
  <2> QED BY <1>1, <1>2, <2>1
<1>4. \A x, y \in w.closed : x # y => x \cap y = {} BY DEF IsWalk
<1> QED BY <1>1, <1>3, <1>4 DEF Segments

(* of which no two start together. *)
LEMMA SplitStarts ==
    ASSUME NEW S \in SUBSET Point, OneAtATime(S), NEW lo \in Int, NEW hi \in Int,
           \A p \in S : lo < p.ts /\ p.ts <= hi
    PROVE  /\ \A f \in SplitFlights(S) : f.start \in Int /\ f.end \in Int /\ \E p \in S : p.ts = f.start
           /\ \A f, g \in SplitFlights(S) : f.start = g.start => f = g
<1>1. IsWalk(Walked(S), S) BY WalkIsWalk
<1>2. ASSUME NEW f \in SplitFlights(S)
      PROVE  \E t \in Segments(Walked(S)) :
                 /\ t \in SUBSET S /\ f \in FinalizeSegment(t)
                 /\ f.start \in Int /\ f.end \in Int /\ \E p \in t : p.ts = f.start
  <2>1. PICK t \in Segments(Walked(S)) : f \in FinalizeSegment(t) BY FlightOfSegment
  <2>2. t \in SUBSET S BY <1>1, SegmentsApart
  <2> QED BY <2>1, <2>2, FlightStartsAt
<1>3. ASSUME NEW f \in SplitFlights(S), NEW g \in SplitFlights(S), f.start = g.start
      PROVE  f = g
  <2>1. PICK t \in Segments(Walked(S)) :
            t \in SUBSET S /\ f \in FinalizeSegment(t) /\ \E p \in t : p.ts = f.start
      BY <1>2
  <2>2. PICK u \in Segments(Walked(S)) :
            u \in SUBSET S /\ g \in FinalizeSegment(u) /\ \E p \in u : p.ts = g.start
      BY <1>2
  <2>3. PICK p \in t, q \in u : p = q BY <1>3, <2>1, <2>2 DEF OneAtATime
  <2>4. t = u BY <1>1, <2>3, SegmentsApart
  <2> QED BY <2>1, <2>2, <2>4, OneFlightPerSegment
<1> QED BY <1>2, <1>3

(* What is carried is the last segment, of which no point is older than    *)
(* two days.                                                               *)
LEMMA CarryBounds ==
    ASSUME NEW S \in SUBSET Point, OneAtATime(S), NEW lo \in Int, NEW M \in Int,
           \A p \in S : lo < p.ts /\ p.ts <= M
    PROVE  /\ InProgressPoints(S, M) \subseteq S
           /\ \A p \in InProgressPoints(S, M) : M - 2 * DayLen < p.ts
           /\ InProgressPoints(S, M) \in {{}, Walked(S).seg}
<1> DEFINE w == Walked(S)
<1>1. IsWalk(w, S) BY WalkIsWalk
<1>2. InProgressPoints(S, M) =
          IF AtLeastTwo(w.seg) /\ InProgress(w.prev, M) THEN w.seg ELSE {}
    BY DEF InProgressPoints
<1> HIDE DEF w
<1>3. w.seg \in SUBSET S BY <1>1 DEF IsWalk
<1>4. ASSUME NEW p \in w.seg, InProgress(w.prev, M) PROVE M - 2 * DayLen < p.ts
  <2>1. w.prev \in w.seg /\ w.prev.ts - p.ts <= MaxSegment BY <1>1 DEF IsWalk, Segments
  <2>2. p.ts \in Int /\ w.prev.ts \in Int BY <1>3, <2>1 DEF Point
  <2>3. w.prev.ts >= M - WindowAir \/ w.prev.ts >= M - GroundGap
      BY <1>4 DEF InProgress, InProgressWindow
  <2>4. /\ DayLen \in Int /\ MaxSegment \in Int /\ WindowAir \in Int /\ GroundGap \in Int
        /\ MaxSegment <= DayLen /\ WindowAir < DayLen /\ GroundGap < DayLen
      BY SplitterConstants
  <2> QED BY <2>1, <2>2, <2>3, <2>4
<1> QED BY <1>2, <1>3, <1>4 DEF w

(* A segment that is walked again with later points stays together. *)
LEMMA CarryStaysWhole ==
    ASSUME NEW S \in SUBSET Point, OneAtATime(S), NEW lo \in Int, NEW M \in Int,
           \A p \in S : lo < p.ts /\ p.ts <= M,
           NEW D \in SUBSET Point, OneAtATime(D), NEW hi \in Int,
           \A p \in D : M < p.ts /\ p.ts <= hi,
           NEW t \in Segments(Walked(Walked(S).seg \cup D)), t \cap Walked(S).seg # {}
    PROVE  Walked(S).seg \subseteq t
<1> DEFINE C == Walked(S).seg
<1>0. C = Walked(S).seg /\ t \in Segments(Walked(C \cup D)) /\ t \cap C # {} OBVIOUS
<1> HIDE DEF C
<1> DEFINE Good == {T \in SUBSET D : \A u \in Segments(Walked(C \cup T)) : u \cap C # {} => C \subseteq u}
<1>1. C \in SUBSET S
  <2>1. IsWalk(Walked(S), S) BY WalkIsWalk
  <2> QED BY <2>1 DEF IsWalk, C
<1>2. {} \in Good
  <2>1. Walked(C) = Whole(Walked(S)) /\ C = Walked(S).seg BY <1>0, LastSegmentWhole
  <2>2. Segments(Walked(C)) = {{}, C} BY <2>1 DEF Segments, Whole
  <2>3. C \cup {} = C OBVIOUS
  <2> QED BY <2>2, <2>3
<1>3. ASSUME NEW T \in SUBSET D, NEW c \in D, T \in Good, IsFiniteSet(T), \A p \in T : p.ts < c.ts
      PROVE  T \cup {c} \in Good
  <2> DEFINE B == C \cup T
             w == Walked(B)
             n == Walked(B \cup {c})
  <2>1. B \in SUBSET Point /\ IsFiniteSet(B) /\ c \in Point
    <3>1. IsFiniteSet(S) BY FiniteInInterval
    <3>2. IsFiniteSet(C) BY <1>1, <3>1, FS_Subset
    <3> QED BY <1>1, <1>3, <3>2, FS_Union
  <2>2. \A p \in B : p.ts < c.ts
    <3>1. ASSUME NEW p \in C PROVE p.ts < c.ts
      <4>1. p.ts <= M /\ M < c.ts /\ p.ts \in Int /\ c.ts \in Int BY <1>1 DEF Point
      <4> QED BY <4>1
    <3> QED BY <1>3, <3>1
  <2>3. OneAtATime(B) /\ \A p \in B : lo < p.ts /\ p.ts <= (IF M <= hi THEN hi ELSE M)
    <3>1. \A p \in S : p.ts \in Int /\ p.ts <= M /\ lo < p.ts BY DEF Point
    <3>2. \A p \in D : p.ts \in Int /\ M < p.ts /\ p.ts <= hi BY DEF Point
    <3>3. OneAtATime(B) BY <1>1, <3>1, <3>2 DEF OneAtATime
    <3>4. CASE S = {} BY <1>0, <1>1, <3>4
    <3>5. CASE S # {}
      <4>1. lo < M BY <3>1, <3>5
      <4>2. \A p \in T : lo < p.ts /\ p.ts <= (IF M <= hi THEN hi ELSE M) BY <3>2, <4>1
      <4>3. \A p \in C : lo < p.ts /\ p.ts <= (IF M <= hi THEN hi ELSE M) BY <1>1, <3>1
      <4> QED BY <3>3, <4>2, <4>3
    <3> QED BY <3>4, <3>5
  <2>4. n = AddPoint(w, c)
    <3> HIDE DEF B
    <3> QED BY <2>1, <2>2, WalkedNext
  <2>5. IsWalk(w, B)
    <3> HIDE DEF B
    <3>1. (IF M <= hi THEN hi ELSE M) \in Int OBVIOUS
    <3> QED BY <2>1, <2>3, <3>1, WalkIsWalk
  <2>6. \A u \in Segments(w) : u \cap C # {} => C \subseteq u BY <1>3
  <2>7. c \notin C
    <3>1. M < c.ts /\ c.ts \in Int /\ \A p \in C : p.ts <= M BY <1>1 DEF Point
    <3> QED BY <3>1
  <2>8. C \cup (T \cup {c}) = B \cup {c} OBVIOUS
  <2> HIDE DEF w, n, B
  <2>9. CASE n = [closed |-> w.closed, seg |-> w.seg \cup {c}, prev |-> c, start |-> w.start]
    <3>1. Segments(n) = w.closed \cup {w.seg \cup {c}} BY <2>9 DEF Segments
    <3>2. \A u \in Segments(n) : u \cap C # {} => C \subseteq u
        BY <2>6, <2>7, <3>1 DEF Segments
    <3> QED BY <1>3, <2>8, <3>2 DEF n
  <2>10. CASE n = [closed |-> w.closed \cup {w.seg}, seg |-> {c}, prev |-> c, start |-> c.ts]
    <3>1. Segments(n) = Segments(w) \cup {{c}} BY <2>10 DEF Segments
    <3>2. \A u \in Segments(n) : u \cap C # {} => C \subseteq u
        BY <2>6, <2>7, <3>1
    <3> QED BY <1>3, <2>8, <3>2 DEF n
  <2> QED BY <2>4, <2>5, <2>9, <2>10, AddedPoint
<1> HIDE DEF Good
<1>4. D \in Good BY <1>2, <1>3, PointInduction
<1> QED BY <1>0, <1>4 DEF Good

(* Of the flights of the next day, one at most starts before that day: the *)
(* carried one.  If it starts a day before, it has ended, and the day      *)
(* before has the same.                                                    *)
LEMMA CarriedOnce ==
    ASSUME NEW S \in SUBSET Point, OneAtATime(S), NEW lo \in Int, NEW M \in Int,
           \A p \in S : lo < p.ts /\ p.ts <= M,
           NEW D \in SUBSET Point, OneAtATime(D), NEW hi \in Int,
           \A p \in D : M < p.ts /\ p.ts <= hi,
           NEW f \in SplitFlights(InProgressPoints(S, M) \cup D), f.start <= M
    PROVE  /\ \A g \in SplitFlights(InProgressPoints(S, M) \cup D) : g.start <= M => g = f
           /\ f.start <= M - DayLen => f \in SplitFlights(S)
<1> DEFINE C == InProgressPoints(S, M)
           w == Walked(C \cup D)
<1>1. C \subseteq S /\ C \in {{}, Walked(S).seg} BY CarryBounds
<1>2. /\ \A p \in S : p.ts \in Int /\ p.ts <= M /\ lo < p.ts
      /\ \A p \in D : p.ts \in Int /\ M < p.ts /\ p.ts <= hi
    BY DEF Point
<1> HIDE DEF C
<1>3. IsWalk(w, C \cup D)
  <2> DEFINE l == IF lo <= M THEN lo ELSE M
             h == IF M <= hi THEN hi ELSE M
  <2>1. l \in Int /\ h \in Int /\ l <= lo /\ l <= M /\ M <= h /\ hi <= h OBVIOUS
  <2> HIDE DEF l, h, w
  <2>2. \A p \in C \cup D : l < p.ts /\ p.ts <= h BY <1>1, <1>2, <2>1
  <2>3. C \cup D \in SUBSET Point /\ OneAtATime(C \cup D) BY <1>1, <1>2 DEF OneAtATime
  <2> DEFINE U == C \cup D
  <2>4. IsWalk(Walked(U), U)
    <3> HIDE DEF U
    <3> QED BY <2>1, <2>2, <2>3, WalkIsWalk DEF U
  <2> QED BY <2>4 DEF w
<1>4. ASSUME NEW g \in SplitFlights(C \cup D), g.start <= M
      PROVE  \E t \in Segments(w) : /\ AtLeastTwo(t) /\ g \in FinalizeSegment(t) /\ t \in SUBSET (C \cup D)
                                    /\ g.start \in Int
                                    /\ C # {} /\ C \subseteq t /\ \E p \in t : p.ts = g.start
  <2>1. PICK t \in Segments(w) : AtLeastTwo(t) /\ g \in FinalizeSegment(t) BY FlightOfSegment
  <2>2. C \cup D \in SUBSET Point BY <1>1
  <2>3. t \in SUBSET (C \cup D)
    <3> DEFINE U == C \cup D
    <3> HIDE DEF U, w
    <3> QED BY <1>3, <2>2, SegmentsApart DEF U
  <2>4. PICK p \in t : p.ts = g.start /\ g.start \in Int BY <2>1, <2>2, <2>3, FlightStartsAt
  <2>5. p \in C BY <1>2, <1>4, <2>3, <2>4
  <2>6. C = Walked(S).seg /\ C # {} /\ t \cap C # {} BY <1>1, <2>5
  <2>7. C \subseteq t
    <3>1. t \in Segments(Walked(Walked(S).seg \cup D)) /\ t \cap Walked(S).seg # {} BY <2>1, <2>6
    <3>2. /\ S \in SUBSET Point /\ OneAtATime(S) /\ lo \in Int /\ M \in Int
          /\ \A q \in S : lo < q.ts /\ q.ts <= M
          /\ D \in SUBSET Point /\ OneAtATime(D) /\ hi \in Int
          /\ \A q \in D : M < q.ts /\ q.ts <= hi
        OBVIOUS
    <3> QED BY ONLY <2>6, <3>1, <3>2, CarryStaysWhole, SplitterConstants, CarryOverConstants
  <2> QED BY <2>1, <2>3, <2>4, <2>6, <2>7
<1>5. f \in SplitFlights(C \cup D) BY DEF C
<1>6. PICK t \in Segments(w) : /\ AtLeastTwo(t) /\ f \in FinalizeSegment(t) /\ t \in SUBSET (C \cup D)
                               /\ f.start \in Int
                               /\ C # {} /\ C \subseteq t /\ \E p \in t : p.ts = f.start
    BY <1>4, <1>5
<1>7. ASSUME NEW g \in SplitFlights(C \cup D), g.start <= M PROVE g = f
  <2>1. PICK u \in Segments(w) : g \in FinalizeSegment(u) /\ C \subseteq u
      BY <1>4, <1>7
  <2>2. C \cup D \in SUBSET Point BY <1>1
  <2>3. t = u
    <3> DEFINE U == C \cup D
    <3>1. PICK p \in t, q \in u : p = q BY <1>6, <2>1
    <3> HIDE DEF U, w
    <3> QED BY <1>3, <2>2, <3>1, SegmentsApart DEF U
  <2> QED BY <1>6, <2>1, <2>2, <2>3, OneFlightPerSegment
<1>8. ASSUME f.start <= M - DayLen PROVE f \in SplitFlights(S)
  <2>1. PICK p \in t : p.ts = f.start BY <1>6
  <2>2. \A q \in t : q.ts - p.ts <= MaxSegment BY <1>3 DEF IsWalk
  <2>3. DayLen \in Int /\ MaxSegment \in Int /\ MaxSegment <= DayLen BY SplitterConstants
  <2>4. \A q \in t : q \notin D
    <3> SUFFICES ASSUME NEW q \in t, q \in D PROVE FALSE
        OBVIOUS
    <3>1. q.ts - p.ts <= MaxSegment /\ M < q.ts /\ q.ts \in Int BY <1>2, <2>2
    <3> QED BY <1>6, <1>8, <2>1, <2>3, <3>1
  <2>5. t = Walked(S).seg BY <1>1, <1>6, <2>4
  <2> QED BY <1>6, <2>5, FlightOfSegment DEF Segments
<1> QED BY <1>7, <1>8 DEF C

-----------------------------------------------------------------------------
(* The parts of the invariant about bounds. *)

Bounded ==
    /\ TypeOK
    /\ StagedRecent /\ PointsRecent /\ SegmentCurrent /\ UpsertsBounded
    /\ SettleWindow /\ FlightsCapped /\ RunFlightsDisjoint

(* They hold at first. *)
LEMMA InitBounded == Init => Bounded
<1> SUFFICES ASSUME Init PROVE Bounded
    OBVIOUS
<1>1. TypeOK
    BY DEF Init, TypeOK, NoPoint, Point
<1>2. StagedRecent /\ PointsRecent /\ SegmentCurrent /\ UpsertsBounded
    BY DEF Init, StagedRecent, PointsRecent, SegmentCurrent, UpsertsBounded
<1>3. SettleWindow /\ FlightsCapped /\ RunFlightsDisjoint
    BY DEF Init, SettleWindow, FlightsCapped, RunFlightsDisjoint
<1> QED
    BY <1>1, <1>2, <1>3 DEF Bounded

-----------------------------------------------------------------------------
(* Every step keeps them: one lemma per action. *)

(* What one day's points and the carry of the day before amount to. *)
LEMMA MergedPointsRecent ==
    ASSUME StagedRecent, TypeOK, NEW d \in Days, NEW trace \in DayTraces,
           NEW p \in StagedBefore(d) \cup PointsOf(d, trace)
    PROVE  p \in Point /\ Midnight(d - 3) < p.ts /\ p.ts <= Midnight(d)
<1> d \in Int
    BY CarryOverConstants
<1>1. /\ Midnight(d) \in Int
      /\ Midnight(d - 1) = Midnight(d) - DayLen
      /\ Midnight(d - 3) = Midnight(d) - 3 * DayLen
      /\ Midnight(d - 3) = Midnight((d - 1) - 2)
    BY MidnightSteps
<1>2. DayLen \in Nat
    BY SplitterConstants
<1>3. CASE p \in StagedBefore(d)
  <2>1. d - 1 \in Days /\ p \in staged[d - 1]
      BY <1>3 DEF StagedBefore
  <2>2. p \in Point
      BY <2>1 DEF TypeOK
  <2>3. Midnight((d - 1) - 2) < p.ts /\ p.ts <= Midnight(d - 1)
      BY <2>1 DEF StagedRecent
  <2> QED
      BY <1>1, <1>2, <2>2, <2>3 DEF Point
<1>4. CASE p \in PointsOf(d, trace)
  <2>1. PICK q \in trace : p = [q EXCEPT !.ts = Midnight(d - 1) + q.ts]
      BY <1>4 DEF PointsOf
  <2>2. q \in Point /\ 0 < q.ts /\ q.ts <= DayLen
      BY <2>1, CarryOverConstants
  <2>3. Midnight(d - 1) \in Int
      BY <1>1, <1>2
  <2>4. q.ts \in Int
      BY <2>2 DEF Point
  <2>5. p \in Point /\ p.ts = Midnight(d - 1) + q.ts
      BY <2>1, <2>2, <2>3, <2>4 DEF Point
  <2> QED
      BY <1>1, <1>2, <2>2, <2>4, <2>5
<1> QED
    BY <1>3, <1>4

LEMMA StartBatchStep ==
    ASSUME IInv, NEW d \in Days, NEW trace \in DayTraces, StartBatch(d, trace)
    PROVE  Bounded'
<1> USE DEF IInv, Bounded
<1>1. \A p \in points' : p \in Point /\ Midnight(d - 3) < p.ts /\ p.ts <= Midnight(d)
    BY MergedPointsRecent DEF StartBatch
<1>2. todo' = points' /\ day' = d /\ phase' = "walk" /\ seg' = {} /\ upserts' = {}
    BY DEF StartBatch
<1>3. prev' = NoPoint /\ flightStart' = 0 /\ runs' = runs + 1 /\ staged' = staged /\ rows' = rows
    BY DEF StartBatch
<1>4. TypeOK'
    BY <1>1, <1>2, <1>3 DEF TypeOK, NoPoint, Point
<1>5. PointsRecent'
    BY <1>1, <1>2 DEF PointsRecent
<1>6. StagedRecent'
    BY <1>3 DEF StagedRecent
<1>7. SegmentCurrent' /\ UpsertsBounded' /\ RunFlightsDisjoint'
    BY <1>2 DEF SegmentCurrent, UpsertsBounded, RunFlightsDisjoint
<1>8. SettleWindow' /\ FlightsCapped'
    BY <1>3 DEF SettleWindow, FlightsCapped
<1> QED
    BY <1>4, <1>5, <1>6, <1>7, <1>8

LEMMA StartUnreadableStep ==
    ASSUME IInv, NEW d \in Days, StartUnreadable(d)
    PROVE  Bounded'
<1> USE DEF IInv, Bounded
<1>1. /\ points' = {} /\ todo' = {} /\ seg' = {} /\ upserts' = {}
      /\ day' = d /\ phase' = "walk"
    BY DEF StartUnreadable
<1>2. prev' = NoPoint /\ flightStart' = 0 /\ runs' = runs + 1 /\ staged' = staged /\ rows' = rows
    BY DEF StartUnreadable
<1>3. TypeOK'
    BY <1>1, <1>2 DEF TypeOK, NoPoint, Point
<1>4. PointsRecent' /\ SegmentCurrent' /\ UpsertsBounded' /\ RunFlightsDisjoint'
    BY <1>1 DEF PointsRecent, SegmentCurrent, UpsertsBounded, RunFlightsDisjoint
<1>5. StagedRecent' /\ SettleWindow' /\ FlightsCapped'
    BY <1>2 DEF StagedRecent, SettleWindow, FlightsCapped
<1> QED
    BY <1>3, <1>4, <1>5

(* The flight of the current segment fits behind the ones written so far. *)
LEMMA CurrentSegmentFlight ==
    ASSUME IInv, seg # {}, NEW f \in FinalizeSegment(seg)
    PROVE  /\ f \in Flight
           /\ flightStart <= f.start /\ f.start <= f.end /\ f.end <= prev.ts
           /\ Midnight(day - 3) < f.start
           /\ f.end - f.start <= MaxSegment
           /\ \A g \in upserts : g.end < f.start
<1> USE DEF IInv, Bounded
<1>1. seg \in SUBSET Point /\ flightStart \in Int /\ prev \in Point /\ upserts \subseteq Flight
    BY DEF TypeOK
<1>2. prev.ts \in Int
    BY <1>1 DEF Point
<1>3. /\ \A p \in seg : flightStart <= p.ts /\ p.ts <= prev.ts
      /\ Midnight(day - 3) < flightStart
      /\ prev.ts - flightStart <= MaxSegment
      /\ \A g \in upserts : g.end < flightStart
    BY DEF SegmentCurrent
<1>4. f \in Flight /\ flightStart <= f.start /\ f.start <= f.end /\ f.end <= prev.ts
    BY <1>1, <1>2, <1>3, FlightWithinSegment
<1>5. day \in Int /\ MaxSegment \in Int
    BY CarryOverConstants, SplitterConstants DEF TypeOK
<1>6. Midnight(day - 3) \in Int
    BY <1>5, MidnightSteps
<1>7. f.start \in Int /\ f.end \in Int
    BY <1>4 DEF Flight
<1>8. Midnight(day - 3) < f.start /\ f.end - f.start <= MaxSegment
    BY <1>1, <1>2, <1>3, <1>4, <1>5, <1>6, <1>7
<1>9. \A g \in upserts : g.end < f.start
    BY <1>1, <1>3, <1>4, <1>7 DEF Flight
<1> QED
    BY <1>4, <1>8, <1>9

(* So finalizing it keeps what is known of the flights written. *)
LEMMA FinalizeKeepsUpserts ==
    ASSUME IInv, seg # {}, NEW W, W \subseteq upserts \cup FinalizeSegment(seg)
    PROVE  /\ W \subseteq Flight
           /\ \A f \in W : /\ Midnight(day - 3) < f.start
                           /\ f.start <= f.end /\ f.end - f.start <= MaxSegment
                           /\ f.end <= prev.ts
           /\ \A f, g \in W : f # g => f.end < g.start \/ g.end < f.start
<1> USE DEF IInv, Bounded
<1>1. seg \in SUBSET Point /\ flightStart \in Int /\ prev \in Point /\ upserts \subseteq Flight
    BY DEF TypeOK
<1>2. /\ prev \in seg
      /\ flightStart <= prev.ts
      /\ \A g \in upserts : g.end < flightStart
    BY DEF SegmentCurrent
<1>3. \A g \in upserts : g.end <= prev.ts
    BY <1>1, <1>2 DEF Flight, Point
<1>4. W \subseteq Flight
    BY <1>1, CurrentSegmentFlight
<1>5. ASSUME NEW f \in W
      PROVE  /\ Midnight(day - 3) < f.start
             /\ f.start <= f.end /\ f.end - f.start <= MaxSegment
             /\ f.end <= prev.ts
    BY <1>3, CurrentSegmentFlight DEF UpsertsBounded
<1>6. ASSUME NEW f \in W, NEW g \in W, f # g
      PROVE  f.end < g.start \/ g.end < f.start
  <2>1. CASE f \in upserts /\ g \in upserts
      BY <1>6, <2>1 DEF RunFlightsDisjoint
  <2>2. CASE f \in upserts /\ g \in FinalizeSegment(seg)
      BY <2>2, CurrentSegmentFlight
  <2>3. CASE f \in FinalizeSegment(seg) /\ g \in upserts
      BY <2>3, CurrentSegmentFlight
  <2>4. CASE f \in FinalizeSegment(seg) /\ g \in FinalizeSegment(seg)
      BY <1>1, <1>6, <2>4, OneFlightPerSegment
  <2> QED
      BY <2>1, <2>2, <2>3, <2>4
<1> QED
    BY <1>4, <1>5, <1>6

LEMMA WalkPointStep ==
    ASSUME IInv, NEW curr \in todo, WalkPoint(curr)
    PROVE  Bounded'
<1> USE DEF IInv, Bounded
<1>1. /\ phase = "walk" /\ phase' = "walk" /\ day' = day /\ prev' = curr
      /\ runs' = runs /\ points' = points /\ staged' = staged /\ rows' = rows
    BY DEF WalkPoint
<1>2. todo' = {q \in todo : q.ts > curr.ts}
    BY DEF WalkPoint
<1>3. /\ curr \in Point /\ curr.ts \in Int /\ todo \subseteq Point
      /\ \A q \in todo : q.ts \in Int
      /\ seg \in SUBSET Point /\ flightStart \in Int /\ prev \in Point /\ prev.ts \in Int
      /\ upserts \subseteq Flight
    BY DEF TypeOK, Point
<1>4. Midnight(day - 3) < curr.ts /\ curr.ts <= Midnight(day)
    BY DEF PointsRecent
<1>5. PointsRecent'
  <2>1. seg' \subseteq seg \cup {curr} BY DEF WalkPoint
  <2> QED
      BY <1>1, <1>2, <2>1 DEF PointsRecent
<1>6. StagedRecent' /\ SettleWindow' /\ FlightsCapped'
    BY <1>1 DEF StagedRecent, SettleWindow, FlightsCapped
<1>7. \A q \in todo' : curr.ts < q.ts
    BY <1>2, <1>3
<1>8. 0 <= MaxSegment /\ MaxSegment \in Int
    BY SplitterConstants
<1>9. CASE seg = {}
  <2>1. seg' = {curr} /\ flightStart' = curr.ts /\ upserts' = upserts /\ upserts = {}
      BY <1>1, <1>9 DEF WalkPoint, SegmentCurrent
  <2>2. TypeOK'
      BY <1>1, <1>2, <1>3, <2>1 DEF TypeOK
  <2>3. SegmentCurrent'
      BY <1>1, <1>3, <1>4, <1>7, <1>8, <2>1 DEF SegmentCurrent
  <2>4. UpsertsBounded' /\ RunFlightsDisjoint'
      BY <1>1, <2>1 DEF UpsertsBounded, RunFlightsDisjoint
  <2> QED
      BY <1>5, <1>6, <2>2, <2>3, <2>4
<1>10. CASE seg # {} /\ ~ShouldFlightSplit(prev, curr, flightStart)
  <2>1. seg' = seg \cup {curr} /\ flightStart' = flightStart /\ upserts' = upserts
      BY <1>10 DEF WalkPoint
  <2>2. curr.ts - flightStart <= MaxSegment
      BY <1>3, <1>10, GrowingSegmentCapped
  <2>3. /\ prev.ts < curr.ts /\ Midnight(day - 3) < flightStart
        /\ \A p \in seg : flightStart <= p.ts /\ p.ts <= prev.ts
        /\ flightStart <= prev.ts
        /\ \A f \in upserts : f.end < flightStart
      BY <1>10 DEF SegmentCurrent
  <2>4. \A p \in seg' : flightStart <= p.ts /\ p.ts <= curr.ts
      BY <1>3, <2>1, <2>3 DEF Point
  <2>5. TypeOK'
      BY <1>1, <1>2, <1>3, <2>1 DEF TypeOK
  <2>6. SegmentCurrent'
    <3>1. \E first \in seg' : first.ts = flightStart'
        BY <1>10, <2>1 DEF SegmentCurrent
    <3> QED
        BY <1>1, <1>4, <1>7, <2>1, <2>2, <2>3, <2>4, <3>1 DEF SegmentCurrent
  <2>7. UpsertsBounded' /\ RunFlightsDisjoint'
      BY <1>1, <2>1 DEF UpsertsBounded, RunFlightsDisjoint
  <2> QED
      BY <1>5, <1>6, <2>5, <2>6, <2>7
<1>11. CASE seg # {} /\ ShouldFlightSplit(prev, curr, flightStart)
  <2>1. /\ seg' = {curr} /\ flightStart' = curr.ts
        /\ upserts' \subseteq upserts \cup FinalizeSegment(seg)
      BY <1>11 DEF WalkPoint
  <2>2. prev.ts < curr.ts
      BY <1>11 DEF SegmentCurrent
  <2>3. /\ upserts' \subseteq Flight
        /\ \A f \in upserts' : /\ Midnight(day - 3) < f.start
                               /\ f.start <= f.end /\ f.end - f.start <= MaxSegment
                               /\ f.end <= prev.ts
        /\ \A f, g \in upserts' : f # g => f.end < g.start \/ g.end < f.start
      BY <1>11, <2>1, FinalizeKeepsUpserts
  <2>4. \A f \in upserts' : f.end < curr.ts
      BY <1>3, <2>2, <2>3 DEF Flight
  <2>5. TypeOK'
      BY <1>1, <1>2, <1>3, <2>1, <2>3 DEF TypeOK
  <2>6. SegmentCurrent'
      BY <1>1, <1>3, <1>4, <1>7, <1>8, <2>1, <2>4 DEF SegmentCurrent
  <2>7. UpsertsBounded' /\ RunFlightsDisjoint'
      BY <1>1, <2>3 DEF UpsertsBounded, RunFlightsDisjoint
  <2> QED
      BY <1>5, <1>6, <2>5, <2>6, <2>7
<1> QED
    BY <1>9, <1>10, <1>11

(* What EndBatch carries is recent: the last segment ends today and is not *)
(* longer than MaxSegment, which is not longer than a day.                 *)
LEMMA CarriedRecent ==
    ASSUME IInv, NEW p \in Carried
    PROVE  p \in Point /\ Midnight(day - 2) < p.ts /\ p.ts <= Midnight(day)
<1> USE DEF IInv, Bounded
<1>1. AtLeastTwo(seg) /\ InProgress(prev, Midnight(day)) /\ p \in seg
    BY DEF Carried
<1>2. /\ p \in Point /\ prev \in Point /\ day \in Int /\ flightStart \in Int
      /\ p.ts \in Int /\ prev.ts \in Int
    BY <1>1, CarryOverConstants DEF TypeOK, Point
<1>3. /\ flightStart <= p.ts /\ p.ts <= prev.ts
      /\ prev.ts <= Midnight(day) /\ prev.ts - flightStart <= MaxSegment
    BY <1>1 DEF SegmentCurrent
<1>4. Midnight(day - 1) < prev.ts
    BY <1>1, <1>2, InProgressEndsToday
<1>5. /\ Midnight(day) \in Int
      /\ Midnight(day - 1) = Midnight(day) - DayLen
      /\ Midnight(day - 2) = Midnight(day) - 2 * DayLen
    BY <1>2, MidnightSteps
<1>6. DayLen \in Int /\ MaxSegment \in Int /\ MaxSegment <= DayLen
    BY SplitterConstants
<1> QED
    BY <1>2, <1>3, <1>4, <1>5, <1>6

LEMMA EndBatchStep ==
    ASSUME IInv, EndBatch
    PROVE  Bounded'
<1> USE DEF IInv, Bounded
<1>1. /\ todo = {} /\ todo' = {} /\ phase' = "idle" /\ day' = day
      /\ seg' = {} /\ prev' = NoPoint /\ flightStart' = 0
      /\ runs' = runs /\ points' = points
      /\ upserts' = Written /\ rows' = RowsAfter(Written)
    BY DEF EndBatch
<1>2. /\ Written \subseteq Flight
      /\ \A f \in Written : /\ Midnight(day - 3) < f.start
                            /\ f.start <= f.end /\ f.end - f.start <= MaxSegment
      /\ \A f, g \in Written : f # g => f.end < g.start \/ g.end < f.start
  <2>1. CASE seg = {}
    <3>1. Written = upserts
        BY <2>1 DEF Written, AtLeastTwo
    <3> QED
        BY <3>1 DEF TypeOK, UpsertsBounded, RunFlightsDisjoint
  <2>2. CASE seg # {}
    <3>1. Written \subseteq upserts \cup FinalizeSegment(seg)
        BY DEF Written
    <3> QED
        BY <2>2, <3>1, FinalizeKeepsUpserts
  <2> QED
      BY <2>1, <2>2
<1>3. \A r \in rows' :
          \/ r \in rows
          \/ /\ r \in Row /\ r.batch = day /\ r.start > Midnight(day - 3)
             /\ r.start <= r.end /\ r.end - r.start <= MaxSegment
  <2>1. day \in Int /\ day \in Days
      BY CarryOverConstants DEF TypeOK
  <2>2. Midnight(day - 3) \in Int
      BY <2>1, MidnightSteps
  <2>3. ASSUME NEW f \in Written
        PROVE  /\ [start |-> f.start, end |-> f.end, batch |-> day] \in Row
               /\ f.start > Midnight(day - 3)
      BY <1>2, <2>1, <2>2 DEF Row, Flight
  <2> QED
      BY <1>1, <1>2, <2>3 DEF RowsAfter
<1>4. staged' = [staged EXCEPT ![day] = Carried] \/ staged' = staged
    BY DEF EndBatch
<1>5. StagedRecent' /\ staged' \in [Days -> SUBSET Point]
  <2>1. staged \in [Days -> SUBSET Point] /\ day \in Days
      BY DEF TypeOK
  <2> QED
      BY <1>4, <2>1, CarriedRecent DEF StagedRecent
<1>6. TypeOK'
    BY <1>1, <1>2, <1>3, <1>5 DEF TypeOK, NoPoint, Point
<1>7. SettleWindow' /\ FlightsCapped'
    BY <1>3 DEF SettleWindow, FlightsCapped
<1>8. PointsRecent' /\ SegmentCurrent' /\ UpsertsBounded' /\ RunFlightsDisjoint'
    BY <1>1, <1>2 DEF PointsRecent, SegmentCurrent, UpsertsBounded, RunFlightsDisjoint
<1> QED
    BY <1>5, <1>6, <1>7, <1>8

LEMMA StutterStep ==
    ASSUME IInv, UNCHANGED vars
    PROVE  Bounded'
<1>1. /\ runs' = runs /\ day' = day /\ phase' = phase /\ points' = points /\ todo' = todo
      /\ seg' = seg /\ prev' = prev /\ flightStart' = flightStart
      /\ upserts' = upserts /\ staged' = staged /\ rows' = rows
    BY DEF vars
<1>2. TypeOK' /\ StagedRecent' /\ PointsRecent'
    BY <1>1 DEF IInv, TypeOK, StagedRecent, PointsRecent
<1>3. SegmentCurrent' /\ UpsertsBounded'
    BY <1>1 DEF IInv, SegmentCurrent, UpsertsBounded
<1>4. SettleWindow' /\ FlightsCapped' /\ RunFlightsDisjoint'
    BY <1>1 DEF IInv, SettleWindow, FlightsCapped, RunFlightsDisjoint
<1> QED
    BY <1>2, <1>3, <1>4 DEF Bounded

-----------------------------------------------------------------------------
(* What is carried stays together. *)

Together == CarryTogether /\ CarriedFlightExtended

(* No point gives no flight. *)
LEMMA NoFlightOfNothing == FinalizeSegment({}) = {}
<1> DEFINE path == OnPath(Plausible({p \in {} : p.air}))
<1>1. path = {} BY DEF OnPath, Plausible
<1> QED BY <1>1 DEF FinalizeSegment

(* It holds at first, *)
LEMMA InitTogether == Init => Together
<1> SUFFICES ASSUME Init PROVE Together
    OBVIOUS
<1>1. points = {} /\ seg = {} /\ phase = "idle" /\ \A d \in Days : staged[d] = {}
    BY DEF Init
<1>2. Taken = {} BY <1>1 DEF Taken
<1>3. Unsplit({}) BY DEF Unsplit, OneAtATime
<1>4. CarryTogether BY <1>1, <1>2, <1>3 DEF CarryTogether
<1>5. CarriedFlightExtended
    BY <1>2, NoFlightOfNothing DEF CarriedFlightExtended, Taken
<1> QED BY <1>4, <1>5 DEF Together

(* a batch begins with what was carried, *)
LEMMA StartBatchTogether ==
    ASSUME IInv, NEW d \in Days, NEW trace \in DayTraces, StartBatch(d, trace)
    PROVE  Together'
<1>1. /\ points' = StagedBefore(d) \cup PointsOf(d, trace) /\ todo' = points'
      /\ day' = d /\ phase' = "walk" /\ seg' = {} /\ staged' = staged
    BY DEF StartBatch
<1>2. /\ d \in Int /\ Midnight(d - 1) \in Int /\ DayLen \in Nat
      /\ Midnight(d - 1) = Midnight(d) - DayLen
  <2>1. d \in Int /\ DayLen \in Nat /\ d - 1 \in Int BY CarryOverConstants, SplitterConstants
  <2> QED BY <2>1, MidnightSteps
<1>3. \A p \in StagedBefore(d) : p.ts <= Midnight(d - 1)
    BY DEF IInv, StagedRecent, StagedBefore
<1>4. \A p \in PointsOf(d, trace) : ~(p.ts <= Midnight(d - 1))
  <2> SUFFICES ASSUME NEW p \in PointsOf(d, trace) PROVE ~(p.ts <= Midnight(d - 1))
      OBVIOUS
  <2>1. PICK q \in trace : p = [q EXCEPT !.ts = Midnight(d - 1) + q.ts]
      BY DEF PointsOf
  <2>2. q \in Point /\ 0 < q.ts BY <2>1, CarryOverConstants
  <2>3. q.ts \in Int /\ p.ts = Midnight(d - 1) + q.ts BY <2>1, <2>2 DEF Point
  <2> QED BY <1>2, <2>2, <2>3
<1>5. Taken' = StagedBefore(d) BY <1>1, <1>3, <1>4 DEF Taken
<1>6. Unsplit({}) BY DEF Unsplit, OneAtATime
<1>7. Unsplit(StagedBefore(d)) BY <1>6 DEF IInv, CarryTogether, StagedBefore
<1>8. Unsplit(seg)' /\ Unsplit(Taken)' /\ \A e \in Days : Unsplit(staged[e])'
    BY <1>1, <1>5, <1>6, <1>7 DEF IInv, CarryTogether
<1>9. Taken' \subseteq todo' BY <1>1, <1>5
<1>10. IF (Taken \cap todo)' # {} THEN seg' = (Taken \ todo)'
                                  ELSE Taken' \subseteq seg' \/ TakenExtended'
    BY <1>1, <1>9
<1>11. CarryTogether' BY <1>1, <1>8, <1>10 DEF CarryTogether
<1>12. CarriedFlightExtended' BY <1>1 DEF CarriedFlightExtended
<1> QED BY <1>11, <1>12 DEF Together

(* or with nothing, *)
LEMMA StartUnreadableTogether ==
    ASSUME IInv, NEW d \in Days, StartUnreadable(d)
    PROVE  Together'
<1>1. /\ points' = {} /\ todo' = {} /\ seg' = {} /\ phase' = "walk" /\ staged' = staged
    BY DEF StartUnreadable
<1>2. Taken' = {} BY <1>1 DEF Taken
<1>3. Unsplit({}) BY DEF Unsplit, OneAtATime
<1>4. CarryTogether' BY <1>1, <1>2, <1>3 DEF IInv, CarryTogether
<1>5. CarriedFlightExtended' BY <1>1 DEF CarriedFlightExtended
<1> QED BY <1>4, <1>5 DEF Together

(* a point that the split test lets join keeps the segment one, *)
LEMMA JoinedIsUnsplit ==
    ASSUME NEW S \in SUBSET Point, Unsplit(S), NEW last \in S, NEW first \in S, NEW c \in Point,
           \A p \in S : first.ts <= p.ts /\ p.ts <= last.ts, last.ts < c.ts,
           ~ShouldFlightSplit(last, c, first.ts)
    PROVE  Unsplit(S \cup {c})
<1> DEFINE T == S \cup {c}
<1>1. \A p \in T : p.ts \in Int BY DEF Point
<1>2. \A p \in S : p.ts < c.ts BY <1>1
<1>3. OneAtATime(T) BY <1>1, <1>2 DEF Unsplit, OneAtATime
<1>4. ASSUME NEW p \in T, NEW q \in T, NEW e \in T, p.ts < q.ts,
             \A r \in T : e.ts <= r.ts /\ (r.ts <= p.ts \/ q.ts <= r.ts)
      PROVE  ~ShouldFlightSplit(p, q, e.ts)
  <2>1. p \in S /\ e \in S BY <1>1, <1>2, <1>4
  <2>2. CASE q \in S BY <1>4, <2>1, <2>2 DEF Unsplit
  <2>3. CASE q = c
    <3>1. p.ts = last.ts BY <1>1, <1>2, <1>4, <2>1, <2>3
    <3>2. p = last BY <2>1, <3>1 DEF Unsplit, OneAtATime
    <3>3. e.ts = first.ts BY <1>1, <1>4, <2>1
    <3> QED BY <2>3, <3>2, <3>3
  <2> QED BY <2>2, <2>3
<1> QED BY <1>3, <1>4 DEF Unsplit

(* a segment that holds what was carried gives the extended flight, *)
LEMMA SegmentExtends ==
    ASSUME IInv, Taken \subseteq seg, NEW f \in FinalizeSegment(Taken)
    PROVE  /\ AtLeastTwo(seg)
           /\ \E g \in FinalizeSegment(seg) : g.start = f.start /\ g.end >= f.end
<1>1. day \in Int /\ seg \in SUBSET Point /\ seg \subseteq points /\ OneAtATime(seg)
    BY CarryOverConstants DEF IInv, TypeOK, PointsRecent, CarryTogether, Unsplit
<1>2. DayLen \in Nat BY SplitterConstants
<1>3. /\ Midnight(day - 3) \in Int /\ Midnight(day - 1) \in Int /\ Midnight(day) \in Int
      /\ Midnight(day - 3) <= Midnight(day - 1) /\ Midnight(day - 1) <= Midnight(day)
    BY <1>1, <1>2, MidnightSteps
<1>4. \A p \in seg : Midnight(day - 3) < p.ts /\ p.ts <= Midnight(day)
    BY <1>1 DEF IInv, PointsRecent
<1>5. Taken = Upto(seg, Midnight(day - 1))
    BY <1>1 DEF Taken, Upto
<1> QED BY <1>1, <1>3, <1>4, <1>5, FlightExtends

(* so closing it writes that, *)
LEMMA ClosedExtends ==
    ASSUME IInv, Taken \subseteq seg, NEW W,
           W = IF AtLeastTwo(seg) THEN upserts \cup FinalizeSegment(seg) ELSE upserts
    PROVE  \A f \in FinalizeSegment(Taken) : \E g \in W : g.start = f.start /\ g.end >= f.end
BY SegmentExtends

(* a point of the walk joins what was carried, or comes after it, *)
LEMMA WalkPointTogether ==
    ASSUME IInv, NEW curr \in todo, WalkPoint(curr)
    PROVE  Together'
<1>1. /\ phase = "walk" /\ phase' = "walk" /\ points' = points /\ day' = day
      /\ staged' = staged /\ todo' = {q \in todo : q.ts > curr.ts}
      /\ \A q \in todo : curr.ts <= q.ts
    BY DEF WalkPoint, IsNextPoint
<1>2. /\ todo \subseteq points /\ curr \in points /\ curr \in Point
      /\ seg \in SUBSET Point /\ prev \in Point /\ day \in Int
      /\ \A p \in points : p.ts \in Int
    BY CarryOverConstants DEF IInv, TypeOK, PointsRecent, Point
<1>3. Midnight(day - 1) \in Int
  <2>1. DayLen \in Int BY SplitterConstants
  <2> QED BY <1>2, <2>1, MidnightSteps
<1>4. Taken' = Taken BY <1>1 DEF Taken
<1>5. OneAtATime(Taken) /\ Unsplit(Taken) /\ Unsplit(seg) /\ \A d \in Days : Unsplit(staged[d])
    BY DEF IInv, CarryTogether, Unsplit
<1>6. TakenExtended => TakenExtended'
  <2>1. upserts \subseteq upserts' BY DEF WalkPoint
  <2> QED BY <1>4, <2>1 DEF TakenExtended
<1>7. seg # {} =>
          /\ prev \in seg /\ prev.ts < curr.ts
          /\ \E first \in seg : first.ts = flightStart
          /\ \A p \in seg : flightStart <= p.ts /\ p.ts <= prev.ts
    BY DEF IInv, SegmentCurrent
<1>8. Unsplit({curr}) BY <1>2 DEF Unsplit, OneAtATime
<1>9. Unsplit(seg)'
  <2>1. CASE seg # {} /\ ~ShouldFlightSplit(prev, curr, flightStart)
    <3>1. seg' = seg \cup {curr} BY <2>1 DEF WalkPoint
    <3>2. PICK first \in seg : first.ts = flightStart BY <1>7, <2>1
    <3>3. Unsplit(seg \cup {curr}) BY <1>2, <1>5, <1>7, <2>1, <3>2, JoinedIsUnsplit
    <3> QED BY <3>1, <3>3
  <2>2. CASE ~(seg # {} /\ ~ShouldFlightSplit(prev, curr, flightStart))
    <3>1. seg' = {curr} BY <2>2 DEF WalkPoint
    <3> QED BY <1>8, <3>1
  <2> QED BY <2>1, <2>2
<1>10. IF (Taken \cap todo)' # {} THEN seg' = (Taken \ todo)'
                                  ELSE Taken' \subseteq seg' \/ TakenExtended'
  <2>1. CASE Taken \cap todo # {}
    <3>1. curr \in Taken BY <1>1, <1>2, <1>3, <2>1 DEF Taken
    <3>2. seg = Taken \ todo BY <1>1, <2>1 DEF IInv, CarryTogether
    <3>3. ASSUME seg # {} PROVE ~ShouldFlightSplit(prev, curr, flightStart)
      <4>1. PICK first \in seg : first.ts = flightStart BY <1>7, <3>3
      <4>2. prev \in Taken /\ first \in Taken /\ prev.ts < curr.ts BY <1>7, <3>2, <3>3, <4>1
      <4>3. ASSUME NEW r \in Taken
            PROVE  first.ts <= r.ts /\ (r.ts <= prev.ts \/ curr.ts <= r.ts)
        <5>1. CASE r \in seg BY <1>7, <4>1, <5>1
        <5>2. CASE r \in todo
          <6>1. r.ts \in Int /\ curr.ts \in Int /\ prev.ts \in Int /\ flightStart <= prev.ts
                /\ flightStart = first.ts /\ first.ts \in Int
              BY <1>2, <1>7, <3>3, <4>1, <4>2 DEF Taken
          <6> QED BY <1>1, <4>2, <5>2, <6>1
        <5> QED BY <3>2, <5>1, <5>2
      <4> QED BY <1>5, <3>1, <4>1, <4>2, <4>3 DEF Unsplit
    <3>4. seg' = seg \cup {curr} BY <3>3 DEF WalkPoint
    <3>5. \A q \in Taken \cap todo : q # curr => q.ts > curr.ts
        BY <1>1, <1>2, <1>5, <3>1 DEF OneAtATime
    <3>6. Taken \cap todo' = (Taken \cap todo) \ {curr} BY <1>1, <1>2, <3>5
    <3>7. Taken \ todo' = seg' BY <3>1, <3>2, <3>4, <3>6
    <3> QED BY <1>4, <3>7
  <2>2. CASE Taken \cap todo = {}
    <3>1. (Taken \cap todo)' = {} BY <1>1, <1>4, <2>2
    <3>2. Taken \subseteq seg \/ TakenExtended BY <1>1, <2>2 DEF IInv, CarryTogether
    <3>3. CASE Taken \subseteq seg /\ (seg = {} \/ ~ShouldFlightSplit(prev, curr, flightStart))
      <4>1. seg \subseteq seg' BY <3>3 DEF WalkPoint
      <4> QED BY <1>4, <3>1, <3>3, <4>1
    <3>4. CASE Taken \subseteq seg /\ seg # {} /\ ShouldFlightSplit(prev, curr, flightStart)
      <4>1. upserts' = IF AtLeastTwo(seg) THEN upserts \cup FinalizeSegment(seg) ELSE upserts
          BY <3>4 DEF WalkPoint
      <4>2. \A f \in FinalizeSegment(Taken) :
                \E g \in upserts' : g.start = f.start /\ g.end >= f.end
          BY <3>4, <4>1, ClosedExtends
      <4>3. TakenExtended' BY <1>4, <4>2 DEF TakenExtended
      <4> QED BY <3>1, <4>3
    <3> QED BY <1>6, <3>1, <3>2, <3>3, <3>4
  <2> QED BY <2>1, <2>2
<1>11. Unsplit(Taken)' /\ \A d \in Days : Unsplit(staged[d])'
    BY <1>1, <1>4, <1>5
<1>12. CarryTogether' BY <1>9, <1>10, <1>11 DEF CarryTogether
<1>13. CarriedFlightExtended' BY <1>1 DEF CarriedFlightExtended
<1> QED BY <1>12, <1>13 DEF Together

(* and what is left in one segment is carried or not at all.               *)
LEMMA EndBatchTogether ==
    ASSUME IInv, EndBatch
    PROVE  Together'
<1>1. /\ phase = "walk" /\ todo = {} /\ phase' = "idle" /\ seg' = {} /\ points' = points
      /\ day' = day /\ upserts' = Written
      /\ staged' = [staged EXCEPT ![day] = Carried] \/ staged' = staged
    BY DEF EndBatch
<1>2. Taken' = Taken BY <1>1 DEF Taken
<1>3. Unsplit({}) BY DEF Unsplit, OneAtATime
<1>4. Unsplit(Carried) BY <1>3 DEF IInv, CarryTogether, Carried
<1>5. \A d \in Days : Unsplit(staged[d])'
  <2>1. staged \in [Days -> SUBSET Point] /\ \A d \in Days : Unsplit(staged[d])
      BY DEF IInv, TypeOK, CarryTogether
  <2> QED BY <1>1, <1>4, <2>1
<1>6. CarryTogether'
    BY <1>1, <1>2, <1>3, <1>5 DEF IInv, CarryTogether
<1>7. \A f \in FinalizeSegment(Taken) : \E g \in Written : g.start = f.start /\ g.end >= f.end
  <2>1. Taken \subseteq seg \/ TakenExtended BY <1>1 DEF IInv, CarryTogether
  <2>2. CASE Taken \subseteq seg BY <2>2, ClosedExtends DEF Written
  <2>3. CASE TakenExtended BY <2>3 DEF TakenExtended, Written
  <2> QED BY <2>1, <2>2, <2>3
<1>8. CarriedFlightExtended'
    BY <1>1, <1>7 DEF CarriedFlightExtended, Taken
<1> QED BY <1>6, <1>8 DEF Together

-----------------------------------------------------------------------------
(* The walk is the split. *)

Splits == WalkedSoFar /\ WalkComputesSplit

(* The points of a batch at different times are finitely many. *)
LEMMA PointsFinite ==
    ASSUME IInv, OneAtATime(points)
    PROVE  points \in SUBSET Point /\ IsFiniteSet(points)
<1>1. day \in Int /\ DayLen \in Int /\ points \in SUBSET Point
    BY CarryOverConstants, SplitterConstants DEF IInv, TypeOK
<1>2. Midnight(day - 3) \in Int /\ Midnight(day) \in Int BY <1>1, MidnightSteps
<1> QED BY <1>1, <1>2, FiniteInInterval DEF IInv, PointsRecent

(* Without points there is nothing to split. *)
LEMMA NothingToSplit ==
    /\ SplitFlights({}) = {}
    /\ \A t : InProgressPoints({}, t) = {}
<1>1. Walked({}).closed = {} /\ Walked({}).seg = {}
    BY WalkedNone DEF NothingWalked
<1>2. ~AtLeastTwo({}) BY DEF AtLeastTwo
<1>3. {t \in Walked({}).closed \cup {Walked({}).seg} : AtLeastTwo(t)} = {}
    BY <1>1, <1>2
<1> QED BY <1>1, <1>2, <1>3 DEF SplitFlights, InProgressPoints

(* At first there are none, *)
LEMMA InitSplits == Init => Splits
<1> SUFFICES ASSUME Init PROVE Splits
    OBVIOUS
<1>1. points = {} /\ upserts = {} /\ phase = "idle" BY DEF Init
<1>2. WalkedSoFar BY <1>1 DEF WalkedSoFar
<1>3. WalkComputesSplit BY <1>1, NothingToSplit DEF WalkComputesSplit
<1> QED BY <1>2, <1>3 DEF Splits

(* and a walk begins at none. *)
LEMMA StartSplits ==
    ASSUME phase' = "walk", todo' = points', seg' = {}, prev' = NoPoint, flightStart' = 0,
           upserts' = {}
    PROVE  Splits'
<1>1. (points \ todo)' = {} OBVIOUS
<1>2. Walked((points \ todo)') = [closed |-> {}, seg |-> {}, prev |-> NoPoint, start |-> 0]
    BY <1>1, WalkedNone DEF NothingWalked
<1>3. WalkedSoFar'
    BY <1>1, <1>2 DEF WalkedSoFar
<1>4. WalkComputesSplit' BY DEF WalkComputesSplit
<1> QED BY <1>3, <1>4 DEF Splits

(* A step of the loop is a step of the fold. *)
LEMMA WalkPointSplits ==
    ASSUME IInv, NEW curr \in todo, WalkPoint(curr)
    PROVE  Splits'
<1>1. /\ phase = "walk" /\ phase' = "walk" /\ points' = points /\ prev' = curr
      /\ todo' = {q \in todo : q.ts > curr.ts} /\ \A q \in todo : curr.ts <= q.ts
    BY DEF WalkPoint, IsNextPoint
<1>2. WalkComputesSplit' BY <1>1 DEF WalkComputesSplit
<1>3. ASSUME OneAtATime(points)
      PROVE  LET w == Walked((points \ todo)')
             IN  /\ w = [closed |-> w.closed, seg |-> seg', prev |-> prev', start |-> flightStart']
                 /\ upserts' = UNION {FinalizeSegment(s) : s \in {t \in w.closed : AtLeastTwo(t)}}
                 /\ \A p \in (points \ todo)', q \in todo' : p.ts < q.ts
  <2> DEFINE done == points \ todo
             walk == Walked(done)
             new  == Walked(done \cup {curr})
             Flown(c) == UNION {FinalizeSegment(s) : s \in {t \in c : AtLeastTwo(t)}}
  <2>1. /\ walk = [closed |-> walk.closed, seg |-> seg, prev |-> prev, start |-> flightStart]
        /\ upserts = Flown(walk.closed)
        /\ \A p \in done, q \in todo : p.ts < q.ts
      BY <1>1, <1>3 DEF IInv, WalkedSoFar
  <2>2. /\ points \in SUBSET Point /\ todo \subseteq points /\ IsFiniteSet(points)
        /\ \A p \in points : p.ts \in Int
      BY <1>3, PointsFinite DEF IInv, PointsRecent, Point
  <2>3. \A q \in todo : q # curr => q.ts > curr.ts
      BY <1>1, <1>3, <2>2 DEF OneAtATime
  <2>4. (points \ todo)' = done \cup {curr}
      BY <1>1, <2>2, <2>3
  <2>5. \A p \in done \cup {curr}, q \in todo' : p.ts < q.ts
      BY <1>1, <2>1, <2>2
  <2>6. new = AddPoint(walk, curr)
    <3>1. IsFiniteSet(done) BY <2>2, FS_Subset
    <3> QED BY <2>1, <2>2, <3>1, WalkedNext
  <2>7. /\ new = [closed |-> new.closed, seg |-> seg', prev |-> prev', start |-> flightStart']
        /\ upserts' = Flown(new.closed)
    <3> DEFINE c == walk.closed
    <3>1. walk = [closed |-> c, seg |-> seg, prev |-> prev, start |-> flightStart] BY <2>1
    <3> HIDE DEF walk, new, c
    <3>2. CASE seg # {} /\ ~ShouldFlightSplit(prev, curr, flightStart)
      <4>1. seg' = seg \cup {curr} /\ flightStart' = flightStart /\ upserts' = upserts
          BY <3>2 DEF WalkPoint
      <4>2. new = [closed |-> c, seg |-> seg', prev |-> prev', start |-> flightStart']
          BY <1>1, <2>6, <3>1, <3>2, <4>1 DEF AddPoint
      <4> QED BY <2>1, <4>1, <4>2 DEF c
    <3>3. CASE ~(seg # {} /\ ~ShouldFlightSplit(prev, curr, flightStart))
      <4>1. /\ seg' = {curr} /\ flightStart' = curr.ts
            /\ upserts' = IF AtLeastTwo(seg) THEN upserts \cup FinalizeSegment(seg) ELSE upserts
          BY <3>3 DEF WalkPoint, AtLeastTwo
      <4>2. new = [closed |-> c \cup {seg}, seg |-> seg', prev |-> prev', start |-> flightStart']
          BY <1>1, <2>6, <3>1, <3>3, <4>1 DEF AddPoint
      <4>3. Flown(c \cup {seg}) =
                IF AtLeastTwo(seg) THEN Flown(c) \cup FinalizeSegment(seg) ELSE Flown(c)
        <5>1. CASE AtLeastTwo(seg)
          <6>1. {t \in c \cup {seg} : AtLeastTwo(t)} = {t \in c : AtLeastTwo(t)} \cup {seg}
              BY <5>1
          <6> QED BY <5>1, <6>1
        <5>2. CASE ~AtLeastTwo(seg)
          <6>1. {t \in c \cup {seg} : AtLeastTwo(t)} = {t \in c : AtLeastTwo(t)}
              BY <5>2
          <6> QED BY <5>2, <6>1
        <5> QED BY <5>1, <5>2
      <4>4. upserts = Flown(c) BY <2>1 DEF c
      <4> HIDE DEF Flown
      <4>5. upserts' = Flown(c \cup {seg}) BY <4>1, <4>3, <4>4
      <4> QED BY <4>2, <4>5
    <3> QED BY <3>2, <3>3
  <2> HIDE DEF walk
  <2> QED BY <2>4, <2>5, <2>7
<1>4. WalkedSoFar' BY <1>1, <1>3 DEF WalkedSoFar
<1> QED BY <1>2, <1>4 DEF Splits

(* The last segment ends both. *)
LEMMA EndBatchSplits ==
    ASSUME IInv, EndBatch
    PROVE  Splits'
<1>1. /\ phase = "walk" /\ todo = {} /\ phase' = "idle" /\ points' = points
      /\ day' = day /\ upserts' = Written
      /\ \/ staged' = [staged EXCEPT ![day] = Carried]
         \/ Carried = {} /\ staged' = staged
    BY DEF EndBatch
<1>2. WalkedSoFar' BY <1>1 DEF WalkedSoFar
<1>3. ASSUME OneAtATime(points)
      PROVE  /\ upserts' = SplitFlights(points)
             /\ InProgressPoints(points, Midnight(day)) # {} =>
                    staged'[day] = InProgressPoints(points, Midnight(day))
  <2> DEFINE walk == Walked(points)
             c == walk.closed
             Flown(x) == UNION {FinalizeSegment(s) : s \in {t \in x : AtLeastTwo(t)}}
  <2>1. points \ todo = points BY <1>1
  <2>2. /\ walk = [closed |-> c, seg |-> seg, prev |-> prev, start |-> flightStart]
        /\ upserts = Flown(c)
      BY <1>1, <1>3, <2>1 DEF IInv, WalkedSoFar
  <2>3. walk.seg = seg /\ walk.prev = prev
    <3> HIDE DEF walk, c
    <3> QED BY <2>2
  <2>4. Flown(c \cup {seg}) =
            IF AtLeastTwo(seg) THEN Flown(c) \cup FinalizeSegment(seg) ELSE Flown(c)
    <3> HIDE DEF c
    <3>1. CASE AtLeastTwo(seg)
      <4>1. {t \in c \cup {seg} : AtLeastTwo(t)} = {t \in c : AtLeastTwo(t)} \cup {seg}
          BY <3>1
      <4> QED BY <3>1, <4>1
    <3>2. CASE ~AtLeastTwo(seg)
      <4>1. {t \in c \cup {seg} : AtLeastTwo(t)} = {t \in c : AtLeastTwo(t)}
          BY <3>2
      <4> QED BY <3>2, <4>1
    <3> QED BY <3>1, <3>2
  <2>5. SplitFlights(points) = Flown(c \cup {seg}) BY <2>3 DEF SplitFlights
  <2>6. InProgressPoints(points, Midnight(day)) = Carried
      BY <2>3 DEF InProgressPoints, Carried
  <2>7. day \in Days /\ staged \in [Days -> SUBSET Point] BY DEF IInv, TypeOK
  <2>8. Carried # {} => staged'[day] = Carried BY <1>1, <2>7
  <2>9. upserts' = Flown(c \cup {seg})
    <3> HIDE DEF Flown, c
    <3> QED BY <1>1, <2>2, <2>4 DEF Written
  <2> HIDE DEF Flown, c
  <2> QED BY <2>5, <2>6, <2>8, <2>9
<1>4. WalkComputesSplit' BY <1>1, <1>3 DEF WalkComputesSplit, OneAtATime
<1> QED BY <1>2, <1>4 DEF Splits

-----------------------------------------------------------------------------

(* Nothing changes the invariant but these actions. *)
LEMMA StutterAll ==
    ASSUME IInv, UNCHANGED vars
    PROVE  Together' /\ Splits'
<1>1. /\ day' = day /\ phase' = phase /\ points' = points /\ todo' = todo
      /\ seg' = seg /\ prev' = prev /\ flightStart' = flightStart
      /\ upserts' = upserts /\ staged' = staged
    BY DEF vars
<1>2. Taken' = Taken BY <1>1 DEF Taken
<1>3. CarryTogether' BY <1>1, <1>2 DEF IInv, CarryTogether, TakenExtended
<1>4. CarriedFlightExtended' BY <1>1 DEF IInv, CarriedFlightExtended
<1>5. WalkedSoFar' BY <1>1 DEF IInv, WalkedSoFar
<1>6. WalkComputesSplit' BY <1>1 DEF IInv, WalkComputesSplit
<1> QED BY <1>3, <1>4, <1>5, <1>6 DEF Together, Splits

(* The invariant holds of every behaviour of the specification. *)
THEOREM Invariance == Spec => []IInv
<1>1. Init => IInv
    BY InitBounded, InitTogether, InitSplits DEF IInv, Bounded, Together, Splits
<1>2. IInv /\ [Next]_vars => IInv'
  <2>0. Bounded' /\ Together' /\ Splits' => IInv'
      BY DEF IInv, Bounded, Together, Splits
  <2> SUFFICES ASSUME IInv, [Next]_vars PROVE Bounded' /\ Together' /\ Splits'
      BY <2>0
  <2>1. ASSUME NEW d \in Days, NEW trace \in DayTraces, StartBatch(d, trace)
        PROVE  Bounded' /\ Together' /\ Splits'
    <3>1. Splits' BY <2>1, StartSplits DEF StartBatch
    <3> QED BY <2>1, <3>1, StartBatchStep, StartBatchTogether
  <2>2. ASSUME NEW d \in Days, StartUnreadable(d)
        PROVE  Bounded' /\ Together' /\ Splits'
    <3>1. Splits' BY <2>2, StartSplits DEF StartUnreadable
    <3> QED BY <2>2, <3>1, StartUnreadableStep, StartUnreadableTogether
  <2>3. ASSUME NEW curr \in todo, WalkPoint(curr)
        PROVE  Bounded' /\ Together' /\ Splits'
      BY <2>3, WalkPointStep, WalkPointTogether, WalkPointSplits
  <2>4. ASSUME EndBatch
        PROVE  Bounded' /\ Together' /\ Splits'
      BY <2>4, EndBatchStep, EndBatchTogether, EndBatchSplits
  <2>5. ASSUME UNCHANGED vars
        PROVE  Bounded' /\ Together' /\ Splits'
      BY <2>5, StutterStep, StutterAll
  <2> QED
      BY <2>1, <2>2, <2>3, <2>4, <2>5 DEF Next
<1> QED
    BY <1>1, <1>2, PTL DEF Spec

-----------------------------------------------------------------------------
(* The results. *)

(* Every variable keeps its type. *)
THEOREM TypeCorrect == Spec => []TypeOK
<1>1. IInv => TypeOK
    BY DEF IInv
<1> QED
    BY Invariance, <1>1, PTL

(* Whatever days are run, in whatever order and however often, batch d     *)
(* writes no flight that starts before day d-2 (partition_backup.py 78-83).*)
THEOREM SettleWindowHolds == Spec => []SettleWindow
<1>1. IInv => SettleWindow
    BY DEF IInv
<1> QED
    BY Invariance, <1>1, PTL

(* No flight exceeds _MAX_SEGMENT_DURATION. *)
THEOREM FlightsCappedHolds == Spec => []FlightsCapped
<1>1. IInv => FlightsCapped
    BY DEF IInv
<1> QED
    BY Invariance, <1>1, PTL

(* The flights of a run do not overlap. *)
THEOREM RunFlightsDisjointHolds == Spec => []RunFlightsDisjoint
<1>1. IInv => RunFlightsDisjoint
    BY DEF IInv
<1> QED
    BY Invariance, <1>1, PTL

(* The batch of the next day extends a carried flight under its key. *)
THEOREM CarriedFlightExtendedHolds == Spec => []CarriedFlightExtended
<1>1. IInv => CarriedFlightExtended
    BY DEF IInv
<1> QED
    BY Invariance, <1>1, PTL

(* The loop of split_flights computes SplitFlights, for any sequence of    *)
(* points at different times.                                              *)
THEOREM WalkComputesSplitHolds == Spec => []WalkComputesSplit
<1>1. IInv => WalkComputesSplit
    BY DEF IInv
<1> QED
    BY Invariance, <1>1, PTL

(* A run neither writes nor deletes a row from before day d-2: a row it    *)
(* replaces has the key of a flight it wrote, one it deletes was written   *)
(* by an earlier run of the same day, and both are recent.                 *)
THEOREM OldRowsUntouchedHolds == Spec => OldRowsUntouched
<1> DEFINE Old(R) == {r \in R : r.start <= Midnight(day' - 3)}
<1>1. ASSUME IInv, IInv', [Next]_vars
      PROVE  Old(rows) = Old(rows')
  <2>1. CASE EndBatch
    <3>1. rows' = RowsAfter(Written) /\ day' = day /\ upserts' = Written
        BY <2>1 DEF EndBatch
    <3>2. \A f \in Written : f.start > Midnight(day - 3)
        BY <1>1, <3>1 DEF IInv, UpsertsBounded
    <3>3. /\ day \in Days /\ day \in Int /\ Midnight(day - 3) \in Int
          /\ \A r \in rows : r.start \in Int
          /\ \A f \in Written : f.start \in Int
      <4>1. day \in Days /\ day \in Int
          BY <1>1, CarryOverConstants DEF IInv, TypeOK
      <4>2. Midnight(day - 3) \in Int
          BY <4>1, MidnightSteps
      <4>3. \A r \in rows : r.start \in Int
          BY <1>1 DEF IInv, TypeOK, Row
      <4>4. \A f \in Written : f.start \in Int
          BY <1>1, <3>1 DEF IInv, TypeOK, Flight
      <4> QED
          BY <4>1, <4>2, <4>3, <4>4
    <3>4. ASSUME NEW r \in rows, r.start <= Midnight(day - 3)
          PROVE  r \in rows'
      <4>1. r.batch # day
          BY <1>1, <3>3, <3>4 DEF IInv, SettleWindow
      <4>2. \A f \in Written : f.start # r.start
          BY <3>2, <3>3, <3>4
      <4> QED
          BY <3>1, <4>1, <4>2 DEF RowsAfter
    <3>5. ASSUME NEW r \in rows', r.start <= Midnight(day - 3)
          PROVE  r \in rows
      <4>1. CASE \E f \in Written : r = [start |-> f.start, end |-> f.end, batch |-> day]
          BY <3>2, <3>3, <3>5, <4>1
      <4> QED
          BY <3>1, <4>1 DEF RowsAfter
    <3> QED
        BY <3>1, <3>4, <3>5
  <2>2. CASE ~EndBatch
    <3>1. rows' = rows
        BY <1>1, <2>2 DEF Next, vars, StartBatch, StartUnreadable, WalkPoint
    <3> QED
        BY <3>1
  <2> QED
      BY <2>1, <2>2
<1>2. IInv /\ IInv' /\ [Next]_vars => [Old(rows) = Old(rows')]_vars
    BY <1>1
<1> QED
    BY Invariance, <1>2, PTL DEF Spec, OldRowsUntouched

=============================================================================
