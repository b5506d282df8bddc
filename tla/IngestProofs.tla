---------------------------- MODULE IngestProofs ----------------------------
(***************************************************************************)
(* The scheduled import on its own shows its readers a timeline; with any  *)
(* other runs, failures and deaths, the carry that a good day leaves is    *)
(* the one of an undisturbed ingestion, so are its counts of flights, and  *)
(* once all days are good so is the table: for any number of days and      *)
(* aircraft, any traces (for the counts, with one report per time) and any *)
(* thresholds.                                                             *)
(***************************************************************************)
EXTENDS Ingest, FiniteSetTheorems, WellFoundedInduction, TLAPS

-----------------------------------------------------------------------------
(* Recursion over the days. *)

(* What holds of 0 and with each number of the next holds of all.          *)
LEMMA SetInduction ==
    ASSUME NEW S, 0 \in S, \A n \in Nat : n \in S => n + 1 \in S
    PROVE  Nat \subseteq S
<1> SUFFICES ASSUME Nat \ S # {} PROVE FALSE
    OBVIOUS
<1> DEFINE less == {e \in Nat \X Nat : e[1] < e[2]}
           T == Nat \ S
<1>1. IsWellFoundedOn(less, Nat)
    BY NatLessThanWellFounded DEF OpToRel
<1>2. \E x \in T : \A y \in T : ~(<<y, x>> \in less)
  <2> HIDE DEF less
  <2> QED
      BY <1>1, WFMin
<1>3. PICK m \in T : \A y \in T : ~(<<y, m>> \in less)
    BY <1>2
<1>4. \A y \in T : y \in Nat /\ m \in Nat /\ ~(y < m)
    BY <1>3
<1>5. m # 0 /\ m - 1 \in Nat /\ m - 1 < m
    BY <1>3
<1>6. m - 1 \in S
    BY <1>4, <1>5
<1> QED
    BY <1>3, <1>5, <1>6

LEMMA Constants ==
    /\ LastDay \in Nat /\ Days = 1..LastDay /\ Procs \subseteq {"cron", "manual"}
    /\ \A d \in Days : d \in Nat \ {0} /\ d - 1 \in 0..LastDay /\ d \in 0..LastDay
    /\ \A d \in Days : d # 1 => d - 1 \in Days
<1>1. LastDay \in Nat /\ Procs \subseteq {"cron", "manual"}
    BY IngestConstants
<1> QED
    BY <1>1 DEF Days

(* The recursion of InOrderCarry: it has a solution, so it is what it says. *)
CarryStep(g, d) ==
    [ac \in Aircraft |-> IF d = 0 THEN {} ELSE CarryOf(d, ac, g[d - 1][ac])]

LEMMA CarryStepLocal ==
    ASSUME NEW g, NEW h, NEW d, d # 0 => g[d - 1] = h[d - 1]
    PROVE  CarryStep(g, d) = CarryStep(h, d)
<1>1. CASE d = 0
    BY <1>1, Zenon DEF CarryStep
<1>2. CASE d # 0
    BY <1>2 DEF CarryStep
<1> QED
    BY <1>1, <1>2

LEMMA InOrderCarryExists ==
    \A n \in Nat : \E g : g = [d \in 0..n |-> CarryStep(g, d)]
<1> DEFINE S == {n \in Nat : \E g : g = [d \in 0..n |-> CarryStep(g, d)]}
<1>1. 0 \in S
  <2> DEFINE g == [d \in 0..0 |-> CarryStep(<< >>, d)]
  <2>1. \A d \in 0..0 : CarryStep(<< >>, d) = CarryStep(g, d)
    <3> HIDE DEF g
    <3> QED
        BY CarryStepLocal
  <2>2. g = [d \in 0..0 |-> CarryStep(g, d)]
      BY <2>1, Zenon
  <2> QED
      BY <2>2
<1>2. ASSUME NEW n \in Nat, n \in S PROVE n + 1 \in S
  <2>1. PICK g : g = [d \in 0..n |-> CarryStep(g, d)]
      BY <1>2
  <2> DEFINE h == [d \in 0..(n + 1) |-> CarryStep(g, d)]
  <2>2. \A d \in 0..n : h[d] = g[d]
      BY <2>1
  <2>3. \A d \in 0..(n + 1) : d # 0 => h[d - 1] = g[d - 1]
    <3>1. \A d \in 0..(n + 1) : d # 0 => d - 1 \in 0..n
        OBVIOUS
    <3> HIDE DEF h
    <3> QED
        BY <2>2, <3>1
  <2>4. \A d \in 0..(n + 1) : CarryStep(g, d) = CarryStep(h, d)
    <3> HIDE DEF h
    <3> QED
        BY <2>3, CarryStepLocal
  <2>5. h = [d \in 0..(n + 1) |-> CarryStep(h, d)]
      BY <2>4, Zenon
  <2>6. n + 1 \in Nat
      OBVIOUS
  <2> HIDE DEF h
  <2> QED
      BY <2>5, <2>6
<1>3. Nat \subseteq S
  <2> HIDE DEF S
  <2> QED
      BY <1>1, <1>2, SetInduction
<1> QED
    BY <1>3

LEMMA InOrderCarryDef ==
    InOrderCarry = [d \in 0..LastDay |-> CarryStep(InOrderCarry, d)]
<1>1. PICK g : g = [d \in 0..LastDay |-> CarryStep(g, d)]
    BY InOrderCarryExists, Constants
<1> QED
    BY <1>1, Zenon DEF InOrderCarry, CarryStep

(* The recursion of InOrderFlights. *)
FlightsStep(g, d) ==
    [ac \in Aircraft |->
        IF d = 0 THEN {}
        ELSE Upsert(g[d - 1][ac], FlightsOf(d, ac, InOrderCarry[d - 1][ac]))]

LEMMA FlightsStepLocal ==
    ASSUME NEW g, NEW h, NEW d, d # 0 => g[d - 1] = h[d - 1]
    PROVE  FlightsStep(g, d) = FlightsStep(h, d)
<1>1. CASE d = 0
    BY <1>1, Zenon DEF FlightsStep
<1>2. CASE d # 0
    BY <1>2 DEF FlightsStep
<1> QED
    BY <1>1, <1>2

LEMMA InOrderFlightsExists ==
    \A n \in Nat : \E g : g = [d \in 0..n |-> FlightsStep(g, d)]
<1> DEFINE S == {n \in Nat : \E g : g = [d \in 0..n |-> FlightsStep(g, d)]}
<1>1. 0 \in S
  <2> DEFINE g == [d \in 0..0 |-> FlightsStep(<< >>, d)]
  <2>1. \A d \in 0..0 : FlightsStep(<< >>, d) = FlightsStep(g, d)
    <3> HIDE DEF g
    <3> QED
        BY FlightsStepLocal
  <2>2. g = [d \in 0..0 |-> FlightsStep(g, d)]
      BY <2>1, Zenon
  <2> QED
      BY <2>2
<1>2. ASSUME NEW n \in Nat, n \in S PROVE n + 1 \in S
  <2>1. PICK g : g = [d \in 0..n |-> FlightsStep(g, d)]
      BY <1>2
  <2> DEFINE h == [d \in 0..(n + 1) |-> FlightsStep(g, d)]
  <2>2. \A d \in 0..n : h[d] = g[d]
      BY <2>1
  <2>3. \A d \in 0..(n + 1) : d # 0 => h[d - 1] = g[d - 1]
    <3>1. \A d \in 0..(n + 1) : d # 0 => d - 1 \in 0..n
        OBVIOUS
    <3> HIDE DEF h
    <3> QED
        BY <2>2, <3>1
  <2>4. \A d \in 0..(n + 1) : FlightsStep(g, d) = FlightsStep(h, d)
    <3> HIDE DEF h
    <3> QED
        BY <2>3, FlightsStepLocal
  <2>5. h = [d \in 0..(n + 1) |-> FlightsStep(h, d)]
      BY <2>4, Zenon
  <2>6. n + 1 \in Nat
      OBVIOUS
  <2> HIDE DEF h
  <2> QED
      BY <2>5, <2>6
<1>3. Nat \subseteq S
  <2> HIDE DEF S
  <2> QED
      BY <1>1, <1>2, SetInduction
<1> QED
    BY <1>3

LEMMA InOrderFlightsDef ==
    InOrderFlights = [d \in 0..LastDay |-> FlightsStep(InOrderFlights, d)]
<1>1. PICK g : g = [d \in 0..LastDay |-> FlightsStep(g, d)]
    BY InOrderFlightsExists, Constants
<1> QED
    BY <1>1, Zenon DEF InOrderFlights, FlightsStep

(* The recursion of CarriesInto. *)
IntoStep(g, d) ==
    [ac \in Aircraft |->
        {{}} \cup IF d = 1 THEN {} ELSE {CarryOf(d - 1, ac, base) : base \in g[d - 1][ac]}]

LEMMA IntoStepLocal ==
    ASSUME NEW g, NEW h, NEW d, d # 1 => g[d - 1] = h[d - 1]
    PROVE  IntoStep(g, d) = IntoStep(h, d)
<1>1. CASE d = 1
    BY <1>1, Zenon DEF IntoStep
<1>2. CASE d # 1
    BY <1>2 DEF IntoStep
<1> QED
    BY <1>1, <1>2

LEMMA CarriesIntoExists ==
    \A n \in Nat : \E g : g = [d \in 1..n |-> IntoStep(g, d)]
<1> DEFINE S == {n \in Nat : \E g : g = [d \in 1..n |-> IntoStep(g, d)]}
<1>1. 0 \in S
  <2> DEFINE g == [d \in 1..0 |-> IntoStep(<< >>, d)]
  <2>1. \A d \in 1..0 : IntoStep(<< >>, d) = IntoStep(g, d)
      OBVIOUS
  <2>2. g = [d \in 1..0 |-> IntoStep(g, d)]
      BY <2>1, Zenon
  <2> QED
      BY <2>2
<1>2. ASSUME NEW n \in Nat, n \in S PROVE n + 1 \in S
  <2>1. PICK g : g = [d \in 1..n |-> IntoStep(g, d)]
      BY <1>2
  <2> DEFINE h == [d \in 1..(n + 1) |-> IntoStep(g, d)]
  <2>2. \A d \in 1..n : h[d] = g[d]
      BY <2>1
  <2>3. \A d \in 1..(n + 1) : d # 1 => h[d - 1] = g[d - 1]
    <3>1. \A d \in 1..(n + 1) : d # 1 => d - 1 \in 1..n
        OBVIOUS
    <3> HIDE DEF h
    <3> QED
        BY <2>2, <3>1
  <2>4. \A d \in 1..(n + 1) : IntoStep(g, d) = IntoStep(h, d)
    <3> HIDE DEF h
    <3> QED
        BY <2>3, IntoStepLocal
  <2>5. h = [d \in 1..(n + 1) |-> IntoStep(h, d)]
      BY <2>4, Zenon
  <2>6. n + 1 \in Nat
      OBVIOUS
  <2> HIDE DEF h
  <2> QED
      BY <2>5, <2>6
<1>3. Nat \subseteq S
  <2> HIDE DEF S
  <2> QED
      BY <1>1, <1>2, SetInduction
<1> QED
    BY <1>3

LEMMA CarriesIntoDef ==
    CarriesInto = [d \in Days |-> IntoStep(CarriesInto, d)]
<1>1. PICK g : g = [d \in Days |-> IntoStep(g, d)]
    BY CarriesIntoExists, Constants
<1> QED
    BY <1>1, Zenon DEF CarriesInto, IntoStep

-----------------------------------------------------------------------------
(* What a day splits into when it begins with the carry of an undisturbed  *)
(* ingestion. *)

LEMMA InOrderCarryStep ==
    /\ InOrderCarry[0] = NoCarry
    /\ \A d \in Days : InOrderCarry[d] =
           [ac \in Aircraft |-> CarryOf(d, ac, InOrderCarry[d - 1][ac])]
    /\ \A d \in 0..LastDay : Carries[d] = InOrderCarry[d]
<1>1. \A d \in 0..LastDay : InOrderCarry[d] = CarryStep(InOrderCarry, d)
    BY InOrderCarryDef, Zenon
<1>2. 0 \in 0..LastDay /\ \A d \in Days : d \in 0..LastDay /\ d # 0
    BY Constants
<1>3. InOrderCarry[0] = NoCarry
  <2>1. CarryStep(InOrderCarry, 0) = NoCarry
      BY Zenon DEF CarryStep, NoCarry
  <2> QED
      BY <1>1, <1>2, <2>1
<1>4. ASSUME NEW d \in Days
      PROVE  InOrderCarry[d] = [ac \in Aircraft |-> CarryOf(d, ac, InOrderCarry[d - 1][ac])]
  <2>1. CarryStep(InOrderCarry, d) = [ac \in Aircraft |-> CarryOf(d, ac, InOrderCarry[d - 1][ac])]
      BY <1>2, <1>4, Zenon DEF CarryStep
  <2> QED
      BY <1>1, <1>2, <1>4, <2>1
<1>5. \A d \in 0..LastDay : Carries[d] = InOrderCarry[d]
    BY Zenon DEF Carries
<1> QED
    BY <1>3, <1>4, <1>5

LEMMA InOrderCarryExpected ==
    \A d \in Days : \A ac \in Aircraft : InOrderCarry[d - 1][ac] \in CarriesInto[d][ac]
<1> DEFINE Good(d) == \A ac \in Aircraft : InOrderCarry[d - 1][ac] \in CarriesInto[d][ac]
           S == {n \in Nat : n + 1 \in Days => Good(n + 1)}
<1>1. \A d \in Days : CarriesInto[d] = IntoStep(CarriesInto, d)
    BY CarriesIntoDef, Zenon
<1>2. \A d \in Days, ac \in Aircraft : CarriesInto[d][ac] =
          {{}} \cup IF d = 1 THEN {} ELSE {CarryOf(d - 1, ac, base) : base \in CarriesInto[d - 1][ac]}
  <2> TAKE d \in Days, ac \in Aircraft
  <2>1. IntoStep(CarriesInto, d)[ac] =
          {{}} \cup IF d = 1 THEN {} ELSE {CarryOf(d - 1, ac, base) : base \in CarriesInto[d - 1][ac]}
      BY Zenon DEF IntoStep
  <2> QED
      BY <1>1, <2>1
<1>3. 0 \in S
  <2>1. ASSUME 1 \in Days, NEW ac \in Aircraft
        PROVE  InOrderCarry[0][ac] \in CarriesInto[1][ac]
    <3>1. InOrderCarry[0][ac] = {}
        BY InOrderCarryStep DEF NoCarry
    <3>2. {} \in CarriesInto[1][ac]
        BY <1>2, <2>1
    <3> QED
        BY <3>1, <3>2
  <2> QED
      BY <2>1
<1>4. ASSUME NEW n \in Nat, n \in S, (n + 1) + 1 \in Days, NEW ac \in Aircraft
      PROVE  InOrderCarry[n + 1][ac] \in CarriesInto[(n + 1) + 1][ac]
  <2>1. n + 1 \in Days /\ ((n + 1) + 1) - 1 = n + 1 /\ (n + 1) + 1 # 1 /\ (n + 1) - 1 = n
      BY <1>4, Constants
  <2>2. InOrderCarry[n][ac] \in CarriesInto[n + 1][ac]
      BY <1>4, <2>1
  <2> DEFINE d == n + 1
  <2>3. InOrderCarry[d][ac] = CarryOf(d, ac, InOrderCarry[n][ac])
    <3>1. d \in Days /\ d - 1 = n
        BY <2>1
    <3> HIDE DEF d
    <3>2. InOrderCarry[d] = [b \in Aircraft |-> CarryOf(d, b, InOrderCarry[d - 1][b])]
        BY <3>1, InOrderCarryStep
    <3> QED
        BY <3>1, <3>2
  <2>4. CarriesInto[d + 1][ac] = {{}} \cup {CarryOf(d, ac, base) : base \in CarriesInto[d][ac]}
      BY <1>2, <1>4, <2>1
  <2> QED
      BY <2>2, <2>3, <2>4
<1>5. \A n \in Nat : n \in S => n + 1 \in S
  <2>1. \A n \in Nat : ((n + 1) + 1) - 1 = n + 1
      OBVIOUS
  <2> QED
      BY <1>4, <2>1
<1>6. Nat \subseteq S
  <2> HIDE DEF S
  <2> QED
      BY <1>3, <1>5, SetInduction
<1>7. ASSUME NEW d \in Days PROVE Good(d)
  <2>1. d - 1 \in Nat /\ (d - 1) + 1 = d
      BY Constants
  <2>2. d - 1 \in S
      BY <1>6, <2>1
  <2> QED
      BY <2>1, <2>2
<1> QED
    BY <1>7

LEMMA SplitInOrder ==
    ASSUME NEW d \in Days, NEW ac \in Aircraft
    PROVE  /\ Split[d][ac][InOrderCarry[d - 1][ac]].carry = InOrderCarry[d][ac]
           /\ Split[d][ac][InOrderCarry[d - 1][ac]].flights = FlightsOf(d, ac, InOrderCarry[d - 1][ac])
<1> DEFINE base == InOrderCarry[d - 1][ac]
<1>1. base \in Bases[d][ac]
    BY InOrderCarryExpected DEF Bases
<1> HIDE DEF base
<1>2. Split[d][ac][base] = [flights |-> FlightsOf(d, ac, base), carry |-> CarryOf(d, ac, base)]
    BY <1>1, Zenon DEF Split
<1>3. InOrderCarry[d][ac] = CarryOf(d, ac, base)
    BY InOrderCarryStep DEF base
<1> QED
    BY <1>2, <1>3 DEF base

(* A run on the carry of an undisturbed ingestion finds the next one. *)
LEMMA FindsInOrder ==
    ASSUME NEW p, day[p] \in Days, carry[p] = InOrderCarry[day[p] - 1]
    PROVE  CarryFound(p) = InOrderCarry[day[p]]
<1> DEFINE d == day[p]
<1>1. \A ac \in Aircraft : Split[d][ac][carry[p][ac]].carry = InOrderCarry[d][ac]
    BY SplitInOrder
<1>2. InOrderCarry[d] = [ac \in Aircraft |-> InOrderCarry[d][ac]]
    BY InOrderCarryStep
<1> HIDE DEF d
<1>3. [ac \in Aircraft |-> Split[d][ac][carry[p][ac]].carry] = [ac \in Aircraft |-> InOrderCarry[d][ac]]
    BY <1>1, Zenon
<1> QED
    BY <1>2, <1>3, Zenon DEF CarryFound, d

-----------------------------------------------------------------------------
(* GoodCarry.  A run counts as sound from its LoadStaging on, so it works  *)
(* on the carry of an undisturbed ingestion, and it stages the next such   *)
(* one; whoever writes otherwise takes the day, or the run, off the books. *)

Running == {"existing", "flush", "carry", "stale", "stats", "succeed"}
Staged  == {"stale", "stats", "succeed"}

IsOn(f, S) == f = [x \in S |-> f[x]]

Shape ==
    /\ IsOn(staging, Days) /\ IsOn(carry, Procs)
    /\ pc \in [Procs -> Statements]
    /\ day \in [Procs -> Days]
    /\ sound \subseteq Procs
    /\ good \subseteq Days

StagedInOrder(d) == d \notin lost => staging[d] = InOrderCarry[d]

RunsInOrder(p) ==
    /\ pc[p] \in Running
    /\ carry[p] = InOrderCarry[day[p] - 1]
    /\ pc[p] \in Staged => StagedInOrder(day[p])

CarryInv ==
    /\ Shape
    /\ \A d \in good : StagedInOrder(d)
    /\ \A p \in sound : RunsInOrder(p)

LEMMA IsOnExcept ==
    ASSUME NEW f, NEW S, IsOn(f, S), NEW x \in S, NEW v
    PROVE  /\ IsOn([f EXCEPT ![x] = v], S)
           /\ [f EXCEPT ![x] = v][x] = v
           /\ \A y \in S : y # x => [f EXCEPT ![x] = v][y] = f[y]
BY DEF IsOn

LEMMA CarryInit == Init => CarryInv
<1> SUFFICES ASSUME Init PROVE CarryInv
    OBVIOUS
<1>1. 1 \in Days
    BY IngestConstants DEF Days
<1>2. IsOn([d \in Days |-> NoCarry], Days) /\ IsOn([p \in Procs |-> NoCarry], Procs)
    BY Zenon DEF IsOn
<1>3. Shape
    BY <1>1, <1>2 DEF Init, Shape, Statements
<1> QED
    BY <1>3 DEF Init, CarryInv

LEMMA CarryKept ==
    ASSUME CarryInv, Shape', UNCHANGED <<staging, lost>>,
           good' \subseteq good, sound' \subseteq sound,
           \A q \in sound' : /\ carry'[q] = carry[q] /\ day'[q] = day[q]
                             /\ pc'[q] \in Running
                             /\ pc'[q] \in Staged => pc[q] \in Staged
    PROVE  CarryInv'
<1>1. \A d : StagedInOrder(d)' <=> StagedInOrder(d)
    BY DEF StagedInOrder
<1>2. \A q \in sound' : RunsInOrder(q)'
    BY DEF CarryInv, RunsInOrder, StagedInOrder
<1>3. \A d \in good' : StagedInOrder(d)'
    BY <1>1 DEF CarryInv
<1> QED
    BY <1>2, <1>3 DEF CarryInv

(* Where a step of p leaves the others as they are, and p is sound no more. *)
LEMMA CarryLeft ==
    ASSUME CarryInv, NEW p \in Procs, UNCHANGED <<staging, lost>>,
           good' \subseteq good, sound' \subseteq sound \ {p},
           NEW s \in Statements, pc' = [pc EXCEPT ![p] = s],
           NEW d \in Days, day' = [day EXCEPT ![p] = d],
           \/ UNCHANGED carry
           \/ carry' = [carry EXCEPT ![p] = NoCarry]
    PROVE  CarryInv'
<1>1. IsOn(carry, Procs)'
    BY IsOnExcept DEF CarryInv, Shape
<1>2. Shape'
    BY <1>1 DEF CarryInv, Shape, IsOn
<1>3. \A q \in sound' : q \in sound /\ q \in Procs /\ q # p
    BY DEF CarryInv, Shape
<1>4. \A q \in sound' : carry'[q] = carry[q]
    BY <1>3, IsOnExcept DEF CarryInv, Shape
<1>5. \A q \in sound' : day'[q] = day[q] /\ pc'[q] = pc[q]
    BY <1>3 DEF CarryInv, Shape
<1>6. \A q \in sound' : pc'[q] \in Running
    BY <1>3, <1>5 DEF CarryInv, RunsInOrder
<1> QED
    BY <1>2, <1>4, <1>5, <1>6, CarryKept

(* Where p goes on to its next statement. *)
LEMMA CarryMoves ==
    ASSUME CarryInv, NEW p \in Procs, UNCHANGED <<staging, lost, carry, day>>,
           good' \subseteq good, sound' \subseteq sound,
           NEW s \in Running, pc' = [pc EXCEPT ![p] = s],
           s \in Staged => pc[p] \in Staged
    PROVE  CarryInv'
<1>1. Running \subseteq Statements
    BY DEF Running, Statements
<1>2. Shape'
    BY <1>1 DEF CarryInv, Shape, IsOn
<1>3. \A q \in sound' : q \in sound /\ q \in Procs
    BY DEF CarryInv, Shape
<1>4. \A q \in sound' : pc'[q] = IF q = p THEN s ELSE pc[q]
    BY <1>3 DEF CarryInv, Shape
<1>5. \A q \in sound' : /\ pc'[q] \in Running
                        /\ pc'[q] \in Staged => pc[q] \in Staged
    BY <1>3, <1>4 DEF CarryInv, RunsInOrder
<1> QED
    BY <1>2, <1>5, CarryKept

LEMMA CarryQueue ==
    ASSUME CarryInv, UNCHANGED <<staging, lost, carry, day, pc, good, sound>>
    PROVE  CarryInv'
<1>1. Shape'
    BY DEF CarryInv, Shape, IsOn
<1>2. \A q \in sound' : pc'[q] \in Running
    BY DEF CarryInv, RunsInOrder
<1> QED
    BY <1>1, <1>2, CarryKept

LEMMA CarryBegin ==
    ASSUME CarryInv, NEW p \in Procs, NEW d \in Days, Begin(p, d)
    PROVE  CarryInv'
<1>1. p \notin sound
    BY DEF Begin, CarryInv, RunsInOrder, Running
<1>2. "staging" \in Statements
    BY DEF Statements
<1>3. sound' \subseteq sound \ {p}
    BY <1>1 DEF Begin
<1>4. /\ UNCHANGED <<staging, lost, carry, good>>
      /\ pc' = [pc EXCEPT ![p] = "staging"]
      /\ day' = [day EXCEPT ![p] = d]
    BY DEF Begin, Goto, marks
<1> QED
    BY <1>2, <1>3, <1>4, CarryLeft

LEMMA CarryReadExisting ==
    ASSUME CarryInv, NEW p \in Procs, ReadExisting(p)
    PROVE  CarryInv'
<1>1. /\ UNCHANGED <<staging, lost, carry, day, good, sound>>
      /\ pc' = [pc EXCEPT ![p] = "flush"]
    BY DEF ReadExisting, Goto, marks
<1>2. "flush" \in Running /\ "flush" \notin Staged
    BY DEF Running, Staged
<1> QED
    BY <1>1, <1>2, CarryMoves

LEMMA DisturbsLess ==
    ASSUME NEW p, NEW taken, Disturb(p, taken)
    PROVE  good' \subseteq good /\ sound' \subseteq sound
BY DEF Disturb

LEMMA CarryFlush ==
    ASSUME CarryInv, NEW p \in Procs, NEW ac \in Aircraft, Flush(p, ac)
    PROVE  CarryInv'
<1>1. UNCHANGED <<staging, lost, carry, day>> /\ pc[p] = "flush" /\ \E taken : Disturb(p, taken)
    BY DEF Flush, marks
<1>2. \/ pc' = [pc EXCEPT ![p] = "carry"]
      \/ pc' = [pc EXCEPT ![p] = "flush"]
    BY DEF Flush, Goto, CarryInv, Shape
<1>3. "carry" \in Running /\ "carry" \notin Staged /\ "flush" \in Running /\ "flush" \notin Staged
    BY DEF Running, Staged
<1> QED
    BY <1>1, <1>2, <1>3, DisturbsLess, CarryMoves

LEMMA CarryDeleteStale ==
    ASSUME CarryInv, NEW p \in Procs, DeleteStale(p)
    PROVE  CarryInv'
<1>1. /\ UNCHANGED <<staging, lost, carry, day>> /\ Disturb(p, {}) /\ pc[p] = "stale"
      /\ pc' = [pc EXCEPT ![p] = "stats"]
    BY DEF DeleteStale, Goto, marks
<1>2. "stats" \in Running /\ "stale" \in Staged
    BY DEF Running, Staged
<1> QED
    BY <1>1, <1>2, DisturbsLess, CarryMoves

LEMMA CarryUpsertStats ==
    ASSUME CarryInv, NEW p \in Procs, UpsertStats(p)
    PROVE  CarryInv'
<1>1. /\ UNCHANGED <<staging, lost, carry, day, good, sound>> /\ pc[p] = "stats"
      /\ pc' = [pc EXCEPT ![p] = "succeed"]
    BY DEF UpsertStats, Goto
<1>2. "succeed" \in Running /\ "stats" \in Staged
    BY DEF Running, Staged
<1> QED
    BY <1>1, <1>2, CarryMoves

LEMMA CarryLoadStaging ==
    ASSUME CarryInv, NEW p \in Procs, LoadStaging(p)
    PROVE  CarryInv'
<1>1. /\ UNCHANGED <<staging, lost, day, good>> /\ pc[p] = "staging"
      /\ pc' = [pc EXCEPT ![p] = "existing"]
    BY DEF LoadStaging, Goto, marks
<1>2. carry' = [carry EXCEPT ![p] = IF day[p] - 1 \in Days THEN staging[day[p] - 1] ELSE NoCarry]
    BY DEF LoadStaging
<1>3. day[p] \in Days
    BY DEF CarryInv, Shape
<1>4. CASE day[p] = 1 \/ day[p] - 1 \in good \ lost
  <2>1. carry'[p] = InOrderCarry[day[p] - 1]
    <3>1. carry'[p] = IF day[p] - 1 \in Days THEN staging[day[p] - 1] ELSE NoCarry
        BY <1>2, IsOnExcept DEF CarryInv, Shape
    <3>2. CASE day[p] = 1
      <4>1. day[p] - 1 = 0 /\ 0 \notin Days
          BY <3>2, Constants
      <4> QED
          BY <3>1, <4>1, InOrderCarryStep
    <3>3. CASE day[p] - 1 \in good \ lost
      <4>1. day[p] - 1 \in Days
          BY <3>3 DEF CarryInv, Shape
      <4>2. staging[day[p] - 1] = InOrderCarry[day[p] - 1]
          BY <3>3 DEF CarryInv, StagedInOrder
      <4> QED
          BY <3>1, <4>1, <4>2
    <3> QED
        BY <1>4, <3>2, <3>3
  <2>2. sound' = sound \cup {p}
      BY <1>4 DEF LoadStaging
  <2>3. IsOn(carry, Procs)'
      BY <1>2, IsOnExcept DEF CarryInv, Shape
  <2>4. "existing" \in Statements /\ "existing" \in Running /\ "existing" \notin Staged
      BY DEF Statements, Running, Staged
  <2>5. Shape'
      BY <1>1, <2>2, <2>3, <2>4 DEF CarryInv, Shape, IsOn
  <2>6. pc'[p] = "existing" /\ \A q \in Procs : q # p => pc'[q] = pc[q] /\ carry'[q] = carry[q]
      BY <1>1, <1>2, IsOnExcept DEF CarryInv, Shape
  <2>7. \A d : StagedInOrder(d)' <=> StagedInOrder(d)
      BY <1>1 DEF StagedInOrder
  <2>8. RunsInOrder(p)'
      BY <1>1, <2>1, <2>4, <2>6 DEF RunsInOrder
  <2>9. \A q \in sound' : RunsInOrder(q)'
    <3>1. TAKE q \in sound'
    <3>2. CASE q # p
      <4>1. q \in sound /\ q \in Procs
          BY <2>2, <3>2 DEF CarryInv, Shape
      <4>2. RunsInOrder(q)
          BY <4>1 DEF CarryInv
      <4>3. pc'[q] = pc[q] /\ carry'[q] = carry[q] /\ day'[q] = day[q]
          BY <1>1, <2>6, <3>2, <4>1
      <4> QED
          BY <2>7, <4>2, <4>3 DEF RunsInOrder
    <3> QED
        BY <2>8, <3>2
  <2> QED
      BY <1>1, <2>5, <2>7, <2>9 DEF CarryInv
<1>5. CASE ~(day[p] = 1 \/ day[p] - 1 \in good \ lost)
  <2>1. p \notin sound
      BY <1>1 DEF CarryInv, RunsInOrder, Running
  <2>2. sound' = sound
      BY <1>5 DEF LoadStaging
  <2>3. IsOn(carry, Procs)'
      BY <1>2, IsOnExcept DEF CarryInv, Shape
  <2>4. "existing" \in Statements
      BY DEF Statements
  <2>5. Shape'
      BY <1>1, <2>2, <2>3, <2>4 DEF CarryInv, Shape, IsOn
  <2>6. \A q \in sound : q \in Procs /\ q # p
      BY <2>1 DEF CarryInv, Shape
  <2>7. \A q \in sound : pc'[q] = pc[q] /\ carry'[q] = carry[q] /\ pc[q] \in Running
      BY <1>1, <1>2, <2>6, IsOnExcept DEF CarryInv, Shape, RunsInOrder
  <2> QED
      BY <1>1, <2>2, <2>5, <2>7, CarryKept
<1> QED
    BY <1>4, <1>5

(* Only a sound run leaves its day among the good, and it stages the carry *)
(* of an undisturbed ingestion.                                            *)
LEMMA CarryWriteStaging ==
    ASSUME CarryInv, NEW p \in Procs, WriteStaging(p)
    PROVE  CarryInv'
<1>0. PICK e \in Days : e = day[p]
    BY DEF CarryInv, Shape
<1>1. /\ UNCHANGED <<carry, day>> /\ pc[p] = "carry"
      /\ pc' = [pc EXCEPT ![p] = "stale"]
      /\ Disturb(p, {})
    BY DEF WriteStaging, Goto
<1>2. e \in Days /\ day[p] = e
    BY <1>0
<1>3. /\ IsOn(staging, Days)'
      /\ \A d \in Days : d # e => staging'[d] = staging[d] /\ (d \in lost' <=> d \in lost)
      /\ CarryFound(p) # NoCarry => staging'[e] = CarryFound(p)
      /\ CarryFound(p) = NoCarry => staging'[e] = staging[e]
      /\ e \notin lost' => ~LeavesOldCarry(p)
    BY <1>2, IsOnExcept DEF WriteStaging, CarryInv, Shape
<1>4. p \in sound => StagedInOrder(e)'
  <2> SUFFICES ASSUME p \in sound, e \notin lost'
               PROVE  staging'[e] = InOrderCarry[e]
      BY DEF StagedInOrder
  <2>1. CarryFound(p) = InOrderCarry[e]
      BY <1>2, FindsInOrder DEF CarryInv, RunsInOrder
  <2>2. CASE CarryFound(p) # NoCarry
      BY <1>3, <2>1, <2>2
  <2>3. CASE CarryFound(p) = NoCarry
      BY <1>2, <1>3, <2>1, <2>3 DEF LeavesOldCarry
  <2> QED
      BY <2>2, <2>3
<1>5. \A d \in Days : d # e => (StagedInOrder(d)' <=> StagedInOrder(d))
    BY <1>3 DEF StagedInOrder
<1>6. good' \subseteq good /\ sound' \subseteq sound
    BY <1>1, DisturbsLess
<1>7. "stale" \in Statements /\ "stale" \in Running /\ "carry" \notin Staged
    BY DEF Statements, Running, Staged
<1>8. Shape'
    BY <1>1, <1>3, <1>6, <1>7 DEF CarryInv, Shape, IsOn
<1>9. \A d \in good' : StagedInOrder(d)'
  <2>1. e \in good' => p \in sound
      BY <1>1, <1>2 DEF Disturb, Overrides
  <2>2. \A d \in good' : d \in good /\ d \in Days
      BY <1>6 DEF CarryInv, Shape
  <2> QED
      BY <1>4, <1>5, <2>1, <2>2 DEF CarryInv
<1>10. \A q \in sound' : RunsInOrder(q)'
  <2>1. TAKE q \in sound'
  <2>2. q \in sound /\ q \in Procs /\ day[q] \in Days
      BY <1>6 DEF CarryInv, Shape
  <2>3. RunsInOrder(q)
      BY <2>2 DEF CarryInv
  <2>4. carry'[q] = carry[q] /\ day'[q] = day[q] /\ pc'[q] = IF q = p THEN "stale" ELSE pc[q]
      BY <1>1, <2>2 DEF CarryInv, Shape
  <2>5. CASE q = p
    <3>1. day'[q] = e
        BY <1>2, <2>4, <2>5
    <3> QED
        BY <1>4, <1>7, <2>2, <2>3, <2>4, <2>5, <3>1 DEF RunsInOrder, StagedInOrder
  <2>6. CASE q # p /\ day[q] # e
      BY <1>3, <2>2, <2>3, <2>4, <2>6 DEF RunsInOrder, StagedInOrder
  <2>7. CASE q # p /\ day[q] = e
    <3>1. p \in sound
        BY <1>1, <1>2, <2>1, <2>7 DEF Disturb, Overrides
    <3> QED
        BY <1>4, <2>3, <2>4, <2>7, <3>1 DEF RunsInOrder, StagedInOrder
  <2> QED
      BY <2>5, <2>6, <2>7
<1> QED
    BY <1>8, <1>9, <1>10 DEF CarryInv

LEMMA FinishEffect ==
    ASSUME CarryInv, NEW p \in Procs, NEW outcome, NEW s \in Statements, Finish(p, outcome, s)
    PROVE  /\ 1 \in Days /\ day' = [day EXCEPT ![p] = 1]
           /\ carry' = [carry EXCEPT ![p] = NoCarry]
           /\ pc' = [pc EXCEPT ![p] = s]
           /\ sound' \subseteq sound \ {p}
<1>1. 1 \in Days
    BY IngestConstants DEF Days
<1> QED
    BY <1>1 DEF Finish, Forget, Goto

LEMMA CarrySucceed ==
    ASSUME CarryInv, NEW p \in Procs, Succeed(p)
    PROVE  CarryInv'
<1>1. "purge" \in Statements /\ "succeed" \in Staged
    BY DEF Statements, Staged
<1>2. /\ 1 \in Days /\ day' = [day EXCEPT ![p] = 1]
      /\ carry' = [carry EXCEPT ![p] = NoCarry]
      /\ pc' = [pc EXCEPT ![p] = "purge"]
      /\ sound' \subseteq sound \ {p}
    BY <1>1, FinishEffect DEF Succeed
<1>3. UNCHANGED <<staging, lost>> /\ pc[p] = "succeed"
    BY DEF Succeed
<1>4. \A d : StagedInOrder(d)' <=> StagedInOrder(d)
    BY <1>3 DEF StagedInOrder
<1>5. \A d \in good' : d \in Days /\ StagedInOrder(d)
  <2>1. p \in sound => StagedInOrder(day[p])
      BY <1>1, <1>3 DEF CarryInv, RunsInOrder
  <2>2. day[p] \in Days /\ \A d \in good : d \in Days /\ StagedInOrder(d)
      BY DEF CarryInv, Shape
  <2> QED
      BY <2>1, <2>2 DEF Succeed
<1>6. IsOn(carry, Procs)'
    BY <1>2, IsOnExcept DEF CarryInv, Shape
<1>7. Shape'
    BY <1>1, <1>2, <1>3, <1>5, <1>6 DEF CarryInv, Shape, IsOn
<1>8. \A q \in sound' : RunsInOrder(q)'
  <2>1. TAKE q \in sound'
  <2>2. q \in sound /\ q \in Procs /\ q # p
      BY <1>2 DEF CarryInv, Shape
  <2>3. carry'[q] = carry[q] /\ day'[q] = day[q] /\ pc'[q] = pc[q]
      BY <1>2, <2>2, IsOnExcept DEF CarryInv, Shape
  <2>4. RunsInOrder(q)
      BY <2>2 DEF CarryInv
  <2> QED
      BY <1>4, <2>3, <2>4 DEF RunsInOrder
<1> QED
    BY <1>4, <1>5, <1>7, <1>8 DEF CarryInv

LEMMA CarryFail ==
    ASSUME CarryInv, NEW p \in Procs, Fail(p)
    PROVE  CarryInv'
<1>1. "idle" \in Statements
    BY DEF Statements
<1>2. /\ 1 \in Days /\ day' = [day EXCEPT ![p] = 1]
      /\ carry' = [carry EXCEPT ![p] = NoCarry]
      /\ pc' = [pc EXCEPT ![p] = "idle"]
      /\ sound' \subseteq sound \ {p}
    BY <1>1, FinishEffect DEF Fail
<1>3. UNCHANGED <<staging, lost, good>>
    BY DEF Fail, marks
<1> QED
    BY <1>1, <1>2, <1>3, CarryLeft

LEMMA CarryCrash ==
    ASSUME CarryInv, NEW p \in Procs, Crash(p)
    PROVE  CarryInv'
<1>1. "idle" \in Statements /\ 1 \in Days
    BY IngestConstants DEF Statements, Days
<1>2. /\ day' = [day EXCEPT ![p] = 1]
      /\ carry' = [carry EXCEPT ![p] = NoCarry]
      /\ pc' = [pc EXCEPT ![p] = "idle"]
      /\ sound' \subseteq sound \ {p}
      /\ UNCHANGED <<staging, lost, good>>
    BY DEF Crash, Forget, Goto, marks
<1> QED
    BY <1>1, <1>2, CarryLeft

LEMMA CarryPurge ==
    ASSUME CarryInv, NEW p \in Procs, PurgeExpiredStaging(p)
    PROVE  CarryInv'
<1>1. PICK last \in 0..MaxExpired :
          /\ staging' = [d \in Days |-> IF d <= last THEN NoCarry ELSE staging[d]]
          /\ lost' = lost \cup 1..last
    BY DEF PurgeExpiredStaging
<1>2. /\ UNCHANGED <<carry, day, good, sound>> /\ pc[p] = "purge"
      /\ pc' = [pc EXCEPT ![p] = "idle"]
    BY DEF PurgeExpiredStaging, Goto
<1>3. \A d \in Days : StagedInOrder(d) => StagedInOrder(d)'
  <2>1. \A d \in Days : d <= last => d \in lost'
      BY <1>1, IngestConstants DEF Days
  <2> QED
      BY <1>1, <2>1 DEF StagedInOrder
<1>4. "idle" \in Statements
    BY DEF Statements
<1>5. IsOn(staging, Days)'
    BY <1>1 DEF IsOn
<1>6. Shape'
    BY <1>2, <1>4, <1>5 DEF CarryInv, Shape, IsOn
<1>7. \A q \in sound' : RunsInOrder(q)'
  <2>1. TAKE q \in sound'
  <2>2. q \in sound /\ q \in Procs /\ q # p
      BY <1>2 DEF CarryInv, Shape, RunsInOrder, Running
  <2>3. carry'[q] = carry[q] /\ day'[q] = day[q] /\ pc'[q] = pc[q] /\ day[q] \in Days
      BY <1>2, <2>2 DEF CarryInv, Shape
  <2>4. RunsInOrder(q)
      BY <2>2 DEF CarryInv
  <2> QED
      BY <1>3, <2>3, <2>4 DEF RunsInOrder
<1>8. \A d \in good' : StagedInOrder(d)'
    BY <1>2, <1>3 DEF CarryInv, Shape
<1> QED
    BY <1>6, <1>7, <1>8 DEF CarryInv

LEMMA CarryStays ==
    ASSUME CarryInv, [Next]_vars
    PROVE  CarryInv'
<1>1. CASE UNCHANGED vars
    BY <1>1, CarryQueue DEF vars, marks
<1>2. CASE BeginScheduled
    BY <1>2, CarryBegin DEF BeginScheduled
<1>3. CASE \E d \in Days : BeginManual(d)
    BY <1>3, CarryBegin DEF BeginManual
<1>4. CASE Poll
    BY <1>4, CarryQueue DEF Poll, marks
<1>5. CASE SkipRelease
    BY <1>5, CarryQueue DEF SkipRelease, marks
<1>6. ASSUME NEW p \in Procs, RunStep(p) PROVE CarryInv'
    BY <1>6, CarryLoadStaging, CarryReadExisting, CarryFlush, CarryWriteStaging, CarryDeleteStale,
       CarryUpsertStats, CarrySucceed, CarryPurge DEF RunStep
<1>7. ASSUME NEW p \in Procs, Fail(p) PROVE CarryInv'
    BY <1>7, CarryFail
<1>8. ASSUME NEW p \in Procs, Crash(p) PROVE CarryInv'
    BY <1>8, CarryCrash
<1>9. ASSUME NEW p \in Procs, NEW d \in Days, FetchFails(p, d) PROVE CarryInv'
    BY <1>9, CarryQueue DEF FetchFails, marks
<1> QED
    BY <1>1, <1>2, <1>3, <1>4, <1>5, <1>6, <1>7, <1>8, <1>9 DEF Next

(* The carry in flight_staging of a day that ended well on a good carry is *)
(* the one that an undisturbed ingestion of the days would have staged,    *)
(* whatever runs, failures, deaths and purges there were: for any traces,  *)
(* any number of days and aircraft, and any bounds on faults.              *)
THEOREM CarriesAreInOrder == Spec => []GoodCarry
<1>1. Init => CarryInv
    BY CarryInit
<1>2. CarryInv /\ [Next]_vars => CarryInv'
    BY CarryStays
<1>3. CarryInv => GoodCarry
  <2> SUFFICES ASSUME CarryInv, NEW d \in good \ lost PROVE staging[d] = Carries[d]
      BY DEF GoodCarry
  <2>1. d \in 0..LastDay
      BY Constants DEF CarryInv, Shape
  <2>2. staging[d] = InOrderCarry[d]
      BY DEF CarryInv, StagedInOrder
  <2> QED
      BY <2>1, <2>2, InOrderCarryStep
<1> QED
    BY <1>1, <1>2, <1>3, PTL DEF Spec

-----------------------------------------------------------------------------
(* The timeline.  What the table of an aircraft is after each day: *)

LEMMA SnapshotStep ==
    /\ \A ac \in Aircraft : Snapshots[ac][0] = {}
    /\ \A ac \in Aircraft, d \in Days :
           Snapshots[ac][d] = Upsert(Snapshots[ac][d - 1], FlightsOf(d, ac, InOrderCarry[d - 1][ac]))
<1>1. \A d \in 0..LastDay : InOrderFlights[d] = FlightsStep(InOrderFlights, d)
    BY InOrderFlightsDef, Zenon
<1>2. \A ac \in Aircraft, d \in 0..LastDay : Snapshots[ac][d] = InOrderFlights[d][ac]
    BY Zenon DEF Snapshots
<1>3. 0 \in 0..LastDay /\ \A d \in Days : d \in 0..LastDay /\ d - 1 \in 0..LastDay /\ d # 0
    BY Constants
<1>4. ASSUME NEW ac \in Aircraft PROVE Snapshots[ac][0] = {}
  <2>1. FlightsStep(InOrderFlights, 0)[ac] = {}
      BY Zenon DEF FlightsStep
  <2> QED
      BY <1>1, <1>2, <1>3, <2>1
<1>5. ASSUME NEW ac \in Aircraft, NEW d \in Days
      PROVE  Snapshots[ac][d] = Upsert(Snapshots[ac][d - 1], FlightsOf(d, ac, InOrderCarry[d - 1][ac]))
  <2>1. FlightsStep(InOrderFlights, d)[ac]
            = Upsert(InOrderFlights[d - 1][ac], FlightsOf(d, ac, InOrderCarry[d - 1][ac]))
      BY <1>3, Zenon DEF FlightsStep
  <2> QED
      BY <1>1, <1>2, <1>3, <2>1
<1> QED
    BY <1>4, <1>5

LEMMA RowsOfFlights ==
    ASSUME NEW d, NEW ac, NEW base
    PROVE  \A r \in FlightsOf(d, ac, base) : r.ac = ac /\ r.batch = d /\ Key(r)[1] = ac
BY DEF FlightsOf, Key

LEMMA SnapshotRows ==
    \A n \in 0..LastDay, ac \in Aircraft :
        \A r \in Snapshots[ac][n] : r.ac = ac /\ r.batch \in Int /\ r.batch <= n
<1> DEFINE Rows(n) == \A ac \in Aircraft : \A r \in Snapshots[ac][n] :
                          r.ac = ac /\ r.batch \in Int /\ r.batch <= n
           S == {n \in Nat : n \in 0..LastDay => Rows(n)}
<1>1. 0 \in S
    BY SnapshotStep
<1>2. ASSUME NEW n \in Nat, n \in S PROVE n + 1 \in S
  <2> DEFINE d == n + 1
  <2> SUFFICES ASSUME d \in 0..LastDay, NEW ac \in Aircraft, NEW r \in Snapshots[ac][d]
               PROVE  r.ac = ac /\ r.batch \in Int /\ r.batch <= d
      OBVIOUS
  <2>1. d \in Days /\ d - 1 = n /\ n \in 0..LastDay
      BY Constants
  <2>2. Rows(n)
      BY <1>2, <2>1
  <2> DEFINE new == FlightsOf(d, ac, InOrderCarry[n][ac])
  <2>3. Snapshots[ac][d] = Upsert(Snapshots[ac][n], new)
    <3> HIDE DEF d
    <3> QED
        BY <2>1, SnapshotStep
  <2>4. r \in Snapshots[ac][n] \/ r \in new
      BY <2>3 DEF Upsert
  <2>5. CASE r \in Snapshots[ac][n]
      BY <2>2, <2>5
  <2>6. CASE r \in new
      BY <2>6, RowsOfFlights
  <2> QED
      BY <2>4, <2>5, <2>6
<1>3. Nat \subseteq S
  <2> HIDE DEF S
  <2> QED
      BY <1>1, <1>2, SetInduction
<1> QED
    BY <1>3

(* Writing the same flights again changes nothing. *)
LEMMA UpsertTwice ==
    ASSUME NEW X, NEW F
    PROVE  Upsert(Upsert(X, F), F) = Upsert(X, F)
BY DEF Upsert

-----------------------------------------------------------------------------
(* The scheduled import on its own, with processes that may die at any     *)
(* statement: no batch fails, no release is missing and no carry expires.  *)

Alone == Procs = {"cron"} /\ MaxErrors = 0 /\ MaxExpired = 0

Resting == {"idle", "purge"}

CronTypes ==
    /\ status \in [Days -> Statuses]
    /\ IsOn(staging, Days) /\ IsOn(carry, Procs)
    /\ pc \in [Procs -> Statements]
    /\ day \in [Procs -> Days]
    /\ done \in [Procs -> SUBSET Aircraft]
    /\ budget \in [runs : Int, crashes : Int, errors : {0}]

(* Days 1..n have been ingested, and n + 1 may be under way, or have been  *)
(* when the process died.                                                  *)
QueueAt(n) ==
    /\ \A d \in Days : status[d] = "succeeded" <=> d <= n
    /\ pc["cron"] \in Resting => next \in {n + 1, LastDay + 1}
    /\ pc["cron"] \notin Resting =>
           n + 1 \in Days /\ day["cron"] = n + 1 /\ next = n + 2 /\ status[n + 1] = "running"

CarriesAt(n) ==
    /\ \A d \in Days : /\ d <= n => staging[d] = InOrderCarry[d]
                       /\ d = n + 1 => staging[d] \in {NoCarry, InOrderCarry[d]}
                       /\ d > n + 1 => staging[d] = NoCarry
    /\ pc["cron"] \in Running => carry["cron"] = InOrderCarry[n]
    /\ pc["cron"] \in Staged => staging[n + 1] = InOrderCarry[n + 1]

FlightsOn(ac) == {r \in flights : r.ac = ac}

TableAt(n) ==
    /\ \A r \in flights : r.ac \in Aircraft
    /\ \A ac \in Aircraft :
           \/ FlightsOn(ac) = Snapshots[ac][n]
           \/ n + 1 \in Days /\ FlightsOn(ac) = Snapshots[ac][n + 1]
    /\ pc["cron"] \notin Running => done["cron"] = {}
    /\ \A ac \in done["cron"] : FlightsOn(ac) = Snapshots[ac][n + 1]
    /\ pc["cron"] \in Staged \cup {"carry"} => done["cron"] = Aircraft

CronAt(n) == CronTypes /\ QueueAt(n) /\ CarriesAt(n) /\ TableAt(n)

CronInv == \E n \in 0..LastDay : CronAt(n)

LEMMA CronInit == Alone /\ Init => CronAt(0)
<1> SUFFICES ASSUME Alone, Init PROVE CronAt(0)
    OBVIOUS
<1>1. 1 \in Days /\ \A d \in Days : d \in Int /\ d > 0
    BY IngestConstants DEF Days
<1>2. IsOn([d \in Days |-> NoCarry], Days) /\ IsOn([p \in Procs |-> NoCarry], Procs)
    BY Zenon DEF IsOn
<1>3. CronTypes
  <2>1. budget \in [runs : Int, crashes : Int, errors : {0}]
      BY IngestConstants DEF Init, Alone
  <2> QED
      BY <1>1, <1>2, <2>1 DEF CronTypes, Init, Statements, Statuses
<1>4. pc["cron"] = "idle" /\ done["cron"] = {}
    BY DEF Init, Alone
<1>5. QueueAt(0)
    BY <1>1, <1>4 DEF QueueAt, Init, Resting
<1>6. CarriesAt(0)
    BY <1>1, <1>4 DEF CarriesAt, Init, Running, Staged
<1>7. TableAt(0)
  <2>1. \A ac \in Aircraft : FlightsOn(ac) = Snapshots[ac][0]
      BY SnapshotStep DEF FlightsOn, Init
  <2> QED
      BY <1>4, <2>1 DEF TableAt, Init, Staged
<1> QED
    BY <1>3, <1>5, <1>6, <1>7 DEF CronAt

(* Steps that touch neither the carries nor the table. *)
LEMMA CronIdles ==
    ASSUME NEW n \in 0..LastDay, CronAt(n), UNCHANGED <<staging, flights, carry, done>>,
           CronTypes', QueueAt(n)',
           pc'["cron"] \in Running => pc["cron"] \in Running,
           pc'["cron"] \in Staged => pc["cron"] \in Staged,
           pc'["cron"] \in Staged \cup {"carry"} => pc["cron"] \in Staged \cup {"carry"},
           pc'["cron"] \notin Running => done["cron"] = {}
    PROVE  CronAt(n)'
<1>1. CarriesAt(n)'
    BY DEF CronAt, CarriesAt
<1>2. \A ac : FlightsOn(ac)' = FlightsOn(ac)
    BY DEF FlightsOn
<1>3. TableAt(n)'
    BY <1>2 DEF CronAt, TableAt
<1> QED
    BY <1>1, <1>3 DEF CronAt

LEMMA CronBegin ==
    ASSUME Alone, NEW n \in 0..LastDay, CronAt(n), BeginScheduled
    PROVE  CronAt(n)'
<1>1. /\ pc["cron"] = "idle" /\ next \in Days
      /\ UNCHANGED <<staging, flights, carry, done>>
      /\ budget' = [budget EXCEPT !.runs = @ - 1]
      /\ status' = [status EXCEPT ![next] = "running"]
      /\ day' = [day EXCEPT !["cron"] = next]
      /\ pc' = [pc EXCEPT !["cron"] = "staging"]
      /\ next' = next + 1
    BY DEF BeginScheduled, Begin, Goto
<1>2. next = n + 1
    BY <1>1, Constants DEF CronAt, QueueAt, Resting
<1>3. "cron" \in Procs /\ pc'["cron"] = "staging" /\ day'["cron"] = n + 1
    BY <1>1, <1>2 DEF Alone, CronAt, CronTypes
<1>4. CronTypes'
  <2>1. budget' \in [runs : Int, crashes : Int, errors : {0}]
      BY <1>1 DEF CronAt, CronTypes
  <2>2. IsOn(staging, Days)' /\ IsOn(carry, Procs)'
      BY <1>1 DEF CronAt, CronTypes, IsOn
  <2>3. pc' \in [Procs -> Statements] /\ status' \in [Days -> Statuses]
      BY <1>1 DEF CronAt, CronTypes, Statements, Statuses
  <2> QED
      BY <1>1, <2>1, <2>2, <2>3 DEF CronAt, CronTypes
<1>5. QueueAt(n)'
  <2>1. \A d \in Days : d # n + 1 => status'[d] = status[d]
      BY <1>1, <1>2 DEF CronAt, CronTypes
  <2>2. status'[n + 1] = "running"
      BY <1>1, <1>2 DEF CronAt, CronTypes
  <2>3. \A d \in Days : status'[d] = "succeeded" <=> d <= n
      BY <2>1, <2>2, Constants DEF CronAt, QueueAt
  <2> QED
      BY <1>1, <1>2, <1>3, <2>2, <2>3 DEF QueueAt, Resting
<1>6. done["cron"] = {}
    BY <1>1 DEF CronAt, TableAt, Running
<1> QED
    BY <1>1, <1>3, <1>4, <1>5, <1>6, CronIdles DEF Running, Staged

LEMMA CronPoll ==
    ASSUME Alone, NEW n \in 0..LastDay, CronAt(n), Poll
    PROVE  CronAt(n)'
<1>1. /\ pc["cron"] = "idle"
      /\ UNCHANGED <<staging, flights, carry, done, budget, status, day, pc>>
      /\ next' = Max({0} \cup {d \in Days : status[d] = "succeeded"}) + 1
    BY DEF Poll
<1>2. Max({0} \cup {d \in Days : status[d] = "succeeded"}) = n
  <2>1. {0} \cup {d \in Days : status[d] = "succeeded"} = 0..n
      BY Constants DEF CronAt, QueueAt
  <2>2. Max(0..n) = n
      BY DEF Max
  <2> QED
      BY <2>1, <2>2
<1>3. CronTypes'
    BY <1>1 DEF CronAt, CronTypes, IsOn
<1>4. QueueAt(n)'
    BY <1>1, <1>2 DEF CronAt, QueueAt, Resting
<1>5. done["cron"] = {}
    BY <1>1 DEF CronAt, TableAt, Running
<1> QED
    BY <1>1, <1>3, <1>4, <1>5, CronIdles

LEMMA CronReadExisting ==
    ASSUME Alone, NEW n \in 0..LastDay, CronAt(n), ReadExisting("cron")
    PROVE  CronAt(n)'
<1>1. /\ pc["cron"] = "existing" /\ pc' = [pc EXCEPT !["cron"] = "flush"]
      /\ UNCHANGED <<staging, flights, carry, done, budget, status, day, next>>
    BY DEF ReadExisting, Goto
<1>2. "cron" \in Procs /\ pc'["cron"] = "flush"
    BY <1>1 DEF Alone, CronAt, CronTypes
<1>3. CronTypes'
    BY <1>1 DEF CronAt, CronTypes, IsOn, Statements
<1>4. QueueAt(n)'
    BY <1>1, <1>2 DEF CronAt, QueueAt, Resting
<1> QED
    BY <1>1, <1>2, <1>3, <1>4, CronIdles DEF Running, Staged

LEMMA CronUpsertStats ==
    ASSUME Alone, NEW n \in 0..LastDay, CronAt(n), UpsertStats("cron")
    PROVE  CronAt(n)'
<1>1. /\ pc["cron"] = "stats" /\ pc' = [pc EXCEPT !["cron"] = "succeed"]
      /\ UNCHANGED <<staging, flights, carry, done, budget, status, day, next>>
    BY DEF UpsertStats, Goto
<1>2. "cron" \in Procs /\ pc'["cron"] = "succeed"
    BY <1>1 DEF Alone, CronAt, CronTypes
<1>3. CronTypes'
    BY <1>1 DEF CronAt, CronTypes, IsOn, Statements
<1>4. QueueAt(n)'
    BY <1>1, <1>2 DEF CronAt, QueueAt, Resting
<1> QED
    BY <1>1, <1>2, <1>3, <1>4, CronIdles DEF Running, Staged

LEMMA CronLoadStaging ==
    ASSUME Alone, NEW n \in 0..LastDay, CronAt(n), LoadStaging("cron")
    PROVE  CronAt(n)'
<1>1. /\ pc["cron"] = "staging" /\ pc' = [pc EXCEPT !["cron"] = "existing"]
      /\ UNCHANGED <<staging, flights, done, budget, status, day, next>>
      /\ carry' = [carry EXCEPT !["cron"] =
                      IF day["cron"] - 1 \in Days THEN staging[day["cron"] - 1] ELSE NoCarry]
    BY DEF LoadStaging, Goto
<1>2. "cron" \in Procs /\ pc'["cron"] = "existing"
    BY <1>1 DEF Alone, CronAt, CronTypes
<1>3. day["cron"] - 1 = n /\ n + 1 \in Days
    BY <1>1 DEF CronAt, QueueAt, Resting
<1>4. carry'["cron"] = InOrderCarry[n]
  <2>1. carry'["cron"] = IF n \in Days THEN staging[n] ELSE NoCarry
      BY <1>1, <1>2, <1>3, IsOnExcept DEF CronAt, CronTypes
  <2>2. CASE n \in Days
      BY <2>1, <2>2 DEF CronAt, CarriesAt
  <2>3. CASE n \notin Days
    <3>1. n = 0
        BY <2>3, IngestConstants DEF Days
    <3> QED
        BY <2>1, <2>3, <3>1, InOrderCarryStep
  <2> QED
      BY <2>2, <2>3
<1>5. IsOn(carry, Procs)'
  <2>1. PICK v : carry' = [carry EXCEPT !["cron"] = v]
      BY <1>1
  <2>2. IsOn(carry, Procs)
      BY DEF CronAt, CronTypes
  <2> QED
      BY <1>2, <2>1, <2>2 DEF IsOn
<1>6. CronTypes'
  <2>1. IsOn(staging, Days)'
      BY <1>1 DEF CronAt, CronTypes, IsOn
  <2>2. pc' \in [Procs -> Statements]
      BY <1>1 DEF CronAt, CronTypes, Statements
  <2>3. /\ status' \in [Days -> Statuses] /\ day' \in [Procs -> Days]
        /\ done' \in [Procs -> SUBSET Aircraft]
        /\ budget' \in [runs : Int, crashes : Int, errors : {0}]
      BY <1>1 DEF CronAt, CronTypes
  <2> QED
      BY <1>5, <2>1, <2>2, <2>3, Zenon DEF CronTypes
<1>7. QueueAt(n)'
    BY <1>1, <1>2 DEF CronAt, QueueAt, Resting
<1>8. CarriesAt(n)'
    BY <1>1, <1>2, <1>4 DEF CronAt, CarriesAt, Staged
<1>9. \A ac : FlightsOn(ac)' = FlightsOn(ac)
    BY <1>1 DEF FlightsOn
<1>10. TableAt(n)'
    BY <1>1, <1>2, <1>9 DEF CronAt, TableAt, Running, Staged
<1> QED
    BY <1>6, <1>7, <1>8, <1>10 DEF CronAt

(* Writing flights of one aircraft leaves those of the others alone. *)
LEMMA UpsertOfOne ==
    ASSUME NEW F, NEW ac, \A r \in F : r.ac = ac, flights' = Upsert(flights, F)
    PROVE  /\ FlightsOn(ac)' = Upsert(FlightsOn(ac), F)
           /\ \A b : b # ac => FlightsOn(b)' = FlightsOn(b)
<1>1. \A r, n : Key(r) = Key(n) => r.ac = n.ac
    BY DEF Key
<1>2. FlightsOn(ac)' = Upsert(FlightsOn(ac), F)
    BY DEF Upsert, FlightsOn
<1>3. ASSUME NEW b, b # ac PROVE FlightsOn(b)' = FlightsOn(b)
    BY <1>1, <1>3 DEF Upsert, FlightsOn
<1> QED
    BY <1>2, <1>3

(* What a chunk does to the table: the aircraft goes on to the next day,   *)
(* or stays there when an earlier run got so far; the others stay.         *)
LEMMA CronFlushes ==
    ASSUME Alone, NEW n \in 0..LastDay, CronAt(n), NEW ac \in Aircraft, Flush("cron", ac)
    PROVE  /\ n + 1 \in Days
           /\ FlightsOn(ac)' = Snapshots[ac][n + 1]
           /\ \A b \in Aircraft : b # ac => FlightsOn(b)' = FlightsOn(b)
           /\ \A r \in flights' : r.ac \in Aircraft
<1>1. /\ pc["cron"] = "flush"
      /\ flights' = Upsert(flights, Split[day["cron"]][ac][carry["cron"][ac]].flights)
    BY DEF Flush
<1>2. n + 1 \in Days /\ day["cron"] = n + 1 /\ carry["cron"] = InOrderCarry[n]
    BY <1>1 DEF CronAt, QueueAt, CarriesAt, Resting, Running
<1>3. PICK d \in Days : d = n + 1
    BY <1>2
<1>4. d - 1 = n
    BY <1>3
<1>5. PICK F : F = FlightsOf(d, ac, InOrderCarry[n][ac])
    OBVIOUS
<1>6. flights' = Upsert(flights, F)
  <2>1. Split[d][ac][InOrderCarry[n][ac]].flights = F
    <3>1. F = FlightsOf(d, ac, InOrderCarry[d - 1][ac])
        BY <1>4, <1>5
    <3> QED
        BY <1>4, <3>1, SplitInOrder
  <2>2. Split[day["cron"]][ac][carry["cron"][ac]].flights = F
      BY <1>2, <1>3, <2>1
  <2> QED
      BY <1>1, <2>2
<1>7. \A r \in F : r.ac = ac
    BY <1>5, RowsOfFlights
<1>8. Snapshots[ac][d] = Upsert(Snapshots[ac][n], F)
    BY <1>4, <1>5, SnapshotStep
<1>9. FlightsOn(ac)' = Upsert(FlightsOn(ac), F)
    BY <1>6, <1>7, UpsertOfOne
<1>10. FlightsOn(ac) = Snapshots[ac][n] \/ FlightsOn(ac) = Snapshots[ac][d]
    BY <1>3 DEF CronAt, TableAt
<1>11. FlightsOn(ac)' = Snapshots[ac][d]
    BY <1>8, <1>9, <1>10, UpsertTwice
<1>12. \A b \in Aircraft : b # ac => FlightsOn(b)' = FlightsOn(b)
    BY <1>6, <1>7, UpsertOfOne
<1>13. \A r \in flights' : r.ac \in Aircraft
    BY <1>6, <1>7 DEF Upsert, CronAt, TableAt
<1> QED
    BY <1>3, <1>11, <1>12, <1>13

LEMMA CronFlush ==
    ASSUME Alone, NEW n \in 0..LastDay, CronAt(n), NEW ac \in Aircraft, Flush("cron", ac)
    PROVE  CronAt(n)'
<1>1. /\ pc["cron"] = "flush" /\ ac \notin done["cron"]
      /\ UNCHANGED <<staging, carry, budget, status, day, next>>
      /\ done' = [done EXCEPT !["cron"] = @ \cup {ac}]
      /\ IF done'["cron"] = Aircraft THEN pc' = [pc EXCEPT !["cron"] = "carry"] ELSE UNCHANGED pc
    BY DEF Flush, Goto
<1>2. "cron" \in Procs /\ pc \in [Procs -> Statements] /\ done \in [Procs -> SUBSET Aircraft]
    BY DEF Alone, CronAt, CronTypes
<1>3. done'["cron"] = done["cron"] \cup {ac} /\ done' \in [Procs -> SUBSET Aircraft]
    BY <1>1, <1>2
<1>4. pc' \in [Procs -> Statements] /\ pc'["cron"] \in {"flush", "carry"}
    BY <1>1, <1>2 DEF Statements
<1>5. pc'["cron"] = "carry" => done'["cron"] = Aircraft
    BY <1>1, <1>2
<1>6. CronTypes'
  <2>1. IsOn(staging, Days)' /\ IsOn(carry, Procs)'
      BY <1>1 DEF CronAt, CronTypes, IsOn
  <2>2. /\ status' \in [Days -> Statuses] /\ day' \in [Procs -> Days]
        /\ budget' \in [runs : Int, crashes : Int, errors : {0}]
      BY <1>1 DEF CronAt, CronTypes
  <2> QED
      BY <1>3, <1>4, <2>1, <2>2, Zenon DEF CronTypes
<1>7. QueueAt(n)'
    BY <1>1, <1>4 DEF CronAt, QueueAt, Resting
<1>8. CarriesAt(n)'
    BY <1>1, <1>4 DEF CronAt, CarriesAt, Running, Staged
<1>9. TableAt(n)'
  <2>1. /\ n + 1 \in Days
        /\ FlightsOn(ac)' = Snapshots[ac][n + 1]
        /\ \A b \in Aircraft : b # ac => FlightsOn(b)' = FlightsOn(b)
        /\ \A r \in flights' : r.ac \in Aircraft
      BY CronFlushes
  <2>2. \A b \in Aircraft : \/ FlightsOn(b)' = Snapshots[b][n]
                            \/ n + 1 \in Days /\ FlightsOn(b)' = Snapshots[b][n + 1]
      BY <2>1 DEF CronAt, TableAt
  <2>3. \A b \in done'["cron"] : FlightsOn(b)' = Snapshots[b][n + 1]
      BY <1>2, <1>3, <2>1 DEF CronAt, TableAt
  <2>4. pc'["cron"] \in Running /\ (pc'["cron"] \in Staged \cup {"carry"} => done'["cron"] = Aircraft)
      BY <1>4, <1>5 DEF Running, Staged
  <2> QED
      BY <2>1, <2>2, <2>3, <2>4 DEF TableAt
<1> QED
    BY <1>6, <1>7, <1>8, <1>9 DEF CronAt

LEMMA CronWriteStaging ==
    ASSUME Alone, NEW n \in 0..LastDay, CronAt(n), WriteStaging("cron")
    PROVE  CronAt(n)'
<1>1. /\ pc["cron"] = "carry" /\ pc' = [pc EXCEPT !["cron"] = "stale"]
      /\ UNCHANGED <<flights, carry, done, budget, status, day, next>>
      /\ staging' = IF CarryFound("cron") = NoCarry THEN staging
                    ELSE [staging EXCEPT ![day["cron"]] = CarryFound("cron")]
    BY DEF WriteStaging, Goto
<1>2. "cron" \in Procs /\ pc'["cron"] = "stale"
    BY <1>1 DEF Alone, CronAt, CronTypes
<1>3. n + 1 \in Days /\ day["cron"] = n + 1 /\ carry["cron"] = InOrderCarry[n]
    BY <1>1 DEF CronAt, QueueAt, CarriesAt, Resting, Running
<1>4. PICK d \in Days : d = n + 1 /\ d - 1 = n /\ day["cron"] = d
    BY <1>3
<1>5. CarryFound("cron") = InOrderCarry[d]
    BY <1>3, <1>4, FindsInOrder
<1>6. /\ IsOn(staging, Days)'
      /\ staging'[d] = InOrderCarry[d]
      /\ \A e \in Days : e # d => staging'[e] = staging[e]
  <2>1. IsOn(staging, Days) /\ staging[d] \in {NoCarry, InOrderCarry[d]}
      BY <1>4 DEF CronAt, CronTypes, CarriesAt
  <2>2. CASE CarryFound("cron") = NoCarry
    <3>1. staging' = staging
        BY <1>1, <2>2
    <3> QED
        BY <1>5, <2>1, <2>2, <3>1 DEF IsOn
  <2>3. CASE CarryFound("cron") # NoCarry
    <3>1. staging' = [staging EXCEPT ![d] = InOrderCarry[d]]
        BY <1>1, <1>4, <1>5, <2>3
    <3> QED
        BY <2>1, <3>1, IsOnExcept DEF IsOn
  <2> QED
      BY <2>2, <2>3
<1>7. CronTypes'
  <2>1. IsOn(carry, Procs)'
      BY <1>1 DEF CronAt, CronTypes, IsOn
  <2>2. pc' \in [Procs -> Statements]
      BY <1>1 DEF CronAt, CronTypes, Statements
  <2>3. /\ status' \in [Days -> Statuses] /\ day' \in [Procs -> Days]
        /\ done' \in [Procs -> SUBSET Aircraft]
        /\ budget' \in [runs : Int, crashes : Int, errors : {0}]
      BY <1>1 DEF CronAt, CronTypes
  <2> QED
      BY <1>6, <2>1, <2>2, <2>3, Zenon DEF CronTypes
<1>8. QueueAt(n)'
    BY <1>1, <1>2 DEF CronAt, QueueAt, Resting
<1>9. CarriesAt(n)'
  <2>1. \A e \in Days : /\ e <= n => staging'[e] = InOrderCarry[e]
                        /\ e = n + 1 => staging'[e] \in {NoCarry, InOrderCarry[e]}
                        /\ e > n + 1 => staging'[e] = NoCarry
      BY <1>4, <1>6, Constants DEF CronAt, CarriesAt
  <2> QED
      BY <1>1, <1>3, <1>4, <1>6, <2>1 DEF CarriesAt
<1>10. \A ac : FlightsOn(ac)' = FlightsOn(ac)
    BY <1>1 DEF FlightsOn
<1>11. TableAt(n)'
    BY <1>1, <1>2, <1>10 DEF CronAt, TableAt, Running, Staged
<1> QED
    BY <1>7, <1>8, <1>9, <1>11 DEF CronAt

(* Every row of the day under way is one that the run has written: there   *)
(* is nothing stale to delete.                                             *)
LEMMA CronNothingStale ==
    ASSUME Alone, NEW n \in 0..LastDay, CronAt(n), DeleteStale("cron")
    PROVE  flights' = flights
<1>1. /\ pc["cron"] = "stale"
      /\ flights' = {r \in flights :
            ~(Key(r) \in existing["cron"] \ {Key(s) : s \in Upserted("cron")} /\ r.batch = day["cron"])}
    BY DEF DeleteStale
<1>2. /\ n + 1 \in Days /\ day["cron"] = n + 1 /\ carry["cron"] = InOrderCarry[n]
      /\ done["cron"] = Aircraft
    BY <1>1 DEF CronAt, QueueAt, CarriesAt, TableAt, Resting, Running, Staged
<1>3. PICK d \in Days : d = n + 1 /\ d - 1 = n /\ day["cron"] = d
    BY <1>2
<1>4. ASSUME NEW r \in flights, r.batch = d PROVE r \in Upserted("cron")
  <2>1. PICK ac \in Aircraft : ac = r.ac
      BY DEF CronAt, TableAt
  <2>2. PICK F : F = FlightsOf(d, ac, InOrderCarry[n][ac])
      OBVIOUS
  <2>3. r \in Snapshots[ac][d]
    <3>1. FlightsOn(ac) = Snapshots[ac][d]
        BY <1>2, <1>3 DEF CronAt, TableAt
    <3> QED
        BY <2>1, <3>1 DEF FlightsOn
  <2>4. r \notin Snapshots[ac][n]
    <3>1. r \in Snapshots[ac][n] => r.batch <= n
        BY SnapshotRows
    <3> QED
        BY <1>3, <1>4, <3>1
  <2>5. Snapshots[ac][d] = Upsert(Snapshots[ac][n], F)
      BY <1>3, <2>2, SnapshotStep
  <2>6. r \in F
      BY <2>3, <2>4, <2>5 DEF Upsert
  <2>7. F = Split[d][ac][InOrderCarry[n][ac]].flights
      BY <1>3, <2>2, SplitInOrder
  <2>8. r \in Split[day["cron"]][ac][carry["cron"][ac]].flights
      BY <1>2, <1>3, <2>6, <2>7
  <2> QED
      BY <1>2, <2>8 DEF Upserted
<1> QED
    BY <1>1, <1>3, <1>4

LEMMA CronDeleteStale ==
    ASSUME Alone, NEW n \in 0..LastDay, CronAt(n), DeleteStale("cron")
    PROVE  CronAt(n)'
<1>1. /\ pc["cron"] = "stale" /\ pc' = [pc EXCEPT !["cron"] = "stats"]
      /\ UNCHANGED <<staging, carry, done, budget, status, day, next>>
    BY DEF DeleteStale, Goto
<1>2. "cron" \in Procs /\ pc'["cron"] = "stats"
    BY <1>1 DEF Alone, CronAt, CronTypes
<1>3. CronTypes'
    BY <1>1 DEF CronAt, CronTypes, IsOn, Statements
<1>4. QueueAt(n)'
    BY <1>1, <1>2 DEF CronAt, QueueAt, Resting
<1> QED
    BY <1>1, <1>2, <1>3, <1>4, CronIdles, CronNothingStale DEF Running, Staged

LEMMA CronPurge ==
    ASSUME Alone, NEW n \in 0..LastDay, CronAt(n), PurgeExpiredStaging("cron")
    PROVE  CronAt(n)'
<1>1. /\ pc["cron"] = "purge" /\ pc' = [pc EXCEPT !["cron"] = "idle"]
      /\ UNCHANGED <<flights, carry, done, budget, status, day, next>>
    BY DEF PurgeExpiredStaging, Goto
<1>2. staging' = staging
  <2>1. PICK last \in 0..0 : staging' = [d \in Days |-> IF d <= last THEN NoCarry ELSE staging[d]]
      BY DEF PurgeExpiredStaging, Alone
  <2>2. \A d \in Days : ~(d <= last)
      BY Constants
  <2>3. staging' = [d \in Days |-> staging[d]]
      BY <2>1, <2>2
  <2> QED
      BY <2>3, Zenon DEF CronAt, CronTypes, IsOn
<1>3. "cron" \in Procs /\ pc'["cron"] = "idle"
    BY <1>1 DEF Alone, CronAt, CronTypes
<1>4. CronTypes'
    BY <1>1, <1>2 DEF CronAt, CronTypes, IsOn, Statements
<1>5. QueueAt(n)'
    BY <1>1, <1>3 DEF CronAt, QueueAt, Resting
<1>6. done["cron"] = {}
    BY <1>1 DEF CronAt, TableAt, Running
<1> QED
    BY <1>1, <1>2, <1>3, <1>4, <1>5, <1>6, CronIdles DEF Running, Staged

LEMMA CronSucceed ==
    ASSUME Alone, NEW n \in 0..LastDay, CronAt(n), Succeed("cron")
    PROVE  n + 1 \in 0..LastDay /\ CronAt(n + 1)'
<1>1. /\ pc["cron"] = "succeed" /\ pc' = [pc EXCEPT !["cron"] = "purge"]
      /\ UNCHANGED <<staging, flights, budget, next>>
      /\ day' = [day EXCEPT !["cron"] = 1]
      /\ carry' = [carry EXCEPT !["cron"] = NoCarry]
      /\ done' = [done EXCEPT !["cron"] = {}]
      /\ status' = [status EXCEPT ![day["cron"]] = IF @ = "none" THEN @ ELSE "succeeded"]
    BY DEF Succeed, Finish, Forget, Goto
<1>2. "cron" \in Procs /\ pc'["cron"] = "purge" /\ done'["cron"] = {} /\ 1 \in Days
    BY <1>1, IngestConstants DEF Alone, CronAt, CronTypes, Days
<1>3. /\ n + 1 \in Days /\ day["cron"] = n + 1 /\ next = n + 2 /\ status[n + 1] = "running"
      /\ staging[n + 1] = InOrderCarry[n + 1] /\ done["cron"] = Aircraft
    BY <1>1 DEF CronAt, QueueAt, CarriesAt, TableAt, Resting, Staged
<1>4. PICK m \in 0..LastDay : m = n + 1 /\ m \in Days
    BY <1>3, Constants
<1>5. /\ status' \in [Days -> Statuses]
      /\ status'[m] = "succeeded"
      /\ \A d \in Days : d # m => status'[d] = status[d]
    BY <1>1, <1>3, <1>4 DEF CronAt, CronTypes, Statuses
<1>6. CronTypes'
  <2>1. IsOn(staging, Days)' /\ IsOn(carry, Procs)'
      BY <1>1, <1>2 DEF CronAt, CronTypes, IsOn
  <2>2. pc' \in [Procs -> Statements]
      BY <1>1 DEF CronAt, CronTypes, Statements
  <2>3. day' \in [Procs -> Days] /\ done' \in [Procs -> SUBSET Aircraft]
      BY <1>1, <1>2 DEF CronAt, CronTypes
  <2>4. budget' \in [runs : Int, crashes : Int, errors : {0}]
      BY <1>1 DEF CronAt, CronTypes
  <2> QED
      BY <1>5, <2>1, <2>2, <2>3, <2>4, Zenon DEF CronTypes
<1>7. QueueAt(m)'
  <2>1. \A d \in Days : status'[d] = "succeeded" <=> d <= m
      BY <1>4, <1>5, Constants DEF CronAt, QueueAt
  <2>2. next' = m + 1
      BY <1>1, <1>3, <1>4
  <2> QED
      BY <1>2, <2>1, <2>2 DEF QueueAt, Resting
<1>8. CarriesAt(m)'
  <2>1. \A d \in Days : /\ d <= m => staging[d] = InOrderCarry[d]
                        /\ d > m => staging[d] = NoCarry
      BY <1>3, <1>4, Constants DEF CronAt, CarriesAt
  <2>2. \A d \in Days : d = m + 1 => d > m
      BY Constants
  <2>3. \A d \in Days : d > m + 1 => d > m
      BY Constants
  <2> QED
      BY <1>1, <1>2, <2>1, <2>2, <2>3 DEF CarriesAt, Running, Staged
<1>9. \A ac : FlightsOn(ac)' = FlightsOn(ac)
    BY <1>1 DEF FlightsOn
<1>10. TableAt(m)'
  <2>1. \A ac \in Aircraft : FlightsOn(ac) = Snapshots[ac][m]
      BY <1>3, <1>4 DEF CronAt, TableAt
  <2>2. \A r \in flights' : r.ac \in Aircraft
      BY <1>1 DEF CronAt, TableAt
  <2> QED
      BY <1>2, <1>9, <2>1, <2>2 DEF TableAt, Staged
<1>11. CronAt(m)'
    BY <1>6, <1>7, <1>8, <1>10 DEF CronAt
<1> QED
    BY <1>4, <1>11

LEMMA CronCrash ==
    ASSUME Alone, NEW n \in 0..LastDay, CronAt(n), Crash("cron")
    PROVE  CronAt(n)'
<1>1. /\ pc["cron"] # "idle" /\ pc' = [pc EXCEPT !["cron"] = "idle"]
      /\ UNCHANGED <<status, staging, flights>>
      /\ budget' = [budget EXCEPT !.crashes = @ - 1]
      /\ day' = [day EXCEPT !["cron"] = 1]
      /\ carry' = [carry EXCEPT !["cron"] = NoCarry]
      /\ done' = [done EXCEPT !["cron"] = {}]
      /\ next' = LastDay + 1
    BY DEF Crash, Forget, Goto
<1>2. "cron" \in Procs /\ pc'["cron"] = "idle" /\ done'["cron"] = {} /\ 1 \in Days
    BY <1>1, IngestConstants DEF Alone, CronAt, CronTypes, Days
<1>3. CronTypes'
  <2>1. IsOn(staging, Days)' /\ IsOn(carry, Procs)'
      BY <1>1, <1>2 DEF CronAt, CronTypes, IsOn
  <2>2. pc' \in [Procs -> Statements]
      BY <1>1 DEF CronAt, CronTypes, Statements
  <2>3. day' \in [Procs -> Days] /\ done' \in [Procs -> SUBSET Aircraft]
      BY <1>1, <1>2 DEF CronAt, CronTypes
  <2>4. budget' \in [runs : Int, crashes : Int, errors : {0}]
      BY <1>1 DEF CronAt, CronTypes
  <2>5. status' \in [Days -> Statuses]
      BY <1>1 DEF CronAt, CronTypes
  <2> QED
      BY <2>1, <2>2, <2>3, <2>4, <2>5, Zenon DEF CronTypes
<1>4. QueueAt(n)'
    BY <1>1, <1>2 DEF CronAt, QueueAt, Resting
<1>5. CarriesAt(n)'
    BY <1>1, <1>2 DEF CronAt, CarriesAt, Running, Staged
<1>6. \A ac : FlightsOn(ac)' = FlightsOn(ac)
    BY <1>1 DEF FlightsOn
<1>7. TableAt(n)'
    BY <1>1, <1>2, <1>6 DEF CronAt, TableAt, Staged
<1> QED
    BY <1>3, <1>4, <1>5, <1>7 DEF CronAt

(* The steps there are when the scheduled import is on its own. *)
LEMMA CronSteps ==
    ASSUME Alone, NEW n \in 0..LastDay, CronAt(n), Next
    PROVE  \/ BeginScheduled \/ Poll
           \/ \E ac \in Aircraft : Flush("cron", ac)
           \/ LoadStaging("cron") \/ ReadExisting("cron") \/ WriteStaging("cron")
           \/ DeleteStale("cron") \/ UpsertStats("cron") \/ Succeed("cron")
           \/ PurgeExpiredStaging("cron") \/ Crash("cron")
<1>1. ~(budget.errors > 0) /\ "manual" \notin Procs
    BY DEF CronAt, CronTypes, Alone
<1>2. ~SkipRelease /\ \A p, d : ~Fail(p) /\ ~FetchFails(p, d) /\ ~BeginManual(d)
    BY <1>1 DEF SkipRelease, Fail, FetchFails, BeginManual
<1>3. \A p \in Procs : p = "cron"
    BY DEF Alone
<1> QED
    BY <1>2, <1>3 DEF Next, RunStep

LEMMA CronStays ==
    ASSUME Alone, CronInv, [Next]_vars
    PROVE  CronInv'
<1>1. PICK n \in 0..LastDay : CronAt(n)
    BY DEF CronInv
<1>2. CASE UNCHANGED vars
  <2>1. UNCHANGED <<status, staging, flights, next, pc, day, carry, done, budget>>
      BY <1>2 DEF vars
  <2>2. CronTypes' /\ QueueAt(n)'
      BY <1>1, <2>1 DEF CronAt, CronTypes, QueueAt, IsOn
  <2>3. pc["cron"] \notin Running => done["cron"] = {}
      BY <1>1 DEF CronAt, TableAt
  <2>4. CronAt(n)'
      BY <1>1, <2>1, <2>2, <2>3, CronIdles
  <2> QED
      BY <2>4 DEF CronInv
<1>3. CASE Next
  <2>1. CASE Succeed("cron")
    <3>1. n + 1 \in 0..LastDay /\ CronAt(n + 1)'
        BY <1>1, <2>1, CronSucceed
    <3>2. PICK m \in 0..LastDay : m = n + 1
        BY <3>1
    <3>3. CronAt(m)'
        BY <3>1, <3>2
    <3> QED
        BY <3>3 DEF CronInv
  <2>2. CASE ~Succeed("cron")
    <3>1. CronAt(n)'
        BY <1>1, <1>3, <2>2, CronSteps, CronBegin, CronPoll, CronFlush, CronLoadStaging,
           CronReadExisting, CronWriteStaging, CronDeleteStale, CronUpsertStats, CronPurge, CronCrash
    <3> QED
        BY <1>1, <3>1 DEF CronInv
  <2> QED
      BY <2>1, <2>2
<1> QED
    BY <1>2, <1>3

(* Only a chunk moves the table, and it moves one aircraft one day on. *)
Visible == [ac \in Aircraft |-> {r \in flights : r.ac = ac}]

LEMMA CronAdvances ==
    ASSUME Alone, CronInv, [Next]_vars
    PROVE  [Timeline!Next]_Visible
<1>1. PICK n \in 0..LastDay : CronAt(n)
    BY DEF CronInv
<1>2. CASE flights' = flights
    BY <1>2, Zenon DEF Visible
<1>3. ASSUME NEW ac \in Aircraft, Flush("cron", ac)
      PROVE  [Timeline!Next]_Visible
  <2>1. /\ n + 1 \in Days
        /\ FlightsOn(ac)' = Snapshots[ac][n + 1]
        /\ \A b \in Aircraft : b # ac => FlightsOn(b)' = FlightsOn(b)
      BY <1>1, <1>3, CronFlushes
  <2>2. Visible = [b \in Aircraft |-> FlightsOn(b)]
      BY Zenon DEF Visible, FlightsOn
  <2>3. Visible' = [b \in Aircraft |-> FlightsOn(b)']
      BY Zenon DEF Visible, FlightsOn
  <2>4. CASE FlightsOn(ac) = Snapshots[ac][n + 1]
    <3>1. \A b \in Aircraft : FlightsOn(b)' = FlightsOn(b)
        BY <2>1, <2>4
    <3> QED
        BY <2>2, <2>3, <3>1, Zenon
  <2>5. CASE FlightsOn(ac) # Snapshots[ac][n + 1]
    <3>1. PICK e \in 0..LastDay : e = n + 1 /\ n < e
        BY <2>1, Constants
    <3>2. Visible[ac] = Snapshots[ac][n]
        BY <1>1, <2>2, <2>5 DEF CronAt, TableAt
    <3>3. Visible' = [Visible EXCEPT ![ac] = Snapshots[ac][e]]
        BY <2>1, <2>2, <2>3, <3>1
    <3>4. Timeline!Advance(ac, n, e)
        BY <3>1, <3>2, <3>3 DEF Timeline!Advance, Visible
    <3> QED
        BY <3>4 DEF Timeline!Next
  <2> QED
      BY <2>4, <2>5
<1>4. CASE Next /\ \A ac \in Aircraft : ~Flush("cron", ac)
  <2>1. flights' = flights
      BY <1>1, <1>4, CronSteps, CronNothingStale DEF BeginScheduled, Begin, Poll, LoadStaging,
         ReadExisting, WriteStaging, UpsertStats, Succeed, PurgeExpiredStaging, Crash
  <2> QED
      BY <1>2, <2>1
<1> QED
    BY <1>2, <1>3, <1>4 DEF vars

(* The scheduled import on its own shows its readers a timeline: the       *)
(* flights of an aircraft are at any moment those of the days up to some   *)
(* day, and they only go forward, although a day is written in pieces, the *)
(* process may die at any statement, any number of times, and the day is   *)
(* then started over.  Batches that fail, releases that are missing and    *)
(* carries that expire while they are needed are out of it: the queue goes *)
(* on without the day then.                                                *)
THEOREM AloneShowsTimeline ==
    ASSUME Procs = {"cron"}, MaxErrors = 0, MaxExpired = 0
    PROVE  Spec => ReadersSeeTimeline
<1>1. Alone
    BY DEF Alone
<1>2. Init => CronInv
  <2>1. 0 \in 0..LastDay
      BY Constants
  <2> QED
      BY <1>1, <2>1, CronInit DEF CronInv
<1>3. Init => Timeline!Init
  <2> SUFFICES ASSUME Init PROVE Visible = [ac \in Aircraft |-> Snapshots[ac][0]]
      BY DEF Timeline!Init, Visible
  <2>1. \A ac \in Aircraft : {r \in flights : r.ac = ac} = Snapshots[ac][0]
      BY SnapshotStep DEF Init
  <2> QED
      BY <2>1, Zenon DEF Visible
<1>4. CronInv /\ [Next]_vars => CronInv'
    BY <1>1, CronStays
<1>5. CronInv /\ [Next]_vars => [Timeline!Next]_Visible
    BY <1>1, CronAdvances
<1> QED
    BY <1>2, <1>3, <1>4, <1>5, PTL DEF Spec, ReadersSeeTimeline, Timeline!Spec, Visible

-----------------------------------------------------------------------------
(* GoodDaysComplete.  The carry of any run, sound or not, is one that the  *)
(* day before could have left, so what it writes are rows of its own day.  *)

ExpectedInv ==
    /\ \A d \in Days : d + 1 \in Days =>
           \A ac \in Aircraft : staging[d][ac] \in CarriesInto[d + 1][ac]
    /\ \A p \in Procs : pc[p] \in Running =>
           \A ac \in Aircraft : carry[p][ac] \in CarriesInto[day[p]][ac]

LEMMA CarriesExpected ==
    ASSUME NEW d \in Days, NEW ac \in Aircraft
    PROVE  /\ {} \in CarriesInto[d][ac]
           /\ d + 1 \in Days =>
                  \A base \in CarriesInto[d][ac] : CarryOf(d, ac, base) \in CarriesInto[d + 1][ac]
<1>1. \A e \in Days : CarriesInto[e] = IntoStep(CarriesInto, e)
    BY CarriesIntoDef, Zenon
<1>2. \A e \in Days : CarriesInto[e][ac] =
          {{}} \cup IF e = 1 THEN {} ELSE {CarryOf(e - 1, ac, base) : base \in CarriesInto[e - 1][ac]}
  <2> TAKE e \in Days
  <2>1. IntoStep(CarriesInto, e)[ac] =
          {{}} \cup IF e = 1 THEN {} ELSE {CarryOf(e - 1, ac, base) : base \in CarriesInto[e - 1][ac]}
      BY Zenon DEF IntoStep
  <2> QED
      BY <1>1, <2>1
<1>3. {} \in CarriesInto[d][ac]
    BY <1>2
<1>4. ASSUME d + 1 \in Days PROVE CarriesInto[d + 1][ac] = {{}} \cup {CarryOf(d, ac, base) : base \in CarriesInto[d][ac]}
  <2>1. PICK e \in Days : e = d + 1 /\ e - 1 = d /\ e # 1
      BY <1>4, Constants
  <2>2. CarriesInto[e][ac] = {{}} \cup {CarryOf(e - 1, ac, base) : base \in CarriesInto[e - 1][ac]}
      BY <1>2, <2>1
  <2> QED
      BY <2>1, <2>2
<1> QED
    BY <1>3, <1>4

LEMMA SplitOfExpected ==
    ASSUME NEW d \in Days, NEW ac \in Aircraft, NEW base \in CarriesInto[d][ac]
    PROVE  /\ Split[d][ac][base].flights = FlightsOf(d, ac, base)
           /\ Split[d][ac][base].carry = CarryOf(d, ac, base)
<1>1. base \in Bases[d][ac]
    BY DEF Bases
<1>2. Split[d][ac][base] = [flights |-> FlightsOf(d, ac, base), carry |-> CarryOf(d, ac, base)]
    BY <1>1, Zenon DEF Split
<1> QED
    BY <1>2

LEMMA ExpectedInit == Init => ExpectedInv
<1> SUFFICES ASSUME Init PROVE ExpectedInv
    OBVIOUS
<1>1. \A d \in Days, ac \in Aircraft : staging[d][ac] = {}
    BY DEF Init, NoCarry
<1>2. \A p \in Procs : pc[p] \notin Running
    BY DEF Init, Running
<1>3. ASSUME NEW d \in Days, d + 1 \in Days, NEW ac \in Aircraft
      PROVE  staging[d][ac] \in CarriesInto[d + 1][ac]
  <2>1. {} \in CarriesInto[d + 1][ac]
      BY <1>3, CarriesExpected
  <2> QED
      BY <1>1, <2>1
<1> QED
    BY <1>2, <1>3 DEF ExpectedInv

LEMMA ExpectedKept ==
    ASSUME ExpectedInv, UNCHANGED staging,
           \A q \in Procs : pc'[q] \in Running =>
               pc[q] \in Running /\ carry'[q] = carry[q] /\ day'[q] = day[q]
    PROVE  ExpectedInv'
BY DEF ExpectedInv

LEMMA ExpectedLoad ==
    ASSUME CarryInv, ExpectedInv, NEW p \in Procs, LoadStaging(p)
    PROVE  ExpectedInv'
<1>1. /\ UNCHANGED <<staging, day>>
      /\ pc' = [pc EXCEPT ![p] = "existing"]
      /\ carry' = [carry EXCEPT ![p] = IF day[p] - 1 \in Days THEN staging[day[p] - 1] ELSE NoCarry]
    BY DEF LoadStaging, Goto
<1>2. PICK d \in Days : d = day[p]
    BY DEF CarryInv, Shape
<1>3. /\ carry'[p] = IF d - 1 \in Days THEN staging[d - 1] ELSE NoCarry
      /\ \A q \in Procs : q # p => carry'[q] = carry[q] /\ pc'[q] = pc[q]
    BY <1>1, <1>2, IsOnExcept DEF CarryInv, Shape
<1>4. ASSUME NEW ac \in Aircraft PROVE carry'[p][ac] \in CarriesInto[d][ac]
  <2>1. CASE d - 1 \in Days
    <3>1. PICK e \in Days : e = d - 1 /\ e + 1 = d
        BY <2>1, Constants
    <3>2. staging[e][ac] \in CarriesInto[e + 1][ac]
        BY <3>1 DEF ExpectedInv
    <3> QED
        BY <1>3, <3>1, <3>2
  <2>2. CASE d - 1 \notin Days
    <3>1. carry'[p][ac] = {}
        BY <1>3, <2>2 DEF NoCarry
    <3> QED
        BY <3>1, CarriesExpected
  <2> QED
      BY <2>1, <2>2
<1> QED
    BY <1>1, <1>2, <1>3, <1>4 DEF ExpectedInv

LEMMA ExpectedWrite ==
    ASSUME CarryInv, ExpectedInv, NEW p \in Procs, WriteStaging(p)
    PROVE  ExpectedInv'
<1>1. /\ UNCHANGED <<carry, day>> /\ pc[p] = "carry"
      /\ pc' = [pc EXCEPT ![p] = "stale"]
      /\ staging' = IF CarryFound(p) = NoCarry THEN staging
                    ELSE [staging EXCEPT ![day[p]] = CarryFound(p)]
    BY DEF WriteStaging, Goto
<1>2. PICK d \in Days : d = day[p]
    BY DEF CarryInv, Shape
<1>3. \A q \in Procs : pc'[q] \in Running => pc[q] \in Running
    BY <1>1 DEF CarryInv, Shape, Running
<1>4. ASSUME NEW ac \in Aircraft, d + 1 \in Days
      PROVE  CarryFound(p)[ac] \in CarriesInto[d + 1][ac]
  <2>1. PICK base \in CarriesInto[d][ac] : base = carry[p][ac]
      BY <1>1, <1>2 DEF ExpectedInv, Running
  <2>2. CarryFound(p)[ac] = Split[day[p]][ac][carry[p][ac]].carry
      BY Zenon DEF CarryFound
  <2>3. CarryFound(p)[ac] = CarryOf(d, ac, base)
      BY <1>2, <2>1, <2>2, SplitOfExpected
  <2> QED
      BY <1>4, <2>1, <2>3, CarriesExpected
<1>5. \A e \in Days : staging'[e] = staging[e] \/ (e = d /\ staging'[e] = CarryFound(p))
  <2>1. CASE CarryFound(p) = NoCarry
      BY <1>1, <2>1
  <2>2. CASE CarryFound(p) # NoCarry
    <3>1. staging' = [staging EXCEPT ![d] = CarryFound(p)]
        BY <1>1, <1>2, <2>2
    <3> QED
        BY <3>1, IsOnExcept DEF CarryInv, Shape
  <2> QED
      BY <2>1, <2>2
<1> QED
    BY <1>1, <1>3, <1>4, <1>5 DEF ExpectedInv

LEMMA ExpectedPurge ==
    ASSUME CarryInv, ExpectedInv, NEW p \in Procs, PurgeExpiredStaging(p)
    PROVE  ExpectedInv'
<1>1. PICK last : staging' = [d \in Days |-> IF d <= last THEN NoCarry ELSE staging[d]]
    BY DEF PurgeExpiredStaging
<1>2. /\ UNCHANGED <<carry, day>>
      /\ pc' = [pc EXCEPT ![p] = "idle"]
    BY DEF PurgeExpiredStaging, Goto
<1>3. \A q \in Procs : pc'[q] \in Running => pc[q] \in Running
    BY <1>2 DEF CarryInv, Shape, Running
<1>4. \A d \in Days, ac \in Aircraft : staging'[d][ac] = staging[d][ac] \/ staging'[d][ac] = {}
    BY <1>1 DEF NoCarry
<1>5. ASSUME NEW d \in Days, d + 1 \in Days, NEW ac \in Aircraft
      PROVE  staging'[d][ac] \in CarriesInto[d + 1][ac]
  <2>1. {} \in CarriesInto[d + 1][ac]
      BY <1>5, CarriesExpected
  <2>2. staging[d][ac] \in CarriesInto[d + 1][ac]
      BY <1>5 DEF ExpectedInv
  <2> QED
      BY <1>4, <2>1, <2>2
<1> QED
    BY <1>2, <1>3, <1>5 DEF ExpectedInv

(* The other steps of a process leave it off the road or as it was. *)
LEMMA ExpectedStays ==
    ASSUME CarryInv, ExpectedInv, [Next]_vars
    PROVE  ExpectedInv'
<1> DEFINE Kept == \A q \in Procs : pc'[q] \in Running =>
                       pc[q] \in Running /\ carry'[q] = carry[q] /\ day'[q] = day[q]
<1>0. pc \in [Procs -> Statements] /\ day \in [Procs -> Days] /\ IsOn(carry, Procs)
    BY DEF CarryInv, Shape
<1>1. CASE UNCHANGED vars
    BY <1>1, ExpectedKept DEF vars
<1>2. ASSUME NEW p \in Procs, NEW d \in Days, Begin(p, d) PROVE ExpectedInv'
  <2>1. UNCHANGED <<staging, carry>> /\ pc' = [pc EXCEPT ![p] = "staging"] /\ day' = [day EXCEPT ![p] = d]
      BY <1>2 DEF Begin, Goto
  <2>2. Kept
      BY <1>0, <2>1 DEF Running
  <2> QED
      BY <2>1, <2>2, ExpectedKept
<1>3. CASE Poll \/ SkipRelease
    BY <1>3, ExpectedKept DEF Poll, SkipRelease
<1>4. ASSUME NEW p \in Procs, NEW d \in Days, FetchFails(p, d) PROVE ExpectedInv'
    BY <1>4, ExpectedKept DEF FetchFails
<1>5. ASSUME NEW p \in Procs, RunStep(p) PROVE ExpectedInv'
  <2>1. CASE ReadExisting(p) \/ DeleteStale(p) \/ UpsertStats(p) \/ \E ac \in Aircraft : Flush(p, ac)
    <3>1. /\ UNCHANGED <<staging, carry, day>> /\ pc[p] \in Running
          /\ UNCHANGED pc \/ \E s : pc' = [pc EXCEPT ![p] = s]
        BY <2>1 DEF ReadExisting, DeleteStale, UpsertStats, Flush, Goto, Running
    <3>2. Kept
        BY <1>0, <3>1
    <3> QED
        BY <3>1, <3>2, ExpectedKept
  <2>2. CASE Succeed(p)
    <3>1. /\ UNCHANGED staging /\ pc' = [pc EXCEPT ![p] = "purge"]
          /\ carry' = [carry EXCEPT ![p] = NoCarry] /\ day' = [day EXCEPT ![p] = 1]
        BY <2>2 DEF Succeed, Finish, Forget, Goto
    <3>2. Kept
        BY <1>0, <3>1, IsOnExcept DEF Running
    <3> QED
        BY <3>1, <3>2, ExpectedKept
  <2> QED
      BY <1>5, <2>1, <2>2, ExpectedLoad, ExpectedWrite, ExpectedPurge DEF RunStep
<1>6. ASSUME NEW p \in Procs, Fail(p) \/ Crash(p) PROVE ExpectedInv'
  <2>1. /\ UNCHANGED staging /\ pc' = [pc EXCEPT ![p] = "idle"]
        /\ carry' = [carry EXCEPT ![p] = NoCarry] /\ day' = [day EXCEPT ![p] = 1]
      BY <1>6 DEF Fail, Crash, Finish, Forget, Goto
  <2>2. Kept
      BY <1>0, <2>1, IsOnExcept DEF Running
  <2> QED
      BY <2>1, <2>2, ExpectedKept
<1>7. CASE BeginScheduled
    BY <1>2, <1>7 DEF BeginScheduled
<1>8. CASE \E d \in Days : BeginManual(d)
    BY <1>2, <1>8 DEF BeginManual
<1> QED
    BY <1>1, <1>3, <1>4, <1>5, <1>6, <1>7, <1>8 DEF Next

(* The table.  A run on the right carry that has written the flights of an *)
(* aircraft finds them there, but for those that a later day extends, and  *)
(* no row of theirs is left to an earlier day.                             *)
TrueFlights(d, ac) == FlightsOf(d, ac, InOrderCarry[d - 1][ac])

IsTrue(d, r) == \E ac \in Aircraft : r \in TrueFlights(d, ac)

Has(rows, r) == \E n \in rows : Key(n) = Key(r)

Extended(r, d, ac) == \E e \in Days : e > d /\ Has(TrueFlights(e, ac), r)

Written(d, ac) ==
    /\ \A r \in TrueFlights(d, ac) : Extended(r, d, ac) \/ r \in flights
    /\ \A r \in flights : Has(TrueFlights(d, ac), r) => r.batch > d \/ r \in TrueFlights(d, ac)

OnlyTrue(d) == \A r \in flights : r.batch = d => IsTrue(d, r)

(* A wrong row of the day is one that the run has seen.                    *)
Seen(p) == \A r \in flights : r.batch = day[p] => Key(r) \in existing[p] \/ IsTrue(day[p], r)

Listed  == {"flush", "carry", "stale"}
AllDone == {"carry", "stale", "stats", "succeed"}
Cleaned == {"stats", "succeed"}

RunWrites(p) ==
    /\ \A ac \in done[p] : Written(day[p], ac)
    /\ pc[p] \in Listed => Seen(p)
    /\ pc[p] \in Cleaned => OnlyTrue(day[p])

DayWritten(d) == OnlyTrue(d) /\ \A ac \in Aircraft : Written(d, ac)

TableShape ==
    /\ IsOn(existing, Procs)
    /\ done \in [Procs -> SUBSET Aircraft]
    /\ \A r \in flights : r.batch \in Days
    /\ \A p \in Procs : /\ pc[p] \notin Running => done[p] = {}
                        /\ pc[p] \in AllDone => done[p] = Aircraft

TableInv ==
    /\ TableShape
    /\ \A d \in good : DayWritten(d)
    /\ \A p \in sound : RunWrites(p)

LEMMA TrueRows ==
    ASSUME NEW d, NEW ac
    PROVE  \A r \in TrueFlights(d, ac) : r.ac = ac /\ r.batch = d
BY RowsOfFlights DEF TrueFlights

LEMMA KeyOfOne == \A r, n : Key(r) = Key(n) => r.ac = n.ac
BY DEF Key

(* What a flush of day x leaves of what is known of day d: one that does   *)
(* not override the day (F are the flights that it writes for ac).         *)
LEMMA FlushSpares ==
    ASSUME NEW x \in Days, NEW d \in Days, d <= x, NEW ac \in Aircraft, NEW F,
           \A n \in F : n.ac = ac /\ n.batch = x,
           flights' = Upsert(flights, F),
           F = TrueFlights(x, ac) \/ (d # x /\ d \notin TakenFrom(F))
    PROVE  /\ \A b \in Aircraft : Written(d, b) => Written(d, b)'
           /\ \A r \in flights' : r.batch = d => r \in flights \/ IsTrue(d, r)
<1>1. x \in Int /\ d \in Int
    BY Constants
<1>2. \A r : r \in flights' <=> r \in F \/ (r \in flights /\ \A n \in F : Key(n) # Key(r))
    BY DEF Upsert
<1>3. ASSUME NEW r \in flights', r.batch = d PROVE r \in flights \/ IsTrue(d, r)
  <2>1. CASE r \in F
    <3>1. d = x
        BY <1>3, <2>1
    <3>2. r \in TrueFlights(d, ac)
        BY <2>1, <3>1
    <3> QED
        BY <3>2 DEF IsTrue
  <2> QED
      BY <1>2, <2>1
<1>4. ASSUME NEW b \in Aircraft, Written(d, b) PROVE Written(d, b)'
  <2>1. ASSUME NEW r \in TrueFlights(d, b), ~Extended(r, d, b) PROVE r \in flights'
    <3>1. r \in flights
        BY <1>4, <2>1 DEF Written
    <3>2. r.ac = b /\ r.batch = d
        BY TrueRows
    <3>3. ASSUME NEW n \in F, Key(n) = Key(r), r \notin F PROVE FALSE
      <4>1. n.ac = ac /\ ac = b
          BY <3>2, <3>3, KeyOfOne
      <4>2. d \in TakenFrom(F)
          BY <3>1, <3>2, <3>3 DEF TakenFrom
      <4>3. F = TrueFlights(x, b)
          BY <4>1, <4>2
      <4>4. x # d
          BY <3>3, <4>3
      <4>5. x > d
          BY <1>1, <4>4
      <4>6. Extended(r, d, b)
          BY <3>3, <4>3, <4>5 DEF Extended, Has
      <4> QED
          BY <2>1, <4>6
    <3> QED
        BY <1>2, <3>1, <3>3
  <2>2. ASSUME NEW r \in flights', Has(TrueFlights(d, b), r)
        PROVE  r.batch > d \/ r \in TrueFlights(d, b)
    <3>1. CASE r \in flights
        BY <1>4, <2>2, <3>1 DEF Written
    <3>2. CASE r \in F
      <4>1. r.batch = x /\ r.ac = ac
          BY <3>2
      <4>2. CASE x = d
        <5>1. r \in TrueFlights(d, ac)
            BY <3>2, <4>2
        <5>2. PICK n \in TrueFlights(d, b) : Key(n) = Key(r)
            BY <2>2 DEF Has
        <5>3. n.ac = b /\ n.ac = r.ac
            BY <5>2, TrueRows, KeyOfOne
        <5> QED
            BY <4>1, <5>1, <5>3
      <4> QED
          BY <1>1, <4>1, <4>2
    <3> QED
        BY <1>2, <3>1, <3>2
  <2> QED
      BY <2>1, <2>2 DEF Written, Extended
<1> QED
    BY <1>3, <1>4

LEMMA TableInit == Init => TableInv
<1> SUFFICES ASSUME Init PROVE TableInv
    OBVIOUS
<1>1. IsOn([p \in Procs |-> {}], Procs)
    BY Zenon DEF IsOn
<1>2. \A p \in Procs : pc[p] \notin Running /\ pc[p] \notin AllDone /\ done[p] = {}
    BY DEF Init, Running, AllDone
<1>3. TableShape
    BY <1>1, <1>2 DEF Init, TableShape
<1> QED
    BY <1>3 DEF Init, TableInv

(* Steps that leave the table alone. *)
LEMMA TableKept ==
    ASSUME CarryInv, TableInv, UNCHANGED flights, good' \subseteq good,
           IsOn(existing, Procs)', done' \in [Procs -> SUBSET Aircraft],
           \A q \in Procs : /\ pc'[q] \notin Running => done'[q] = {}
                            /\ pc'[q] \in AllDone => done'[q] = Aircraft,
           \A q \in sound' :
               \/ RunWrites(q)'
               \/ /\ q \in sound /\ day'[q] = day[q] /\ done'[q] = done[q]
                  /\ pc'[q] \in Listed => pc[q] \in Listed /\ existing'[q] = existing[q]
                  /\ pc'[q] \in Cleaned => pc[q] \in Cleaned
    PROVE  TableInv'
<1>1. \A d, ac : Written(d, ac)' <=> Written(d, ac)
    BY DEF Written
<1>2. \A d : OnlyTrue(d)' <=> OnlyTrue(d)
    BY DEF OnlyTrue
<1>3. TableShape'
    BY DEF TableInv, TableShape
<1>4. \A d \in good' : DayWritten(d)'
    BY <1>1, <1>2 DEF TableInv, DayWritten
<1>5. ASSUME NEW q \in sound' PROVE RunWrites(q)'
  <2>1. CASE /\ q \in sound /\ day'[q] = day[q] /\ done'[q] = done[q]
             /\ pc'[q] \in Listed => pc[q] \in Listed /\ existing'[q] = existing[q]
             /\ pc'[q] \in Cleaned => pc[q] \in Cleaned
    <3>1. RunWrites(q)
        BY <2>1 DEF TableInv
    <3>2. \A ac \in done'[q] : Written(day[q], ac)'
        BY <1>1, <2>1, <3>1 DEF RunWrites
    <3>3. pc'[q] \in Listed => Seen(q)'
        BY <2>1, <3>1 DEF RunWrites, Seen
    <3>4. pc'[q] \in Cleaned => OnlyTrue(day[q])'
        BY <1>2, <2>1, <3>1 DEF RunWrites
    <3> QED
        BY <3>2, <3>3, <3>4 DEF RunWrites
  <2> QED
      BY <1>5, <2>1
<1> QED
    BY <1>3, <1>4, <1>5 DEF TableInv

LEMMA TableQueue ==
    ASSUME CarryInv, TableInv, UNCHANGED <<flights, good, sound, pc, day, existing, done>>
    PROVE  TableInv'
<1>1. IsOn(existing, Procs)'
    BY DEF TableInv, TableShape, IsOn
<1> QED
    BY <1>1, TableKept DEF TableInv, TableShape

(* Where p is sound no more, and the others are as they were. *)
LEMMA TableLeft ==
    ASSUME CarryInv, TableInv, NEW p \in Procs, UNCHANGED flights,
           good' \subseteq good, sound' \subseteq sound \ {p},
           NEW s \in Statements \ (Running \cup AllDone), pc' = [pc EXCEPT ![p] = s],
           NEW d \in Days, day' = [day EXCEPT ![p] = d],
           \/ UNCHANGED <<existing, done>> /\ done[p] = {}
           \/ existing' = [existing EXCEPT ![p] = {}] /\ done' = [done EXCEPT ![p] = {}]
    PROVE  TableInv'
<1>1. IsOn(existing, Procs)' /\ \A q \in Procs : q # p => existing'[q] = existing[q]
  <2>1. IsOn(existing, Procs)
      BY DEF TableInv, TableShape
  <2>2. CASE UNCHANGED existing
      BY <2>1, <2>2 DEF IsOn
  <2>3. CASE existing' = [existing EXCEPT ![p] = {}]
      BY <2>1, <2>3 DEF IsOn
  <2> QED
      BY <2>2, <2>3
<1>2. done' \in [Procs -> SUBSET Aircraft] /\ \A q \in Procs : done'[q] = IF q = p THEN {} ELSE done[q]
    BY DEF TableInv, TableShape
<1>3. \A q \in Procs : pc'[q] = IF q = p THEN s ELSE pc[q]
    BY DEF CarryInv, Shape
<1>4. \A q \in Procs : q # p => day'[q] = day[q]
    BY DEF CarryInv, Shape
<1>5. \A q \in Procs : /\ pc'[q] \notin Running => done'[q] = {}
                       /\ pc'[q] \in AllDone => done'[q] = Aircraft
    BY <1>2, <1>3 DEF TableInv, TableShape
<1>6. \A q \in sound' : q \in sound /\ q \in Procs /\ q # p
    BY DEF CarryInv, Shape
<1>7. \A q \in sound' : /\ q \in sound /\ day'[q] = day[q] /\ done'[q] = done[q]
                        /\ pc'[q] \in Listed => pc[q] \in Listed /\ existing'[q] = existing[q]
                        /\ pc'[q] \in Cleaned => pc[q] \in Cleaned
    BY <1>1, <1>2, <1>3, <1>4, <1>6
<1> QED
    BY <1>1, <1>2, <1>5, <1>7, TableKept

LEMMA TableBegin ==
    ASSUME CarryInv, TableInv, NEW p \in Procs, NEW d \in Days, Begin(p, d)
    PROVE  TableInv'
<1>1. p \notin sound
    BY DEF Begin, CarryInv, RunsInOrder, Running
<1>2. "staging" \in Statements \ (Running \cup AllDone)
    BY DEF Statements, Running, AllDone
<1>3. done[p] = {}
    BY DEF Begin, TableInv, TableShape, Running
<1>4. /\ UNCHANGED <<flights, good, sound, existing, done>>
      /\ pc' = [pc EXCEPT ![p] = "staging"] /\ day' = [day EXCEPT ![p] = d]
    BY DEF Begin, Goto
<1> QED
    BY <1>1, <1>2, <1>3, <1>4, TableLeft

LEMMA TableEnds ==
    ASSUME CarryInv, TableInv, NEW p \in Procs, Fail(p) \/ Crash(p)
    PROVE  TableInv'
<1>1. "idle" \in Statements \ (Running \cup AllDone) /\ 1 \in Days
    BY IngestConstants DEF Statements, Running, AllDone, Days
<1>2. /\ UNCHANGED <<flights, good>> /\ sound' \subseteq sound \ {p}
      /\ pc' = [pc EXCEPT ![p] = "idle"] /\ day' = [day EXCEPT ![p] = 1]
      /\ existing' = [existing EXCEPT ![p] = {}] /\ done' = [done EXCEPT ![p] = {}]
    BY DEF Fail, Crash, Finish, Forget, Goto
<1> QED
    BY <1>1, <1>2, TableLeft

LEMMA TableLoad ==
    ASSUME CarryInv, TableInv, NEW p \in Procs, LoadStaging(p)
    PROVE  TableInv'
<1>1. /\ UNCHANGED <<flights, good, day, existing, done>> /\ pc[p] = "staging"
      /\ pc' = [pc EXCEPT ![p] = "existing"] /\ sound' \subseteq sound \cup {p}
    BY DEF LoadStaging, Goto
<1>2. \A q \in Procs : pc'[q] = IF q = p THEN "existing" ELSE pc[q]
    BY <1>1 DEF CarryInv, Shape
<1>3. done[p] = {}
    BY <1>1 DEF TableInv, TableShape, Running
<1>4. \A q \in Procs : /\ pc'[q] \notin Running => done'[q] = {}
                       /\ pc'[q] \in AllDone => done'[q] = Aircraft
    BY <1>1, <1>2, <1>3 DEF TableInv, TableShape, Running, AllDone
<1>5. RunWrites(p)'
    BY <1>1, <1>2, <1>3 DEF RunWrites, Listed, Cleaned
<1>6. \A q \in sound' : q # p => q \in sound /\ q \in Procs
    BY <1>1 DEF CarryInv, Shape
<1>7. IsOn(existing, Procs)'
    BY <1>1 DEF TableInv, TableShape, IsOn
<1>8. done' \in [Procs -> SUBSET Aircraft]
    BY <1>1 DEF TableInv, TableShape
<1>9. \A q \in sound' :
          \/ RunWrites(q)'
          \/ /\ q \in sound /\ day'[q] = day[q] /\ done'[q] = done[q]
             /\ pc'[q] \in Listed => pc[q] \in Listed /\ existing'[q] = existing[q]
             /\ pc'[q] \in Cleaned => pc[q] \in Cleaned
    BY <1>1, <1>2, <1>5, <1>6
<1> QED
    BY <1>1, <1>4, <1>7, <1>8, <1>9, TableKept

LEMMA TableList ==
    ASSUME CarryInv, TableInv, NEW p \in Procs, ReadExisting(p)
    PROVE  TableInv'
<1> DEFINE keys == {Key(r) : r \in {s \in flights : s.batch = day[p]}}
<1>1. /\ UNCHANGED <<flights, good, sound, day, done>> /\ pc[p] = "existing"
      /\ pc' = [pc EXCEPT ![p] = "flush"] /\ existing' = [existing EXCEPT ![p] = keys]
    BY DEF ReadExisting, Goto
<1>2. \A q \in Procs : pc'[q] = IF q = p THEN "flush" ELSE pc[q]
    BY <1>1 DEF CarryInv, Shape
<1>3. \A r \in flights : r.batch = day[p] => Key(r) \in keys
    OBVIOUS
<1> HIDE DEF keys
<1>4. /\ IsOn(existing, Procs)' /\ existing'[p] = keys
      /\ \A q \in Procs : q # p => existing'[q] = existing[q]
    BY <1>1 DEF TableInv, TableShape, IsOn
<1>5. \A q \in Procs : /\ pc'[q] \notin Running => done'[q] = {}
                       /\ pc'[q] \in AllDone => done'[q] = Aircraft
    BY <1>1, <1>2 DEF TableInv, TableShape, Running, AllDone
<1>6. ASSUME p \in sound' PROVE RunWrites(p)'
  <2>1. \A ac \in done[p] : Written(day[p], ac)
      BY <1>1, <1>6 DEF TableInv, RunWrites
  <2>2. \A d, ac : Written(d, ac)' <=> Written(d, ac)
      BY <1>1 DEF Written
  <2>3. Seen(p)'
      BY <1>1, <1>3, <1>4 DEF Seen
  <2>4. pc'[p] \notin Cleaned
      BY <1>2 DEF Cleaned
  <2> QED
      BY <1>1, <2>1, <2>2, <2>3, <2>4 DEF RunWrites
<1>7. \A q \in sound' : q \in sound /\ q \in Procs
    BY <1>1 DEF CarryInv, Shape
<1>8. done' \in [Procs -> SUBSET Aircraft]
    BY <1>1 DEF TableInv, TableShape
<1>9. \A q \in sound' :
          \/ RunWrites(q)'
          \/ /\ q \in sound /\ day'[q] = day[q] /\ done'[q] = done[q]
             /\ pc'[q] \in Listed => pc[q] \in Listed /\ existing'[q] = existing[q]
             /\ pc'[q] \in Cleaned => pc[q] \in Cleaned
    BY <1>1, <1>2, <1>4, <1>6, <1>7
<1> QED
    BY <1>1, <1>4, <1>5, <1>8, <1>9, TableKept

(* What a write of p to the table leaves on the books.                     *)
LEMMA NotOverridden ==
    ASSUME CarryInv, NEW p \in Procs, NEW taken, Disturb(p, taken)
    PROVE  /\ \A d \in good' : /\ d \in good /\ d \in Days /\ d <= day[p]
                               /\ p \in sound \/ (d # day[p] /\ d \notin taken)
           /\ \A q \in sound' : /\ q \in sound /\ q \in Procs /\ day[q] \in Days /\ day[q] <= day[p]
                                /\ p \in sound \/ (day[q] # day[p] /\ day[q] \notin taken)
           /\ p \in sound' <=> p \in sound
<1>1. day \in [Procs -> Days] /\ sound \subseteq Procs /\ good \subseteq Days
    BY DEF CarryInv, Shape
<1>2. \A d, e \in Days : ~(d > e) <=> d <= e
    BY Constants
<1>3. \A d \in good' : d \in good /\ ~Overrides(p, d, taken)
    BY DEF Disturb
<1>4. \A q \in sound' : q \in sound /\ (q = p \/ ~Overrides(p, day[q], taken))
    BY DEF Disturb
<1>5. \A d \in Days : ~Overrides(p, d, taken) =>
          d <= day[p] /\ (p \in sound \/ (d # day[p] /\ d \notin taken))
    BY <1>1, <1>2 DEF Overrides
<1>6. day[p] <= day[p]
    BY <1>1, <1>2, Constants
<1>7. p \in sound' <=> p \in sound
    BY DEF Disturb
<1> QED
    BY <1>1, <1>3, <1>4, <1>5, <1>6, <1>7

LEMMA FlushFlights ==
    ASSUME CarryInv, ExpectedInv, NEW p \in Procs, NEW ac \in Aircraft, Flush(p, ac)
    PROVE  \E F : /\ flights' = Upsert(flights, F) /\ Disturb(p, TakenFrom(F))
                  /\ \A n \in F : n.ac = ac /\ n.batch = day[p]
                  /\ p \in sound => F = TrueFlights(day[p], ac)
<1>1. PICK F : /\ F = Split[day[p]][ac][carry[p][ac]].flights
               /\ flights' = Upsert(flights, F) /\ Disturb(p, TakenFrom(F))
    BY DEF Flush
<1>2. PICK d \in Days : d = day[p]
    BY DEF CarryInv, Shape
<1>3. PICK base \in CarriesInto[d][ac] : base = carry[p][ac]
    BY <1>2 DEF ExpectedInv, Flush, Running
<1>4. F = FlightsOf(d, ac, base)
    BY <1>1, <1>2, <1>3, SplitOfExpected
<1>5. p \in sound => base = InOrderCarry[d - 1][ac]
    BY <1>2, <1>3 DEF CarryInv, RunsInOrder
<1> QED
    BY <1>1, <1>2, <1>4, <1>5, RowsOfFlights DEF TrueFlights

(* A day that p does not override stays as it was known, and the flights   *)
(* of the aircraft that a sound p writes are there.                        *)
LEMMA TableFlush ==
    ASSUME CarryInv, ExpectedInv, TableInv, NEW p \in Procs, NEW ac \in Aircraft, Flush(p, ac)
    PROVE  TableInv'
<1>1. PICK F : /\ flights' = Upsert(flights, F) /\ Disturb(p, TakenFrom(F))
               /\ \A n \in F : n.ac = ac /\ n.batch = day[p]
               /\ p \in sound => F = TrueFlights(day[p], ac)
    BY FlushFlights
<1>2. PICK x \in Days : x = day[p]
    BY DEF CarryInv, Shape
<1>3. /\ UNCHANGED <<day, existing>> /\ pc[p] = "flush"
      /\ done' = [done EXCEPT ![p] = @ \cup {ac}]
      /\ IF done'[p] = Aircraft THEN pc' = [pc EXCEPT ![p] = "carry"] ELSE UNCHANGED pc
    BY DEF Flush, Goto
<1>4. \A q \in Procs : done'[q] = IF q = p THEN done[p] \cup {ac} ELSE done[q]
    BY <1>3 DEF TableInv, TableShape
<1>5. \A q \in Procs : pc'[q] = IF q = p /\ done'[p] = Aircraft THEN "carry" ELSE pc[q]
    BY <1>3 DEF CarryInv, Shape
<1>6. TableShape'
  <2>1. IsOn(existing, Procs)'
      BY <1>3 DEF TableInv, TableShape, IsOn
  <2>2. done' \in [Procs -> SUBSET Aircraft]
      BY <1>3 DEF TableInv, TableShape
  <2>3. \A r \in flights' : r.batch \in Days
      BY <1>1, <1>2 DEF Upsert, TableInv, TableShape
  <2>4. \A q \in Procs : /\ pc'[q] \notin Running => done'[q] = {}
                         /\ pc'[q] \in AllDone => done'[q] = Aircraft
      BY <1>3, <1>4, <1>5 DEF TableInv, TableShape, Running, AllDone
  <2> QED
      BY <2>1, <2>2, <2>3, <2>4 DEF TableShape
<1>7. /\ \A d \in good' : /\ d \in good /\ d \in Days /\ d <= x
                          /\ p \in sound \/ (d # x /\ d \notin TakenFrom(F))
      /\ \A q \in sound' : /\ q \in sound /\ q \in Procs /\ day[q] \in Days /\ day[q] <= x
                           /\ p \in sound \/ (day[q] # x /\ day[q] \notin TakenFrom(F))
    BY <1>1, <1>2, NotOverridden
<1>8. ASSUME NEW d \in Days, d <= x, p \in sound \/ (d # x /\ d \notin TakenFrom(F))
      PROVE  /\ \A b \in Aircraft : Written(d, b) => Written(d, b)'
             /\ \A r \in flights' : r.batch = d => r \in flights \/ IsTrue(d, r)
  <2>1. F = TrueFlights(x, ac) \/ (d # x /\ d \notin TakenFrom(F))
      BY <1>1, <1>2, <1>8
  <2>2. \A n \in F : n.ac = ac /\ n.batch = x
      BY <1>1, <1>2
  <2> QED
      BY <1>1, <1>8, <2>1, <2>2, FlushSpares
<1>9. \A d \in good' : DayWritten(d)'
  <2> SUFFICES ASSUME NEW d \in good' PROVE DayWritten(d)'
      OBVIOUS
  <2>1. DayWritten(d)
      BY <1>7 DEF TableInv
  <2> QED
      BY <1>7, <1>8, <2>1 DEF DayWritten, OnlyTrue
<1>10. p \in sound => Written(x, ac)'
  <2> SUFFICES ASSUME p \in sound PROVE Written(x, ac)'
      OBVIOUS
  <2>1. F = TrueFlights(x, ac)
      BY <1>1, <1>2
  <2> QED
      BY <1>1, <2>1 DEF Written, Upsert, Has
<1>11. ASSUME NEW q \in sound' PROVE RunWrites(q)'
  <2>1. PICK d \in Days : d = day[q]
      BY <1>7
  <2>2. RunWrites(q)
      BY <1>7 DEF TableInv
  <2>3. /\ \A b \in Aircraft : Written(d, b) => Written(d, b)'
        /\ \A r \in flights' : r.batch = d => r \in flights \/ IsTrue(d, r)
      BY <1>7, <1>8, <2>1
  <2>4. day'[q] = d /\ existing'[q] = existing[q]
      BY <1>3, <2>1
  <2>5. \A b \in done'[q] : Written(day[q], b)'
    <3> SUFFICES ASSUME NEW b \in done'[q] PROVE Written(d, b)'
        BY <2>4
    <3>1. b \in Aircraft /\ (b \in done[q] \/ (q = p /\ b = ac))
        BY <1>4, <1>7 DEF TableInv, TableShape
    <3>2. CASE b \in done[q]
        BY <2>1, <2>2, <2>3, <3>1, <3>2 DEF RunWrites
    <3>3. CASE q = p /\ b = ac
        BY <1>2, <1>7, <1>10, <2>1, <3>3
    <3> QED
        BY <3>1, <3>2, <3>3
  <2>6. pc'[q] \in Listed => pc[q] \in Listed
      BY <1>3, <1>5, <1>7 DEF Listed
  <2>7. pc'[q] \in Cleaned => pc[q] \in Cleaned
      BY <1>5, <1>7 DEF Cleaned
  <2>8. pc'[q] \in Listed => Seen(q)'
      BY <2>1, <2>2, <2>3, <2>4, <2>6 DEF RunWrites, Seen
  <2>9. pc'[q] \in Cleaned => OnlyTrue(day[q])'
    <3> SUFFICES ASSUME pc'[q] \in Cleaned PROVE OnlyTrue(d)'
        BY <2>4
    <3>1. OnlyTrue(d)
        BY <2>1, <2>2, <2>7 DEF RunWrites
    <3> QED
        BY <2>3, <3>1 DEF OnlyTrue
  <2> QED
      BY <2>5, <2>8, <2>9 DEF RunWrites
<1> QED
    BY <1>6, <1>9, <1>11 DEF TableInv

(* The deletion of a sound run takes what it has seen and not written: of  *)
(* its own day the true flights are left, and no true one is lost.         *)
LEMMA TableDelete ==
    ASSUME CarryInv, ExpectedInv, TableInv, NEW p \in Procs, DeleteStale(p)
    PROVE  TableInv'
<1> DEFINE stale == existing[p] \ {Key(r) : r \in Upserted(p)}
<1>1. PICK x \in Days : x = day[p]
    BY DEF CarryInv, Shape
<1>2. /\ UNCHANGED <<day, existing, done>> /\ pc[p] = "stale"
      /\ pc' = [pc EXCEPT ![p] = "stats"] /\ Disturb(p, {})
      /\ flights' = {r \in flights : ~(Key(r) \in stale /\ r.batch = x)}
    BY <1>1 DEF DeleteStale, Goto
<1>3. \A k : k \in stale <=> k \in existing[p] /\ ~\E n \in Upserted(p) : Key(n) = k
    OBVIOUS
<1> HIDE DEF stale
<1>4. \A q \in Procs : pc'[q] = IF q = p THEN "stats" ELSE pc[q]
    BY <1>2 DEF CarryInv, Shape
<1>5. done[p] = Aircraft
    BY <1>2 DEF TableInv, TableShape, AllDone
<1>6. \A ac \in Aircraft : p \in sound => TrueFlights(x, ac) \subseteq Upserted(p)
  <2> SUFFICES ASSUME NEW ac \in Aircraft, p \in sound, NEW r \in TrueFlights(x, ac)
               PROVE  r \in Upserted(p)
      OBVIOUS
  <2>1. carry[p] = InOrderCarry[x - 1]
      BY <1>1 DEF CarryInv, RunsInOrder
  <2>2. Split[day[p]][ac][carry[p][ac]].flights = TrueFlights(x, ac)
      BY <1>1, <2>1, SplitInOrder DEF TrueFlights
  <2> QED
      BY <1>5, <2>2 DEF Upserted
<1>7. p \in sound => \A r \in Upserted(p) : \E ac \in Aircraft : r \in TrueFlights(x, ac)
  <2> SUFFICES ASSUME p \in sound, NEW r \in Upserted(p)
               PROVE  \E ac \in Aircraft : r \in TrueFlights(x, ac)
      OBVIOUS
  <2>1. PICK ac \in Aircraft : r \in Split[day[p]][ac][carry[p][ac]].flights
      BY <1>5 DEF Upserted
  <2>2. carry[p] = InOrderCarry[x - 1]
      BY <1>1 DEF CarryInv, RunsInOrder
  <2>3. Split[day[p]][ac][carry[p][ac]].flights = TrueFlights(x, ac)
      BY <1>1, <2>2, SplitInOrder DEF TrueFlights
  <2> QED
      BY <2>1, <2>3
<1>8. flights' \subseteq flights
    BY <1>2
<1>9. ASSUME NEW d \in Days, p \in sound \/ d # x, NEW b \in Aircraft, Written(d, b)
      PROVE  Written(d, b)'
  <2>1. ASSUME NEW r \in TrueFlights(d, b), ~Extended(r, d, b) PROVE r \in flights'
    <3>1. r \in flights /\ r.batch = d
        BY <1>9, <2>1, TrueRows DEF Written
    <3>2. d = x => r \in Upserted(p)
        BY <1>6, <1>9, <2>1
    <3>3. d = x => Key(r) \notin stale
        BY <1>3, <3>2
    <3> QED
        BY <1>2, <3>1, <3>3
  <2> QED
      BY <1>8, <1>9, <2>1 DEF Written, Extended
<1>10. p \in sound => OnlyTrue(x)'
  <2> SUFFICES ASSUME p \in sound, NEW r \in flights', r.batch = x PROVE IsTrue(x, r)
      BY DEF OnlyTrue, IsTrue
  <2>1. RunWrites(p) /\ r \in flights /\ Key(r) \notin stale
      BY <1>2 DEF TableInv
  <2>2. Key(r) \in existing[p] \/ IsTrue(x, r)
      BY <1>1, <1>2, <2>1 DEF RunWrites, Listed, Seen
  <2>3. CASE Key(r) \in existing[p]
    <3>1. PICK n \in Upserted(p) : Key(n) = Key(r)
        BY <1>3, <2>1, <2>3
    <3>2. PICK ac \in Aircraft : n \in TrueFlights(x, ac)
        BY <1>7
    <3>3. Written(x, ac)
        BY <1>1, <1>5, <2>1 DEF RunWrites
    <3>4. r.batch > x \/ r \in TrueFlights(x, ac)
        BY <2>1, <3>1, <3>2, <3>3 DEF Written, Has
    <3>5. ~(x > x)
        BY Constants
    <3> QED
        BY <3>4, <3>5 DEF IsTrue
  <2> QED
      BY <2>2, <2>3
<1>11. /\ \A d \in good' : d \in good /\ d \in Days /\ (p \in sound \/ d # x)
       /\ \A q \in sound' : /\ q \in sound /\ q \in Procs /\ day[q] \in Days
                            /\ p \in sound \/ day[q] # x
       /\ p \in sound' <=> p \in sound
    BY <1>1, <1>2, NotOverridden
<1>12. TableShape'
  <2>1. IsOn(existing, Procs)'
      BY <1>2 DEF TableInv, TableShape, IsOn
  <2>2. \A q \in Procs : /\ pc'[q] \notin Running => done'[q] = {}
                         /\ pc'[q] \in AllDone => done'[q] = Aircraft
      BY <1>2, <1>4, <1>5 DEF TableInv, TableShape, Running
  <2> QED
      BY <1>2, <1>8, <2>1, <2>2 DEF TableInv, TableShape
<1>13. \A d : OnlyTrue(d) => OnlyTrue(d)'
    BY <1>8 DEF OnlyTrue, IsTrue
<1>14. \A d \in good' : DayWritten(d)'
    BY <1>9, <1>11, <1>13 DEF TableInv, DayWritten
<1>15. ASSUME NEW q \in sound' PROVE RunWrites(q)'
  <2>1. PICK d \in Days : d = day[q]
      BY <1>11
  <2>2. RunWrites(q)
      BY <1>11 DEF TableInv
  <2>3. day'[q] = d /\ existing'[q] = existing[q] /\ done'[q] = done[q] /\ done[q] \subseteq Aircraft
      BY <1>2, <1>11, <2>1 DEF TableInv, TableShape
  <2>4. \A b \in done'[q] : Written(day[q], b)'
    <3> SUFFICES ASSUME NEW b \in done[q] PROVE Written(d, b)'
        BY <2>3
    <3>1. Written(d, b)
        BY <2>1, <2>2 DEF RunWrites
    <3> QED
        BY <1>9, <1>11, <2>1, <2>3, <3>1
  <2>5. pc'[q] \in Listed => pc[q] \in Listed
      BY <1>4, <1>11 DEF Listed
  <2>6. pc'[q] \in Listed => Seen(q)'
      BY <1>8, <2>1, <2>2, <2>3, <2>5 DEF RunWrites, Seen, IsTrue
  <2>7. pc'[q] \in Cleaned => OnlyTrue(day[q])'
    <3> SUFFICES ASSUME pc'[q] \in Cleaned PROVE OnlyTrue(d)'
        BY <2>3
    <3>1. CASE q = p
        BY <1>1, <1>10, <1>11, <2>1, <3>1
    <3>2. CASE q # p
        BY <1>4, <1>11, <1>13, <2>1, <2>2, <3>2 DEF RunWrites
    <3> QED
        BY <3>1, <3>2
  <2> QED
      BY <2>4, <2>6, <2>7 DEF RunWrites
<1> QED
    BY <1>12, <1>14, <1>15 DEF TableInv

LEMMA TableMoves ==
    ASSUME CarryInv, TableInv, NEW p \in Procs, WriteStaging(p) \/ UpsertStats(p) \/ PurgeExpiredStaging(p)
    PROVE  TableInv'
<1>1. /\ UNCHANGED <<flights, day, existing, done>> /\ good' \subseteq good /\ sound' \subseteq sound
      /\ \/ pc[p] = "carry" /\ pc' = [pc EXCEPT ![p] = "stale"]
         \/ pc[p] = "stats" /\ pc' = [pc EXCEPT ![p] = "succeed"]
         \/ pc[p] = "purge" /\ pc' = [pc EXCEPT ![p] = "idle"]
    BY DisturbsLess DEF WriteStaging, UpsertStats, PurgeExpiredStaging, Goto
<1>2. ASSUME NEW q \in Procs
      PROVE  /\ pc'[q] \in Running <=> pc[q] \in Running
             /\ pc'[q] \in AllDone <=> pc[q] \in AllDone
             /\ pc'[q] \in Listed <=> pc[q] \in Listed
             /\ pc'[q] \in Cleaned <=> pc[q] \in Cleaned
    BY <1>1 DEF CarryInv, Shape, Running, AllDone, Listed, Cleaned
<1>3. IsOn(existing, Procs)' /\ done' \in [Procs -> SUBSET Aircraft]
    BY <1>1 DEF TableInv, TableShape, IsOn
<1>4. \A q \in Procs : /\ pc'[q] \notin Running => done'[q] = {}
                       /\ pc'[q] \in AllDone => done'[q] = Aircraft
    BY <1>1, <1>2 DEF TableInv, TableShape
<1>5. \A q \in sound' : q \in sound /\ q \in Procs
    BY <1>1 DEF CarryInv, Shape
<1> QED
    BY <1>1, <1>2, <1>3, <1>4, <1>5, TableKept

(* The day of a sound run is good when the run ends: its flights are in    *)
(* the table and no others of its date.                                    *)
LEMMA TableSucceed ==
    ASSUME CarryInv, TableInv, NEW p \in Procs, Succeed(p)
    PROVE  TableInv'
<1>1. PICK x \in Days : x = day[p]
    BY DEF CarryInv, Shape
<1>2. /\ UNCHANGED flights /\ pc[p] = "succeed" /\ pc' = [pc EXCEPT ![p] = "purge"]
      /\ day' = [day EXCEPT ![p] = 1] /\ sound' = sound \ {p}
      /\ existing' = [existing EXCEPT ![p] = {}] /\ done' = [done EXCEPT ![p] = {}]
      /\ good' = IF p \in sound THEN good \cup {x} ELSE good
    BY <1>1 DEF Succeed, Finish, Forget, Goto
<1>3. \A q \in Procs : /\ pc'[q] = IF q = p THEN "purge" ELSE pc[q]
                       /\ q # p => day'[q] = day[q]
    BY <1>2 DEF CarryInv, Shape
<1>4. /\ IsOn(existing, Procs)' /\ \A q \in Procs : q # p => existing'[q] = existing[q]
      /\ done' \in [Procs -> SUBSET Aircraft]
      /\ \A q \in Procs : done'[q] = IF q = p THEN {} ELSE done[q]
    BY <1>2 DEF TableInv, TableShape, IsOn
<1>5. TableShape'
    BY <1>2, <1>3, <1>4 DEF TableInv, TableShape, Running, AllDone
<1>6. /\ \A d, ac : Written(d, ac)' <=> Written(d, ac)
      /\ \A d : OnlyTrue(d)' <=> OnlyTrue(d)
    BY <1>2 DEF Written, OnlyTrue
<1>7. p \in sound => DayWritten(x)
  <2> SUFFICES ASSUME p \in sound PROVE DayWritten(x)
      OBVIOUS
  <2>1. RunWrites(p) /\ done[p] = Aircraft
      BY <1>2 DEF TableInv, TableShape, AllDone
  <2> QED
      BY <1>1, <1>2, <2>1 DEF RunWrites, Cleaned, DayWritten
<1>8. \A d \in good' : DayWritten(d)'
    BY <1>2, <1>6, <1>7 DEF TableInv, DayWritten
<1>9. ASSUME NEW q \in sound' PROVE RunWrites(q)'
  <2>1. q \in sound /\ q \in Procs /\ q # p
      BY <1>2 DEF CarryInv, Shape
  <2>2. RunWrites(q)
      BY <2>1 DEF TableInv
  <2>3. pc'[q] = pc[q] /\ day'[q] = day[q] /\ existing'[q] = existing[q] /\ done'[q] = done[q]
      BY <1>3, <1>4, <2>1
  <2>4. Seen(q)' <=> Seen(q)
      BY <1>2, <2>3 DEF Seen
  <2> QED
      BY <1>6, <2>2, <2>3, <2>4 DEF RunWrites
<1> QED
    BY <1>5, <1>8, <1>9 DEF TableInv

LEMMA TableStays ==
    ASSUME CarryInv, ExpectedInv, TableInv, [Next]_vars
    PROVE  TableInv'
<1>1. CASE UNCHANGED vars
    BY <1>1, TableQueue DEF vars
<1>2. CASE BeginScheduled
    BY <1>2, TableBegin DEF BeginScheduled
<1>3. CASE \E d \in Days : BeginManual(d)
    BY <1>3, TableBegin DEF BeginManual
<1>4. CASE Poll
    BY <1>4, TableQueue DEF Poll
<1>5. CASE SkipRelease
    BY <1>5, TableQueue DEF SkipRelease
<1>6. ASSUME NEW p \in Procs, RunStep(p) PROVE TableInv'
    BY <1>6, TableLoad, TableList, TableFlush, TableDelete, TableMoves, TableSucceed DEF RunStep
<1>7. ASSUME NEW p \in Procs, Fail(p) \/ Crash(p) PROVE TableInv'
    BY <1>7, TableEnds
<1>8. ASSUME NEW p \in Procs, NEW d \in Days, FetchFails(p, d) PROVE TableInv'
    BY <1>8, TableQueue DEF FetchFails
<1> QED
    BY <1>1, <1>2, <1>3, <1>4, <1>5, <1>6, <1>7, <1>8 DEF Next

(* What an undisturbed ingestion leaves: the flights of each day that no   *)
(* later one extends.                                                      *)
LEMMA SnapshotsAre ==
    \A n \in 0..LastDay, ac \in Aircraft : \A r :
        r \in Snapshots[ac][n] <=>
            \E d \in 1..n : /\ r \in TrueFlights(d, ac)
                            /\ \A e \in 1..n : e > d => ~Has(TrueFlights(e, ac), r)
<1> DEFINE Are(n) == \A ac \in Aircraft : \A r :
               r \in Snapshots[ac][n] <=>
                   \E d \in 1..n : /\ r \in TrueFlights(d, ac)
                                   /\ \A e \in 1..n : e > d => ~Has(TrueFlights(e, ac), r)
           S == {n \in Nat : n \in 0..LastDay => Are(n)}
<1>1. 0 \in S
    BY SnapshotStep
<1>2. ASSUME NEW n \in Nat, n \in S PROVE n + 1 \in S
  <2> SUFFICES ASSUME n + 1 \in 0..LastDay PROVE Are(n + 1)
      OBVIOUS
  <2>1. PICK m \in Days : m = n + 1 /\ m - 1 = n /\ n \in 0..LastDay
      BY Constants
  <2>2. Are(n)
      BY <1>2, <2>1
  <2>3. ASSUME NEW ac \in Aircraft, NEW r
        PROVE  r \in Snapshots[ac][m] <=>
                   \E d \in 1..m : /\ r \in TrueFlights(d, ac)
                                   /\ \A e \in 1..m : e > d => ~Has(TrueFlights(e, ac), r)
    <3>1. Snapshots[ac][m] = Upsert(Snapshots[ac][n], TrueFlights(m, ac))
        BY <2>1, SnapshotStep DEF TrueFlights
    <3>2. r \in Snapshots[ac][m] <=> \/ r \in TrueFlights(m, ac)
                                     \/ r \in Snapshots[ac][n] /\ ~Has(TrueFlights(m, ac), r)
        BY <3>1 DEF Upsert, Has
    <3>3. r \in Snapshots[ac][n] <=>
              \E d \in 1..n : /\ r \in TrueFlights(d, ac)
                              /\ \A e \in 1..n : e > d => ~Has(TrueFlights(e, ac), r)
        BY <2>2
    <3>4. \A e : e \in 1..m <=> e \in 1..n \/ e = m
        BY <2>1
    <3>5. \A d \in 1..n : m > d /\ ~(d > m)
        BY <2>1
    <3>6. ~(m > m)
        BY <2>1
    <3> QED
        BY <3>2, <3>3, <3>4, <3>5, <3>6
  <2> QED
      BY <2>1, <2>3
<1>3. Nat \subseteq S
  <2> HIDE DEF S
  <2> QED
      BY <1>1, <1>2, SetInduction
<1> QED
    BY <1>3

LEMMA GoodTable ==
    ASSUME TableInv, good = Days
    PROVE  flights = AllFlights
<1>1. LastDay \in 0..LastDay /\ Days = 1..LastDay
    BY Constants
<1>2. \A d, e \in Days : d > e => ~(e > d) /\ d # e
    BY Constants
<1>3. \A r : r \in AllFlights <=>
          \E ac \in Aircraft : \E d \in Days : r \in TrueFlights(d, ac) /\ ~Extended(r, d, ac)
  <2> TAKE r
  <2>1. r \in AllFlights <=> \E ac \in Aircraft : r \in Snapshots[ac][LastDay]
      BY DEF AllFlights
  <2>2. ASSUME NEW ac \in Aircraft
        PROVE  r \in Snapshots[ac][LastDay] <=>
                   \E d \in Days : r \in TrueFlights(d, ac) /\ ~Extended(r, d, ac)
      BY <1>1, SnapshotsAre DEF Extended
  <2> QED
      BY <2>1, <2>2
<1>4. ASSUME NEW r \in flights PROVE r \in AllFlights
  <2>1. PICK d \in Days : d = r.batch
      BY DEF TableInv, TableShape
  <2>2. DayWritten(d)
      BY DEF TableInv
  <2>3. PICK ac \in Aircraft : r \in TrueFlights(d, ac)
      BY <2>1, <2>2 DEF DayWritten, OnlyTrue, IsTrue
  <2>4. ASSUME NEW e \in Days, e > d, Has(TrueFlights(e, ac), r) PROVE FALSE
    <3>1. Written(e, ac)
        BY DEF TableInv, DayWritten
    <3>2. d > e \/ r \in TrueFlights(e, ac)
        BY <2>1, <2>4, <3>1 DEF Written
    <3>3. d = e
        BY <1>2, <2>1, <2>4, <3>2, TrueRows
    <3> QED
        BY <1>2, <2>4, <3>3
  <2> QED
      BY <1>3, <2>3, <2>4 DEF Extended
<1>5. ASSUME NEW r \in AllFlights PROVE r \in flights
  <2>1. PICK ac \in Aircraft, d \in Days : r \in TrueFlights(d, ac) /\ ~Extended(r, d, ac)
      BY <1>3
  <2>2. Written(d, ac)
      BY DEF TableInv, DayWritten
  <2> QED
      BY <2>1, <2>2 DEF Written
<1> QED
    BY <1>4, <1>5

(* Once every day has been ingested in turn on the good carry of the day   *)
(* before, the table of flights is the one of an undisturbed ingestion of  *)
(* the days in order, whatever runs, overlaps, failures, deaths and purges *)
(* there were before: for any traces, any number of days and aircraft, any *)
(* thresholds and any bounds on faults.                                    *)
THEOREM RepairsReachTheTruth == Spec => []GoodDaysComplete
<1>1. Init => CarryInv /\ ExpectedInv /\ TableInv
    BY CarryInit, ExpectedInit, TableInit
<1>2. CarryInv /\ ExpectedInv /\ TableInv /\ [Next]_vars => (CarryInv /\ ExpectedInv /\ TableInv)'
    BY CarryStays, ExpectedStays, TableStays
<1>3. TableInv => GoodDaysComplete
    BY GoodTable DEF GoodDaysComplete
<1> QED
    BY <1>1, <1>2, <1>3, PTL DEF Spec

-----------------------------------------------------------------------------
(* The lemmas about splits are those of CarryOverProofs, which holds for   *)
(* any state of one aircraft: here for a system that does nothing.  They   *)
(* ask what Splitter does, that no two reports of a trace have one time.   *)
OneReportPerTime ==
    \A d \in Days, ac \in Aircraft : \A p, q \in Trace[d][ac] : p.ts = q.ts => p = q

Lone == INSTANCE CarryOverProofs WITH
    Days <- {}, DayTraces <- {},
    runs <- 0, day <- 0, phase <- "idle", points <- {}, todo <- {}, seg <- {}, prev <- NoPoint,
    flightStart <- 0, upserts <- {}, staged <- [d \in {} |-> {}], rows <- {}

(* The constraints on the thresholds, as a fact that the instance can use. *)
LEMMA Thresholds ==
    /\ DayLen \in Nat /\ MaxSegment \in Nat
    /\ GroundGap \in Nat /\ SubSeqGap \in Nat /\ MaxStitchGap \in Nat /\ WindowAir \in Nat
    /\ MaxStitchSpeed \in Nat /\ MinStitchSpeed \in Nat /\ MaxPointSpeed \in Nat
    /\ MaxSegment <= DayLen
    /\ GroundGap < DayLen
    /\ WindowAir < DayLen
BY SplitterConstants

(* Both modules split alike. *)
LEMMA SameWalked == \A S : Lone!Walked(S) = Walked(S)
BY DEF Lone!Walked, Lone!AddPoint, Walked, AddPoint, Lone!FoldLeft, FoldLeft, Lone!MapThenFoldSet,
       MapThenFoldSet, Lone!Cardinality, Cardinality, Lone!InOrder, InOrder, Lone!NothingWalked,
       NothingWalked, Lone!NoPoint, NoPoint, Lone!Max, Max, Lone!ShouldFlightSplit, ShouldFlightSplit,
       Lone!LongAirGap, LongAirGap, Lone!Gap, Gap, Lone!Dist, Dist, Lone!GeographicallyPlausible,
       GeographicallyPlausible, Lone!GeographicallyActive, GeographicallyActive

LEMMA SamePlausible == \A S : Lone!Plausible(S) = Plausible(S)
BY DEF Lone!Plausible, Plausible, Lone!KeepPlausible, KeepPlausible, Lone!Implausible, Implausible,
       Lone!FoldLeft, FoldLeft, Lone!MapThenFoldSet, MapThenFoldSet, Lone!Cardinality, Cardinality,
       Lone!InOrder, InOrder, Lone!ToSet, ToSet, Lone!Max, Max, Lone!Gap, Gap, Lone!Dist, Dist

LEMMA SameFlights == \A S : Lone!FinalizeSegment(S) = FinalizeSegment(S)
BY SamePlausible DEF Lone!FinalizeSegment, FinalizeSegment, Lone!OnPath, OnPath, Lone!Gap, Gap

LEMMA SameSplit == \A S : Lone!SplitFlights(S) = SplitFlights(S)
BY SameWalked, SameFlights DEF Lone!SplitFlights, SplitFlights, Lone!AtLeastTwo, AtLeastTwo

LEMMA SameCarry == \A S, M : Lone!InProgressPoints(S, M) = InProgressPoints(S, M)
BY SameWalked DEF Lone!InProgressPoints, InProgressPoints, Lone!AtLeastTwo, AtLeastTwo,
       Lone!InProgress, InProgress, Lone!InProgressWindow, InProgressWindow

OneAtATime(S) == \A p, q \in S : p.ts = q.ts => p = q

(* The flights of a split start at points of it, each at its own.          *)
LEMMA SplitStarts ==
    ASSUME NEW S \in SUBSET Point, OneAtATime(S), NEW lo \in Int, NEW hi \in Int,
           \A p \in S : lo < p.ts /\ p.ts <= hi
    PROVE  /\ \A f \in SplitFlights(S) : f.start \in Int /\ f.end \in Int /\ \E p \in S : p.ts = f.start
           /\ \A f, g \in SplitFlights(S) : f.start = g.start => f = g
<1>1. S \in SUBSET Lone!Point /\ Lone!OneAtATime(S)
    BY DEF Lone!Point, Point, Lone!OneAtATime, OneAtATime
<1>2. \A p \in S : lo < p.ts /\ p.ts <= hi OBVIOUS
<1>3. /\ \A f \in Lone!SplitFlights(S) : f.start \in Int /\ f.end \in Int /\ \E p \in S : p.ts = f.start
      /\ \A f, g \in Lone!SplitFlights(S) : f.start = g.start => f = g
    BY ONLY <1>1, <1>2, lo \in Int, hi \in Int, Thresholds, Lone!SplitStarts
<1> QED BY <1>3, SameSplit

(* What is carried over a midnight are points of the two days before it.   *)
LEMMA CarryBounds ==
    ASSUME NEW S \in SUBSET Point, OneAtATime(S), NEW lo \in Int, NEW M \in Int,
           \A p \in S : lo < p.ts /\ p.ts <= M
    PROVE  /\ InProgressPoints(S, M) \subseteq S
           /\ \A p \in InProgressPoints(S, M) : M - 2 * DayLen < p.ts
<1>1. S \in SUBSET Lone!Point /\ Lone!OneAtATime(S)
    BY DEF Lone!Point, Point, Lone!OneAtATime, OneAtATime
<1>2. \A p \in S : lo < p.ts /\ p.ts <= M OBVIOUS
<1>3. /\ Lone!InProgressPoints(S, M) \subseteq S
      /\ \A p \in Lone!InProgressPoints(S, M) : M - 2 * DayLen < p.ts
    BY ONLY <1>1, <1>2, lo \in Int, M \in Int, Thresholds, Lone!CarryBounds
<1> QED BY <1>3, SameCarry

(* One flight at most of a split of carried and new points starts before   *)
(* the midnight, and one that starts a day before it is a flight of the    *)
(* split that left the carry.                                              *)
LEMMA CarriedOnce ==
    ASSUME NEW S \in SUBSET Point, OneAtATime(S), NEW lo \in Int, NEW M \in Int,
           \A p \in S : lo < p.ts /\ p.ts <= M,
           NEW D \in SUBSET Point, OneAtATime(D), NEW hi \in Int,
           \A p \in D : M < p.ts /\ p.ts <= hi,
           NEW f \in SplitFlights(InProgressPoints(S, M) \cup D), f.start <= M
    PROVE  /\ \A g \in SplitFlights(InProgressPoints(S, M) \cup D) : g.start <= M => g = f
           /\ f.start <= M - DayLen => f \in SplitFlights(S)
<1>1. /\ S \in SUBSET Lone!Point /\ Lone!OneAtATime(S)
      /\ D \in SUBSET Lone!Point /\ Lone!OneAtATime(D)
    BY DEF Lone!Point, Point, Lone!OneAtATime, OneAtATime
<1>2. /\ \A p \in S : lo < p.ts /\ p.ts <= M
      /\ \A p \in D : M < p.ts /\ p.ts <= hi
    OBVIOUS
<1>3. f \in Lone!SplitFlights(Lone!InProgressPoints(S, M) \cup D) /\ f.start <= M
    BY SameSplit, SameCarry
<1>4. /\ \A g \in Lone!SplitFlights(Lone!InProgressPoints(S, M) \cup D) : g.start <= M => g = f
      /\ f.start <= M - DayLen => f \in Lone!SplitFlights(S)
    BY ONLY <1>1, <1>2, <1>3, lo \in Int, M \in Int, hi \in Int, Thresholds, Lone!CarriedOnce
<1> QED BY <1>4, SameSplit, SameCarry

-----------------------------------------------------------------------------
(* What a day splits, in time. *)

(* The midnights of days that follow each other.                           *)
LEMMA Midnights ==
    ASSUME NEW d \in Int
    PROVE  /\ Midnight(d) \in Int /\ DayLen \in Nat
           /\ Midnight(d - 1) = Midnight(d) - DayLen
           /\ Midnight(d - 2) = Midnight(d) - 2 * DayLen
           /\ Midnight(d - 3) = Midnight(d) - 3 * DayLen
           /\ Midnight((d - 1) - 2) = Midnight(d - 3)
<1>1. (d - 1) * DayLen = d * DayLen - DayLen /\ (d - 2) * DayLen = d * DayLen - 2 * DayLen
      /\ (d - 3) * DayLen = d * DayLen - 3 * DayLen /\ d * DayLen \in Int
  <2>1. DayLen \in Int BY Thresholds
  <2> QED BY <2>1, Z3
<1>2. (d - 1) - 2 = d - 3 OBVIOUS
<1> QED BY <1>1, <1>2, Thresholds DEF Midnight

(* A later day has a later midnight.                                       *)
LEMMA MidnightsRise ==
    ASSUME NEW a \in Int, NEW b \in Int, a <= b
    PROVE  Midnight(a) <= Midnight(b)
<1>1. (b - a) * DayLen \in Nat
  <2>1. b - a \in Nat OBVIOUS
  <2> QED BY <2>1, Thresholds
<1>2. b * DayLen = a * DayLen + (b - a) * DayLen /\ a * DayLen \in Int
  <2>1. DayLen \in Int BY Thresholds
  <2> QED BY <2>1, Z3
<1> QED BY <1>1, <1>2 DEF Midnight

(* What is after one midnight and not after another tells their order.     *)
LEMMA DayBefore ==
    ASSUME NEW a \in Int, NEW b \in Int, NEW t \in Int, Midnight(a) < t, t <= Midnight(b)
    PROVE  a < b
<1>1. Midnight(a) \in Int /\ Midnight(b) \in Int BY Midnights
<1>2. b <= a => Midnight(b) <= Midnight(a) BY MidnightsRise
<1> QED BY <1>1, <1>2

Within(S, lo, hi) == /\ S \in SUBSET Point /\ OneAtATime(S)
                     /\ \A p \in S : Midnight(lo) < p.ts /\ p.ts <= Midnight(hi)

(* The points of a trace are within its day.                               *)
LEMMA DayPointsWithin ==
    ASSUME OneReportPerTime, NEW d \in Days, NEW ac \in Aircraft
    PROVE  Within(DayPoints(d, ac), d - 1, d)
<1>1. d \in Int BY Constants
<1>2. /\ Midnight(d) \in Int /\ Midnight(d - 1) = Midnight(d) - DayLen /\ DayLen \in Nat
      /\ Midnight(d - 1) \in Int
    BY <1>1, Midnights
<1>3. ASSUME NEW q \in Trace[d][ac]
      PROVE  /\ q \in Point /\ 0 < q.ts /\ q.ts <= DayLen /\ q.ts \in Int
             /\ [q EXCEPT !.ts = Midnight(d - 1) + q.ts] \in Point
             /\ [q EXCEPT !.ts = Midnight(d - 1) + q.ts].ts = Midnight(d - 1) + q.ts
  <2>1. q \in Point /\ 0 < q.ts /\ q.ts <= DayLen BY IngestConstants
  <2>2. q.ts \in Int BY <2>1 DEF Point
  <2> QED BY <1>2, <2>1, <2>2 DEF Point
<1>4. \A p \in DayPoints(d, ac) : \E q \in Trace[d][ac] : p = [q EXCEPT !.ts = Midnight(d - 1) + q.ts]
    BY DEF DayPoints
<1>5. ASSUME NEW p \in DayPoints(d, ac)
      PROVE  p \in Point /\ Midnight(d - 1) < p.ts /\ p.ts <= Midnight(d)
  <2>1. PICK q \in Trace[d][ac] : p = [q EXCEPT !.ts = Midnight(d - 1) + q.ts] BY <1>4
  <2>2. p \in Point /\ p.ts = Midnight(d - 1) + q.ts /\ 0 < q.ts /\ q.ts <= DayLen /\ q.ts \in Int
      BY <1>3, <2>1
  <2> QED BY <1>2, <2>2
<1>6. ASSUME NEW p \in DayPoints(d, ac), NEW r \in DayPoints(d, ac), p.ts = r.ts
      PROVE  p = r
  <2>1. PICK q \in Trace[d][ac] : p = [q EXCEPT !.ts = Midnight(d - 1) + q.ts] BY <1>4
  <2>2. PICK s \in Trace[d][ac] : r = [s EXCEPT !.ts = Midnight(d - 1) + s.ts] BY <1>4
  <2>3. /\ p.ts = Midnight(d - 1) + q.ts /\ r.ts = Midnight(d - 1) + s.ts
        /\ q.ts \in Int /\ s.ts \in Int
      BY <1>3, <2>1, <2>2
  <2> DEFINE m == Midnight(d - 1)
             a == q.ts
             b == s.ts
  <2>4. a = b
    <3>1. m + a = m + b BY <1>6, <2>3
    <3>2. m \in Int /\ a \in Int /\ b \in Int BY <1>2, <2>3
    <3> HIDE DEF m, a, b
    <3> QED BY <3>1, <3>2
  <2>5. q = s BY <2>4 DEF OneReportPerTime
  <2> QED BY <2>1, <2>2, <2>5
<1> QED BY <1>5, <1>6 DEF Within, OneAtATime

(* The points of a day and a carry of the day before. *)
LEMMA MergedWithin ==
    ASSUME OneReportPerTime, NEW d \in Days, NEW ac \in Aircraft, NEW base, Within(base, d - 3, d - 1)
    PROVE  Within(base \cup DayPoints(d, ac), d - 3, d)
<1>1. d \in Int BY Constants
<1>2. /\ Midnight(d) \in Int /\ Midnight(d - 1) = Midnight(d) - DayLen
      /\ Midnight(d - 3) = Midnight(d) - 3 * DayLen /\ DayLen \in Nat
    BY <1>1, Midnights
<1>3. Within(DayPoints(d, ac), d - 1, d) BY DayPointsWithin
<1>4. /\ \A p \in base : p \in Point /\ p.ts \in Int /\ Midnight(d - 3) < p.ts /\ p.ts <= Midnight(d - 1)
      /\ \A p \in DayPoints(d, ac) :
             p \in Point /\ p.ts \in Int /\ Midnight(d - 1) < p.ts /\ p.ts <= Midnight(d)
    BY <1>3 DEF Within, Point
<1> DEFINE D == DayPoints(d, ac)
<1>5. OneAtATime(base) /\ OneAtATime(D) BY <1>3 DEF Within
<1> HIDE DEF D
<1>6. OneAtATime(base \cup D)
  <2> SUFFICES ASSUME NEW p \in base \cup D, NEW q \in base \cup D, p.ts = q.ts PROVE p = q
      BY DEF OneAtATime
  <2>1. CASE p \in base /\ q \in base BY <1>5, <2>1 DEF OneAtATime
  <2>2. CASE p \in D /\ q \in D BY <1>5, <2>2 DEF OneAtATime
  <2>3. CASE p \in base /\ q \in D
    <3>1. p.ts <= Midnight(d - 1) /\ Midnight(d - 1) < q.ts BY <1>4, <2>3 DEF D
    <3> QED BY <1>2, <1>4, <2>3, <3>1
  <2>4. CASE p \in D /\ q \in base
    <3>1. q.ts <= Midnight(d - 1) /\ Midnight(d - 1) < p.ts BY <1>4, <2>4 DEF D
    <3> QED BY <1>2, <1>4, <2>4, <3>1
  <2> QED BY <2>1, <2>2, <2>3, <2>4
<1>7. \A p \in base \cup D : p \in Point /\ Midnight(d - 3) < p.ts /\ p.ts <= Midnight(d)
    BY <1>2, <1>4 DEF D
<1> QED BY <1>6, <1>7 DEF Within, D

(* The points that a run carries are within its day and the one before.    *)
LEMMA CarryWithin ==
    ASSUME OneReportPerTime, NEW d \in Days, NEW ac \in Aircraft, NEW base, Within(base, d - 3, d - 1)
    PROVE  Within(CarryOf(d, ac, base), d - 2, d)
<1> DEFINE S == base \cup DayPoints(d, ac)
<1>1. d \in Int /\ Midnight(d) \in Int /\ Midnight(d - 3) \in Int
      /\ Midnight(d - 2) = Midnight(d) - 2 * DayLen
  <2>1. d \in Int /\ d - 3 \in Int BY Constants
  <2> QED BY <2>1, Midnights
<1>2. Within(S, d - 3, d) BY MergedWithin
<1>3. CarryOf(d, ac, base) = InProgressPoints(S, Midnight(d)) BY DEF CarryOf
<1> HIDE DEF S
<1>4. /\ InProgressPoints(S, Midnight(d)) \subseteq S
      /\ \A p \in InProgressPoints(S, Midnight(d)) : Midnight(d) - 2 * DayLen < p.ts
    BY <1>1, <1>2, CarryBounds DEF Within
<1> QED BY <1>1, <1>2, <1>3, <1>4 DEF Within, OneAtATime

(* So it is of every carry that a day can begin with. *)
LEMMA BasesWithin ==
    ASSUME OneReportPerTime
    PROVE  \A d \in Days, ac \in Aircraft : \A base \in CarriesInto[d][ac] : Within(base, d - 3, d - 1)
<1> DEFINE Good(d) == \A ac \in Aircraft : \A base \in CarriesInto[d][ac] : Within(base, d - 3, d - 1)
           A == {n \in Nat : n + 1 \in Days => Good(n + 1)}
<1>1. \A d \in Days, ac \in Aircraft : CarriesInto[d][ac] =
          {{}} \cup IF d = 1 THEN {} ELSE {CarryOf(d - 1, ac, base) : base \in CarriesInto[d - 1][ac]}
  <2> TAKE d \in Days, ac \in Aircraft
  <2>1. IntoStep(CarriesInto, d)[ac] =
          {{}} \cup IF d = 1 THEN {} ELSE {CarryOf(d - 1, ac, base) : base \in CarriesInto[d - 1][ac]}
      BY Zenon DEF IntoStep
  <2>2. \A e \in Days : CarriesInto[e] = IntoStep(CarriesInto, e) BY CarriesIntoDef, Zenon
  <2> QED BY <2>1, <2>2
<1>2. \A lo, hi : Within({}, lo, hi) BY DEF Within, OneAtATime
<1>3. 0 \in A
  <2>1. ASSUME 1 \in Days PROVE Good(1)
    <3>1. \A ac \in Aircraft : CarriesInto[1][ac] = {{}} BY <1>1, <2>1
    <3>2. ASSUME NEW ac \in Aircraft, NEW base \in CarriesInto[1][ac]
          PROVE  Within(base, 1 - 3, 1 - 1)
      <4>1. base = {} BY <3>1
      <4> QED BY <1>2, <4>1
    <3> QED BY <3>2
  <2> QED BY <2>1
<1>4. ASSUME NEW n \in Nat, n \in A, (n + 1) + 1 \in Days PROVE Good((n + 1) + 1)
  <2> DEFINE d == n + 1
  <2>1. d \in Days /\ d + 1 \in Days /\ (d + 1) - 1 = d /\ d + 1 # 1 /\ (d + 1) - 3 = d - 2
      BY <1>4, Constants
  <2>2. Good(d) BY <1>4, <2>1
  <2> HIDE DEF d
  <2>3. ASSUME NEW ac \in Aircraft, NEW base \in CarriesInto[d + 1][ac]
        PROVE  Within(base, (d + 1) - 3, (d + 1) - 1)
    <3>1. CarriesInto[d + 1][ac] = {{}} \cup {CarryOf(d, ac, b) : b \in CarriesInto[d][ac]}
        BY <1>1, <2>1
    <3>2. base = {} \/ \E b \in CarriesInto[d][ac] : base = CarryOf(d, ac, b) BY <2>3, <3>1
    <3> QED BY <1>2, <2>1, <2>2, <3>2, CarryWithin
  <2> QED BY <2>3 DEF d
<1>5. \A n \in Nat : n \in A => n + 1 \in A BY <1>4
<1>6. Nat \subseteq A
  <2> HIDE DEF A
  <2> QED BY <1>3, <1>5, SetInduction
<1>7. ASSUME NEW d \in Days PROVE Good(d)
  <2>1. d - 1 \in Nat /\ (d - 1) + 1 = d BY Constants
  <2>2. d - 1 \in A BY <1>6, <2>1
  <2> QED BY <2>1, <2>2
<1> QED BY <1>7

(* The flights of a day start on it or on the two days before, no two of   *)
(* an aircraft together.                                                   *)
Starts(r, d) == r.start \in Int /\ Midnight(d - 3) < r.start /\ r.start <= Midnight(d)

(* The rows that a run writes for an aircraft start within its day and the *)
(* two before, each at its own time.                                       *)
LEMMA FlightsWithin ==
    ASSUME OneReportPerTime, NEW d \in Days, NEW ac \in Aircraft, NEW base \in CarriesInto[d][ac]
    PROVE  /\ \A r \in FlightsOf(d, ac, base) : Starts(r, d)
           /\ \A r, s \in FlightsOf(d, ac, base) : r.start = s.start => r = s
<1> DEFINE S == base \cup DayPoints(d, ac)
<1>1. d \in Int /\ Midnight(d) \in Int /\ Midnight(d - 3) \in Int
  <2>1. d \in Int /\ d - 3 \in Int BY Constants
  <2> QED BY <2>1, Midnights
<1>2. Within(S, d - 3, d)
  <2>1. Within(base, d - 3, d - 1) BY BasesWithin
  <2> QED BY <2>1, MergedWithin
<1>3. \A r \in FlightsOf(d, ac, base) : \E f \in SplitFlights(S) :
          r = [ac |-> ac, start |-> f.start, end |-> f.end, batch |-> d]
    BY DEF FlightsOf
<1> HIDE DEF S
<1>4. /\ \A f \in SplitFlights(S) : f.start \in Int /\ f.end \in Int /\ \E p \in S : p.ts = f.start
      /\ \A f, g \in SplitFlights(S) : f.start = g.start => f = g
    BY <1>1, <1>2, SplitStarts DEF Within
<1>5. ASSUME NEW r \in FlightsOf(d, ac, base) PROVE Starts(r, d)
  <2>1. PICK f \in SplitFlights(S) : r.start = f.start BY <1>3
  <2>2. PICK p \in S : p.ts = f.start BY <1>4
  <2> QED BY <1>2, <1>4, <2>1, <2>2 DEF Within, Starts
<1>6. ASSUME NEW r \in FlightsOf(d, ac, base), NEW s \in FlightsOf(d, ac, base), r.start = s.start
      PROVE  r = s
  <2>1. PICK f \in SplitFlights(S) : r = [ac |-> ac, start |-> f.start, end |-> f.end, batch |-> d]
      BY <1>3
  <2>2. PICK g \in SplitFlights(S) : s = [ac |-> ac, start |-> g.start, end |-> g.end, batch |-> d]
      BY <1>3
  <2>3. f = g BY <1>4, <1>6, <2>1, <2>2
  <2> QED BY <2>1, <2>2, <2>3
<1> QED BY <1>5, <1>6

(* The same of the rows of an undisturbed ingestion.                       *)
LEMMA TrueWithin ==
    ASSUME OneReportPerTime, NEW d \in Days, NEW ac \in Aircraft
    PROVE  /\ \A r \in TrueFlights(d, ac) : Starts(r, d)
           /\ \A r, s \in TrueFlights(d, ac) : r.start = s.start => r = s
<1>1. InOrderCarry[d - 1][ac] \in CarriesInto[d][ac] BY InOrderCarryExpected
<1> QED BY <1>1, FlightsWithin DEF TrueFlights

(* Of the flights of the next day one at most starts on this day or        *)
(* before, and one that starts before is a flight of this day too.         *)
LEMMA TrueOnce ==
    ASSUME OneReportPerTime, NEW d \in Days, d + 1 \in Days, NEW ac \in Aircraft,
           NEW r \in TrueFlights(d + 1, ac), r.start <= Midnight(d)
    PROVE  /\ \A s \in TrueFlights(d + 1, ac) : s.start <= Midnight(d) => s = r
           /\ r.start <= Midnight(d - 1) => \E s \in TrueFlights(d, ac) : s.start = r.start
<1> DEFINE S == InOrderCarry[d - 1][ac] \cup DayPoints(d, ac)
           D == DayPoints(d + 1, ac)
           M == Midnight(d)
<1>1. /\ d \in Int /\ (d + 1) - 1 = d /\ Midnight(d) \in Int /\ Midnight(d - 3) \in Int
      /\ Midnight(d - 1) = Midnight(d) - DayLen /\ Midnight(d + 1) \in Int
  <2>1. d \in Int /\ d - 3 \in Int /\ d + 1 \in Int /\ (d + 1) - 1 = d BY Constants
  <2> QED BY <2>1, Midnights
<1>2. Within(S, d - 3, d)
  <2>1. InOrderCarry[d - 1][ac] \in CarriesInto[d][ac] BY InOrderCarryExpected
  <2>2. Within(InOrderCarry[d - 1][ac], d - 3, d - 1) BY <2>1, BasesWithin
  <2> QED BY <2>2, MergedWithin
<1>3. Within(D, d, d + 1) BY <1>1, DayPointsWithin
<1>4. InOrderCarry[d][ac] = InProgressPoints(S, M)
  <2>1. InOrderCarry[d] = [b \in Aircraft |-> CarryOf(d, b, InOrderCarry[d - 1][b])]
      BY InOrderCarryStep
  <2> QED BY <2>1 DEF CarryOf
<1>5. \A s \in TrueFlights(d + 1, ac) : \E f \in SplitFlights(InProgressPoints(S, M) \cup D) :
          s = [ac |-> ac, start |-> f.start, end |-> f.end, batch |-> d + 1]
  <2>1. TrueFlights(d + 1, ac) = FlightsOf(d + 1, ac, InOrderCarry[d][ac]) BY <1>1 DEF TrueFlights
  <2> QED BY <1>4, <2>1 DEF FlightsOf
<1>6. \A f \in SplitFlights(S) : \E s \in TrueFlights(d, ac) : s.start = f.start
  <2>1. TrueFlights(d, ac) =
            {[ac |-> ac, start |-> f.start, end |-> f.end, batch |-> d] : f \in SplitFlights(S)}
      BY DEF TrueFlights, FlightsOf
  <2> HIDE DEF S
  <2> TAKE f \in SplitFlights(S)
  <2> DEFINE s == [ac |-> ac, start |-> f.start, end |-> f.end, batch |-> d]
  <2>2. s \in TrueFlights(d, ac) /\ s.start = f.start BY <2>1
  <2> QED BY <2>2
<1> HIDE DEF S, D
<1>7. PICK f \in SplitFlights(InProgressPoints(S, M) \cup D) :
          r = [ac |-> ac, start |-> f.start, end |-> f.end, batch |-> d + 1]
    BY <1>5
<1>8. /\ \A g \in SplitFlights(InProgressPoints(S, M) \cup D) : g.start <= M => g = f
      /\ f.start <= M - DayLen => f \in SplitFlights(S)
  <2>1. f.start <= M /\ M \in Int BY <1>1, <1>7
  <2>2. /\ S \in SUBSET Point /\ OneAtATime(S) /\ Midnight(d - 3) \in Int
        /\ \A p \in S : Midnight(d - 3) < p.ts /\ p.ts <= M
        /\ D \in SUBSET Point /\ OneAtATime(D) /\ Midnight(d + 1) \in Int
        /\ \A p \in D : M < p.ts /\ p.ts <= Midnight(d + 1)
      BY <1>1, <1>2, <1>3 DEF Within
  <2> HIDE DEF M
  <2> QED BY <2>1, <2>2, CarriedOnce
<1>9. ASSUME NEW s \in TrueFlights(d + 1, ac), s.start <= Midnight(d) PROVE s = r
  <2>1. PICK g \in SplitFlights(InProgressPoints(S, M) \cup D) :
            s = [ac |-> ac, start |-> g.start, end |-> g.end, batch |-> d + 1]
      BY <1>5
  <2>2. g = f BY <1>8, <1>9, <2>1
  <2> QED BY <1>7, <2>1, <2>2
<1>10. ASSUME r.start <= Midnight(d - 1) PROVE \E s \in TrueFlights(d, ac) : s.start = r.start
  <2>1. f \in SplitFlights(S) BY <1>1, <1>7, <1>8, <1>10
  <2> QED BY <1>6, <1>7, <2>1
<1> QED BY <1>9, <1>10

(* A flight that a later day extends is one that the next day extends.     *)
LEMMA ExtendedNext ==
    ASSUME OneReportPerTime, NEW d \in Days, NEW ac \in Aircraft,
           NEW r \in TrueFlights(d, ac), Extended(r, d, ac)
    PROVE  d + 1 \in Days /\ Has(TrueFlights(d + 1, ac), r)
<1>1. PICK e \in Days : e > d /\ Has(TrueFlights(e, ac), r) BY DEF Extended
<1>2. d \in Nat /\ e \in Nat /\ d \in 1..LastDay /\ e \in 1..LastDay /\ LastDay \in Nat /\ Days = 1..LastDay
    BY Constants
<1>3. d + 1 \in Days BY <1>1, <1>2
<1>4. PICK s \in TrueFlights(e, ac) : Key(s) = Key(r) BY <1>1 DEF Has
<1>5. s.start = r.start /\ r.ac = ac BY <1>4, TrueRows DEF Key
<1>6. Starts(r, d) /\ Starts(s, e) BY TrueWithin
<1>7. e = d + 1 \/ e = d + 2
  <2>1. Midnight(e - 3) < Midnight(d)
    <3>1. Midnight(e - 3) \in Int /\ Midnight(d) \in Int
      <4>1. e - 3 \in Int /\ d \in Int BY <1>2
      <4> QED BY <4>1, Midnights
    <3> QED BY <1>5, <1>6, <3>1 DEF Starts
  <2>2. ~(d <= e - 3)
    <3>1. Midnight(e - 3) \in Int /\ Midnight(d) \in Int
      <4>1. e - 3 \in Int /\ d \in Int BY <1>2
      <4> QED BY <4>1, Midnights
    <3>2. d <= e - 3 => Midnight(d) <= Midnight(e - 3) BY <1>2, MidnightsRise
    <3> QED BY <2>1, <3>1, <3>2
  <2> QED BY <1>1, <1>2, <2>2
<1>8. CASE e = d + 1 BY <1>1, <1>3, <1>8
<1>9. CASE e = d + 2
  <2> DEFINE n == d + 1
  <2>1. n \in Days /\ n + 1 = e /\ n - 1 = d BY <1>2, <1>3, <1>9
  <2>2. s.start <= Midnight(n - 1) BY <1>5, <1>6, <2>1 DEF Starts
  <2>3. Midnight(n - 1) <= Midnight(n) /\ Midnight(n) \in Int /\ Midnight(n - 1) \in Int
    <3>1. n - 1 \in Int /\ n \in Int /\ n - 1 <= n BY <1>2
    <3> QED BY <3>1, MidnightsRise, Midnights
  <2>4. s.start <= Midnight(n) BY <1>6, <2>2, <2>3 DEF Starts
  <2> HIDE DEF n
  <2>5. PICK t \in TrueFlights(n, ac) : t.start = s.start BY <2>1, <2>2, <2>4, TrueOnce
  <2>6. Key(t) = Key(r) BY <1>5, <2>5, TrueRows DEF Key
  <2> QED BY <1>3, <2>6 DEF Has, n
<1> QED BY <1>7, <1>8, <1>9

-----------------------------------------------------------------------------
(* GoodCounts.  Which rows start on a day.  A day or an aircraft is known  *)
(* once a run on the right carry has written it.                           *)

Known(d, ac) == d \in good \/ \E p \in sound : day[p] = d /\ ac \in done[p]

(* No flight that is known is lost, but to a wrong run of a later day.     *)
KeysKept ==
    \A d \in Days, ac \in Aircraft : Known(d, ac) =>
        \A r \in TrueFlights(d, ac) :
            Has(flights, r) \/ \E e \in wrong : e > d /\ Midnight(e - 3) < r.start

(* A flight of the day before a run that has ended by then is in the table *)
(* as that day wrote it.                                                   *)
BuiltOn ==
    \A p \in sound, e \in Days : day[p] = e + 1 =>
        \A ac \in Aircraft : \A r \in TrueFlights(e, ac) :
            r.start <= Midnight(e - 1) /\ ~Has(TrueFlights(e + 1, ac), r) => r \in flights

RightOrWrong == \A d \in Days \ wrong : OnlyTrue(d)

(* Only recent days have rows that start on a day, one row per start.      *)
RowsInv ==
    /\ \A r \in flights : r.ac \in Aircraft /\ Starts(r, r.batch)
    /\ \A r, s \in flights : Key(r) = Key(s) => r = s

RowsKnown ==
    /\ IsOn(stats, Days) /\ wrong \subseteq Days
    /\ RowsInv /\ RightOrWrong /\ KeysKept /\ BuiltOn

(* RowsKnown holds at the start.                                           *)
LEMMA KnownInit == Init => RowsKnown
<1> SUFFICES ASSUME Init PROVE RowsKnown
    OBVIOUS
<1>1. flights = {} /\ sound = {} /\ good = {} /\ wrong = {} BY DEF Init
<1>2. IsOn(stats, Days)
  <2>1. stats = [d \in Days |-> [ac \in Aircraft |-> 0]] BY DEF Init
  <2> QED BY <2>1 DEF IsOn
<1> QED BY <1>1, <1>2 DEF RowsKnown, RowsInv, RightOrWrong, OnlyTrue, KeysKept, Known, BuiltOn

(* Steps that leave the table alone and no more on the books.              *)
LEMMA KnownKept ==
    ASSUME RowsKnown, UNCHANGED flights, IsOn(stats, Days)', wrong \subseteq wrong', wrong' \subseteq Days,
           good' \subseteq good,
           \A q \in sound' : q \in sound /\ day'[q] = day[q] /\ done'[q] = done[q]
    PROVE  RowsKnown'
<1>1. RowsInv' BY DEF RowsKnown, RowsInv, Starts, Key
<1>2. RightOrWrong'
  <2>1. \A d : OnlyTrue(d)' <=> OnlyTrue(d) BY DEF OnlyTrue
  <2> QED BY <2>1 DEF RowsKnown, RightOrWrong
<1>3. KeysKept'
  <2> SUFFICES ASSUME NEW d \in Days, NEW ac \in Aircraft, Known(d, ac)', NEW r \in TrueFlights(d, ac)
               PROVE  Has(flights, r) \/ \E e \in wrong' : e > d /\ Midnight(e - 3) < r.start
      BY DEF KeysKept
  <2>1. Known(d, ac) BY DEF Known
  <2> QED BY <2>1 DEF RowsKnown, KeysKept
<1>4. BuiltOn' BY DEF RowsKnown, BuiltOn
<1> QED BY <1>1, <1>2, <1>3, <1>4 DEF RowsKnown

(* A run that begins to build on a good day finds what ended by then.      *)
LEMMA KnownLoad ==
    ASSUME OneReportPerTime, CarryInv, TableInv, RowsKnown, NEW p \in Procs, LoadStaging(p)
    PROVE  RowsKnown'
<1>1. /\ UNCHANGED <<flights, stats, good, wrong, day, done>> /\ pc[p] = "staging"
      /\ sound' = IF day[p] = 1 \/ day[p] - 1 \in good \ lost THEN sound \cup {p} ELSE sound
    BY DEF LoadStaging, marks
<1>2. done[p] = {} BY <1>1 DEF TableInv, TableShape, Running
<1>3. RowsInv' BY <1>1 DEF RowsKnown, RowsInv, Starts, Key
<1>4. RightOrWrong'
  <2>1. \A d : OnlyTrue(d)' <=> OnlyTrue(d) BY <1>1 DEF OnlyTrue
  <2> QED BY <1>1, <2>1 DEF RowsKnown, RightOrWrong
<1>5. KeysKept'
  <2>1. \A d, ac : Known(d, ac)' => Known(d, ac) BY <1>1, <1>2 DEF Known
  <2> QED BY <1>1, <2>1 DEF RowsKnown, KeysKept
<1>6. BuiltOn'
  <2> SUFFICES ASSUME NEW q \in sound', NEW e \in Days, day[q] = e + 1, NEW ac \in Aircraft,
                      NEW r \in TrueFlights(e, ac), ~Has(TrueFlights(e + 1, ac), r),
                      r.start <= Midnight(e - 1)
               PROVE  r \in flights
      BY <1>1 DEF BuiltOn
  <2>1. CASE q \in sound BY <2>1 DEF RowsKnown, BuiltOn
  <2>2. CASE q \notin sound
    <3>1. e \in good
      <4>1. q = p /\ (day[p] = 1 \/ day[p] - 1 \in good) BY <1>1, <2>2
      <4>2. e + 1 # 1 /\ (e + 1) - 1 = e BY Constants
      <4> QED BY <4>1, <4>2
    <3>2. Extended(r, e, ac) \/ r \in flights BY <3>1 DEF TableInv, DayWritten, Written
    <3> QED BY <3>2, ExtendedNext
  <2> QED BY <2>1, <2>2
<1>7. IsOn(stats, Days)' BY <1>1 DEF RowsKnown, IsOn
<1> QED BY <1>1, <1>3, <1>4, <1>5, <1>6, <1>7 DEF RowsKnown

(* What a flush writes starts within the days of its batch.                *)
LEMMA FlushWithin ==
    ASSUME OneReportPerTime, CarryInv, ExpectedInv, NEW p \in Procs, NEW ac \in Aircraft, Flush(p, ac)
    PROVE  \E F : /\ flights' = Upsert(flights, F) /\ Disturb(p, TakenFrom(F))
                  /\ \A n \in F : n.ac = ac /\ n.batch = day[p] /\ Starts(n, day[p])
                  /\ \A n, m \in F : n.start = m.start => n = m
                  /\ p \in sound => F = TrueFlights(day[p], ac)
<1>1. PICK F : /\ F = Split[day[p]][ac][carry[p][ac]].flights
               /\ flights' = Upsert(flights, F) /\ Disturb(p, TakenFrom(F))
    BY DEF Flush
<1>2. PICK d \in Days : d = day[p]
    BY DEF CarryInv, Shape
<1>3. PICK base \in CarriesInto[d][ac] : base = carry[p][ac]
    BY <1>2 DEF ExpectedInv, Flush, Running
<1>4. F = FlightsOf(d, ac, base)
    BY <1>1, <1>2, <1>3, SplitOfExpected
<1>5. p \in sound => base = InOrderCarry[d - 1][ac]
    BY <1>2, <1>3 DEF CarryInv, RunsInOrder
<1>6. \A n \in F : n.ac = ac /\ n.batch = day[p] BY <1>2, <1>4, RowsOfFlights
<1>7. /\ \A n \in F : Starts(n, day[p])
      /\ \A n, m \in F : n.start = m.start => n = m
    BY <1>2, <1>4, FlightsWithin
<1> QED
    BY <1>1, <1>2, <1>4, <1>5, <1>6, <1>7 DEF TrueFlights

(* Writing the rows of an aircraft keeps RowsKnown.                        *)
LEMMA KnownFlush ==
    ASSUME OneReportPerTime, CarryInv, ExpectedInv, TableInv, RowsKnown,
           NEW p \in Procs, NEW ac \in Aircraft, Flush(p, ac)
    PROVE  RowsKnown'
<1>1. PICK F : /\ flights' = Upsert(flights, F) /\ Disturb(p, TakenFrom(F))
               /\ \A n \in F : n.ac = ac /\ n.batch = day[p] /\ Starts(n, day[p])
               /\ \A n, m \in F : n.start = m.start => n = m
               /\ p \in sound => F = TrueFlights(day[p], ac)
    BY FlushWithin
<1>2. PICK x \in Days : x = day[p]
    BY DEF CarryInv, Shape
<1>3. /\ UNCHANGED <<day, stats>> /\ done' = [done EXCEPT ![p] = @ \cup {ac}]
    BY DEF Flush
<1>4. \A q \in Procs : done'[q] = IF q = p THEN done[p] \cup {ac} ELSE done[q]
    BY <1>3 DEF TableInv, TableShape
<1>5. /\ \A d \in good' : d \in good
      /\ \A q \in sound' : /\ q \in sound /\ q \in Procs /\ day[q] \in Days /\ day[q] <= x
                           /\ p \in sound \/ day[q] # x
    BY <1>1, <1>2, NotOverridden
<1>6. \A r : r \in flights' <=> r \in F \/ (r \in flights /\ \A n \in F : Key(n) # Key(r))
    BY <1>1 DEF Upsert
<1>7. wrong' = IF p \in sound THEN wrong ELSE wrong \cup {x}
    BY <1>1, <1>2 DEF Disturb
<1>8. RowsInv'
  <2>1. ASSUME NEW r \in flights' PROVE r.ac \in Aircraft /\ Starts(r, r.batch)
      BY <1>1, <1>6 DEF RowsKnown, RowsInv
  <2>2. ASSUME NEW r \in flights', NEW s \in flights', Key(r) = Key(s) PROVE r = s
    <3>1. r.start = s.start BY <2>2 DEF Key
    <3>2. CASE r \in F /\ s \in F BY <1>1, <3>1, <3>2
    <3>3. CASE r \notin F /\ s \notin F BY <1>6, <2>2, <3>3 DEF RowsKnown, RowsInv
    <3>4. CASE ~(r \in F <=> s \in F) BY <1>6, <2>2, <3>4
    <3> QED BY <3>2, <3>3, <3>4
  <2> QED BY <2>1, <2>2 DEF RowsInv, Starts, Key
<1>9. RightOrWrong'
  <2> SUFFICES ASSUME NEW d \in Days, d \notin wrong', NEW r \in flights', r.batch = d PROVE IsTrue(d, r)
      BY DEF RightOrWrong, OnlyTrue, IsTrue
  <2>1. d \notin wrong /\ (p \in sound \/ d # x) BY <1>7
  <2>2. CASE r \in F
    <3>1. d = x BY <1>1, <1>2, <2>2
    <3>2. r \in TrueFlights(d, ac) BY <1>1, <1>2, <2>1, <2>2, <3>1
    <3> QED BY <3>2 DEF IsTrue
  <2>3. CASE r \in flights BY <2>1, <2>3 DEF RowsKnown, RightOrWrong, OnlyTrue
  <2> QED BY <1>6, <2>2, <2>3
<1>10. KeysKept'
  <2> SUFFICES ASSUME NEW d \in Days, NEW b \in Aircraft, Known(d, b)', NEW r \in TrueFlights(d, b)
               PROVE  Has(flights', r) \/ \E e \in wrong' : e > d /\ Midnight(e - 3) < r.start
      BY DEF KeysKept
  <2>1. Known(d, b) \/ (p \in sound /\ d = x /\ b = ac)
      BY <1>2, <1>3, <1>4, <1>5 DEF Known
  <2>2. Has(flights, r) => Has(flights', r)
    <3> SUFFICES ASSUME NEW n \in flights, Key(n) = Key(r) PROVE Has(flights', r)
        BY DEF Has
    <3> QED BY <1>6 DEF Has
  <2>3. CASE Known(d, b) BY <1>7, <2>2, <2>3 DEF RowsKnown, KeysKept
  <2>4. CASE p \in sound /\ d = x /\ b = ac
    <3>1. r \in flights' BY <1>1, <1>2, <1>6, <2>4
    <3> QED BY <3>1 DEF Has
  <2> QED BY <2>1, <2>3, <2>4
<1>11. BuiltOn'
  <2> SUFFICES ASSUME NEW q \in sound', NEW e \in Days, day[q] = e + 1, NEW b \in Aircraft,
                      NEW r \in TrueFlights(e, b), ~Has(TrueFlights(e + 1, b), r),
                      r.start <= Midnight(e - 1)
               PROVE  r \in flights'
      BY <1>3 DEF BuiltOn
  <2>1. r \in flights BY <1>5 DEF RowsKnown, BuiltOn
  <2>2. ASSUME NEW n \in F, Key(n) = Key(r) PROVE FALSE
    <3>1. n.start = r.start /\ n.ac = r.ac /\ r.ac = b /\ n.ac = ac
        BY <1>1, <2>2, TrueRows DEF Key
    <3>2. CASE x = e + 1
      <4>1. p \in sound BY <1>5, <3>2
      <4>2. n \in TrueFlights(e + 1, b) BY <1>1, <1>2, <3>1, <3>2, <4>1
      <4> QED BY <2>2, <4>2 DEF Has
    <3>3. CASE x # e + 1
      <4>1. x \in Int /\ e \in Int /\ e + 1 <= x BY <1>5, Constants
      <4>2. Starts(n, x) BY <1>1, <1>2
      <4>3. x - 3 < e - 1 BY <3>1, <4>1, <4>2, DayBefore DEF Starts
      <4> QED BY <3>3, <4>1, <4>3
    <3> QED BY <3>2, <3>3
  <2> QED BY <1>6, <2>1, <2>2
<1>12. IsOn(stats, Days)' /\ wrong' \subseteq Days BY <1>2, <1>3, <1>7 DEF RowsKnown, IsOn
<1> QED BY <1>8, <1>9, <1>10, <1>11, <1>12 DEF RowsKnown

(* A known flight that the day of a run could have and has not is under an *)
(* earlier day.                                                            *)
LEMMA TruePresent ==
    ASSUME OneReportPerTime, CarryInv, TableInv, RowsKnown, NEW p \in sound, NEW x \in Days, x = day[p],
           NEW d \in Days, d < x, NEW ac \in Aircraft, Known(d, ac), NEW r \in TrueFlights(d, ac),
           Midnight(x - 3) < r.start, ~Has(TrueFlights(x, ac), r)
    PROVE  \E s \in flights : Key(s) = Key(r) /\ s.batch < x
<1>1. x \in Int /\ d \in Int /\ sound \subseteq Procs BY Constants DEF CarryInv, Shape
<1>2. Written(d, ac)
  <2>1. CASE d \in good BY <2>1 DEF TableInv, DayWritten
  <2>2. CASE \E q \in sound : day[q] = d /\ ac \in done[q] BY <2>2 DEF TableInv, RunWrites
  <2> QED BY <2>1, <2>2 DEF Known
<1>3. CASE ~Extended(r, d, ac)
  <2>1. r \in flights /\ r.batch = d BY <1>2, <1>3, TrueRows DEF Written
  <2> QED BY <2>1
<1>4. CASE Extended(r, d, ac)
  <2> DEFINE e == d + 1
  <2>1. e \in Days /\ Has(TrueFlights(e, ac), r) BY <1>4, ExtendedNext
  <2>2. PICK s \in TrueFlights(e, ac) : Key(s) = Key(r) BY <2>1 DEF Has
  <2>3. s.start = r.start /\ s.batch = e /\ Starts(r, d) BY <2>2, TrueRows, TrueWithin DEF Key
  <2>4. x - 3 < d BY <1>1, <2>3, DayBefore DEF Starts
  <2>5. e # x BY <2>1
  <2>6. x = e + 1 /\ e - 1 = d /\ e < x BY <1>1, <2>4, <2>5
  <2>7. s.start <= Midnight(e - 1) /\ ~Has(TrueFlights(e + 1, ac), s)
      BY <2>2, <2>3, <2>6 DEF Starts, Has
  <2> HIDE DEF e
  <2>8. s \in flights BY <2>1, <2>6, <2>7 DEF RowsKnown, BuiltOn
  <2> QED BY <2>2, <2>3, <2>6, <2>8
<1> QED BY <1>3, <1>4

(* So what a sound run deletes is known of no day, *)
LEMMA KnownDelete ==
    ASSUME OneReportPerTime, CarryInv, ExpectedInv, TableInv, RowsKnown, NEW p \in Procs, DeleteStale(p)
    PROVE  RowsKnown'
<1> DEFINE stale == existing[p] \ {Key(r) : r \in Upserted(p)}
<1>1. PICK x \in Days : x = day[p]
    BY DEF CarryInv, Shape
<1>2. /\ UNCHANGED <<day, done, stats>> /\ pc[p] = "stale" /\ Disturb(p, {})
      /\ flights' = {r \in flights : ~(Key(r) \in stale /\ r.batch = x)}
    BY <1>1 DEF DeleteStale
<1>3. \A k : k \in stale => ~\E n \in Upserted(p) : Key(n) = k
    OBVIOUS
<1> HIDE DEF stale
<1>4. done[p] = Aircraft
    BY <1>2 DEF TableInv, TableShape, AllDone
<1>5. \A ac \in Aircraft : p \in sound => TrueFlights(x, ac) \subseteq Upserted(p)
  <2> SUFFICES ASSUME NEW ac \in Aircraft, p \in sound, NEW r \in TrueFlights(x, ac)
               PROVE  r \in Upserted(p)
      OBVIOUS
  <2>1. carry[p] = InOrderCarry[x - 1]
      BY <1>1 DEF CarryInv, RunsInOrder
  <2>2. Split[day[p]][ac][carry[p][ac]].flights = TrueFlights(x, ac)
      BY <1>1, <2>1, SplitInOrder DEF TrueFlights
  <2> QED
      BY <1>4, <2>2 DEF Upserted
<1>6. /\ flights' \subseteq flights
      /\ \A r \in flights : r \notin flights' => Key(r) \in stale /\ r.batch = x
    BY <1>2
<1>7. /\ \A d \in good' : d \in good /\ d \in Days /\ d <= x /\ (p \in sound \/ d # x)
      /\ \A q \in sound' : /\ q \in sound /\ day[q] \in Days /\ day[q] <= x
                           /\ p \in sound \/ day[q] # x
    BY <1>1, <1>2, NotOverridden
<1>8. wrong' = IF p \in sound THEN wrong ELSE wrong \cup {x}
    BY <1>1, <1>2 DEF Disturb
<1>9. RowsInv' BY <1>6 DEF RowsKnown, RowsInv, Starts, Key
<1>10. RightOrWrong'
  <2>1. \A d : OnlyTrue(d) => OnlyTrue(d)' BY <1>6 DEF OnlyTrue, IsTrue
  <2> QED BY <1>8, <2>1 DEF RowsKnown, RightOrWrong
<1>11. KeysKept'
  <2> SUFFICES ASSUME NEW d \in Days, NEW ac \in Aircraft, Known(d, ac)', NEW r \in TrueFlights(d, ac)
               PROVE  Has(flights', r) \/ \E e \in wrong' : e > d /\ Midnight(e - 3) < r.start
      BY DEF KeysKept
  <2>1. Known(d, ac) /\ d <= x /\ (p \in sound \/ d # x) BY <1>2, <1>7 DEF Known
  <2>2. CASE \E e \in wrong : e > d /\ Midnight(e - 3) < r.start BY <1>8, <2>2
  <2>3. CASE Has(flights', r) BY <2>3
  <2>4. CASE Has(flights, r) /\ ~Has(flights', r)
    <3>1. PICK n \in flights : Key(n) = Key(r) BY <2>4 DEF Has
    <3>2. n \notin flights' BY <2>4, <3>1 DEF Has
    <3>3. Key(n) \in stale /\ n.batch = x BY <1>6, <3>2
    <3>4. Midnight(x - 3) < r.start
        BY <3>1, <3>3 DEF RowsKnown, RowsInv, Starts, Key
    <3>5. x \in Int /\ d \in Int BY Constants
    <3>6. CASE p \notin sound
      <4>1. x \in wrong' /\ x > d BY <1>8, <2>1, <3>5, <3>6
      <4> QED BY <3>4, <4>1
    <3>7. CASE p \in sound
      <4>1. ~Has(TrueFlights(x, ac), r) BY <1>3, <1>5, <3>1, <3>3, <3>7 DEF Has
      <4>2. d # x BY <4>1 DEF Has
      <4>3. PICK s \in flights : Key(s) = Key(r) /\ s.batch < x
          BY <1>1, <2>1, <3>4, <3>5, <3>7, <4>1, <4>2, TruePresent
      <4>4. s = n BY <3>1, <4>3 DEF RowsKnown, RowsInv
      <4> QED BY <3>3, <3>5, <4>3, <4>4
    <3> QED BY <3>6, <3>7
  <2> QED BY <2>1, <2>2, <2>3, <2>4 DEF RowsKnown, KeysKept
<1>12. BuiltOn'
  <2> SUFFICES ASSUME NEW q \in sound', NEW e \in Days, day[q] = e + 1, NEW b \in Aircraft,
                      NEW r \in TrueFlights(e, b), ~Has(TrueFlights(e + 1, b), r),
                      r.start <= Midnight(e - 1)
               PROVE  r \in flights'
      BY <1>2 DEF BuiltOn
  <2>1. r \in flights BY <1>7 DEF RowsKnown, BuiltOn
  <2>2. r.batch = e /\ e + 1 <= x /\ e \in Int /\ x \in Int BY <1>7, TrueRows, Constants
  <2> QED BY <1>6, <2>1, <2>2
<1>13. IsOn(stats, Days)' /\ wrong' \subseteq Days BY <1>1, <1>2, <1>8 DEF RowsKnown, IsOn
<1> QED BY <1>9, <1>10, <1>11, <1>12, <1>13 DEF RowsKnown

(* and when it ends, its day is wrong no more, and nothing is missing that *)
(* the earlier runs of the day had taken.                                  *)
LEMMA KnownSucceed ==
    ASSUME OneReportPerTime, CarryInv, TableInv, RowsKnown, NEW p \in Procs, Succeed(p)
    PROVE  RowsKnown'
<1>1. PICK x \in Days : x = day[p]
    BY DEF CarryInv, Shape
<1>2. /\ UNCHANGED <<flights, stats>> /\ pc[p] = "succeed" /\ sound' = sound \ {p}
      /\ day' = [day EXCEPT ![p] = 1] /\ done' = [done EXCEPT ![p] = {}]
      /\ good' = IF p \in sound THEN good \cup {x} ELSE good
      /\ wrong' = IF p \in sound THEN wrong \ {x} ELSE wrong
    BY <1>1 DEF Succeed, Finish, Forget
<1>3. \A q \in sound' : q \in sound /\ day'[q] = day[q] /\ done'[q] = done[q]
    BY <1>2 DEF CarryInv, Shape, TableInv, TableShape
<1>4. done[p] = Aircraft
    BY <1>2 DEF TableInv, TableShape, AllDone
<1>5. RowsInv' BY <1>2 DEF RowsKnown, RowsInv, Starts, Key
<1>6. RightOrWrong'
  <2>1. \A d : OnlyTrue(d)' <=> OnlyTrue(d) BY <1>2 DEF OnlyTrue
  <2>2. p \in sound => OnlyTrue(x) BY <1>1, <1>2 DEF TableInv, RunWrites, Cleaned
  <2> QED BY <1>2, <2>1, <2>2 DEF RowsKnown, RightOrWrong
<1>7. KeysKept'
  <2> SUFFICES ASSUME NEW d \in Days, NEW ac \in Aircraft, Known(d, ac)', NEW r \in TrueFlights(d, ac)
               PROVE  Has(flights, r) \/ \E e \in wrong' : e > d /\ Midnight(e - 3) < r.start
      BY <1>2 DEF KeysKept
  <2>1. Known(d, ac) BY <1>1, <1>2, <1>3, <1>4 DEF Known
  <2>2. Has(flights, r) \/ \E e \in wrong : e > d /\ Midnight(e - 3) < r.start
      BY <2>1 DEF RowsKnown, KeysKept
  <2>3. CASE p \in sound /\ x > d /\ Midnight(x - 3) < r.start
    <3>1. x \in Int /\ d \in Int BY Constants
    <3>2. CASE Has(TrueFlights(x, ac), r)
      <4>1. PICK s \in TrueFlights(x, ac) : Key(s) = Key(r) BY <3>2 DEF Has
      <4>2. s.start = r.start BY <4>1 DEF Key
      <4>3. Known(x, ac) BY <1>1, <1>4, <2>3 DEF Known
      <4>4. Has(flights, s) \/ \E e \in wrong : e > x /\ Midnight(e - 3) < s.start
          BY <4>1, <4>3 DEF RowsKnown, KeysKept
      <4>5. CASE Has(flights, s) BY <4>1, <4>5 DEF Has
      <4>6. ASSUME NEW e \in wrong, e > x, Midnight(e - 3) < s.start
            PROVE  e \in wrong' /\ e > d /\ Midnight(e - 3) < r.start
        <5>1. e \in Int BY Constants DEF RowsKnown
        <5> QED BY <1>2, <2>3, <3>1, <4>2, <4>6, <5>1
      <4> QED BY <4>4, <4>5, <4>6
    <3>3. CASE ~Has(TrueFlights(x, ac), r)
      <4>1. d < x BY <2>3, <3>1
      <4>2. PICK s \in flights : Key(s) = Key(r) BY <1>1, <2>1, <2>3, <3>3, <4>1, TruePresent
      <4> QED BY <4>2 DEF Has
    <3> QED BY <3>2, <3>3
  <2>4. CASE ~(p \in sound /\ x > d /\ Midnight(x - 3) < r.start) BY <1>2, <2>2, <2>4
  <2> QED BY <2>3, <2>4
<1>8. BuiltOn' BY <1>2, <1>3 DEF RowsKnown, BuiltOn
<1>9. IsOn(stats, Days)' /\ wrong' \subseteq Days BY <1>2 DEF RowsKnown, IsOn
<1> QED BY <1>5, <1>6, <1>7, <1>8, <1>9 DEF RowsKnown

(* Where the counts go. *)
Count(d, ac) == Cardinality({r \in flights : r.ac = ac /\ StartsOn(r, d)})

Counts(d) == [ac \in Aircraft |-> IF Count(d, ac) > 0 THEN Count(d, ac) ELSE stats[d][ac]]

(* The statement that counts, as one function.                             *)
LEMMA StatsStep ==
    ASSUME NEW p, UpsertStats(p)
    PROVE  stats' = [stats EXCEPT ![day[p]] = Counts(day[p])]
BY DEF UpsertStats, Count, Counts

(* RowsKnown is kept by every step.                                        *)
LEMMA KnownStays ==
    ASSUME OneReportPerTime, CarryInv, ExpectedInv, TableInv, RowsKnown, [Next]_vars
    PROVE  RowsKnown'
<1>0. IsOn(stats, Days) /\ wrong \subseteq Days /\ sound \subseteq Procs /\ day \in [Procs -> Days]
    BY DEF RowsKnown, CarryInv, Shape
<1>1. ASSUME UNCHANGED <<flights, stats, wrong, good, sound, day, done>>
      PROVE  RowsKnown'
  <2>1. IsOn(stats, Days)' BY <1>0, <1>1 DEF IsOn
  <2> QED BY <1>0, <1>1, <2>1, KnownKept
<1>2. ASSUME NEW p \in Procs, NEW d \in Days, Begin(p, d) PROVE RowsKnown'
  <2>1. /\ UNCHANGED <<flights, stats, wrong, good, sound, done>> /\ pc[p] = "idle"
        /\ day' = [day EXCEPT ![p] = d]
      BY <1>2 DEF Begin, marks
  <2>2. p \notin sound BY <2>1 DEF CarryInv, RunsInOrder, Running
  <2>3. \A q \in sound' : q \in sound /\ day'[q] = day[q] /\ done'[q] = done[q] BY <1>0, <2>1, <2>2
  <2>4. IsOn(stats, Days)' BY <1>0, <2>1 DEF IsOn
  <2> QED BY <1>0, <2>1, <2>3, <2>4, KnownKept
<1>3. ASSUME NEW p \in Procs, ReadExisting(p) \/ PurgeExpiredStaging(p) PROVE RowsKnown'
    BY <1>1, <1>3 DEF ReadExisting, PurgeExpiredStaging, marks
<1>4. ASSUME NEW p \in Procs, WriteStaging(p) PROVE RowsKnown'
  <2>1. UNCHANGED <<flights, stats, day, done>> /\ Disturb(p, {}) BY <1>4 DEF WriteStaging
  <2>2. good' \subseteq good /\ sound' \subseteq sound BY <2>1, DisturbsLess
  <2>3. wrong \subseteq wrong' /\ wrong' \subseteq Days BY <1>0, <2>1 DEF Disturb
  <2>4. IsOn(stats, Days)' BY <1>0, <2>1 DEF IsOn
  <2> QED BY <2>1, <2>2, <2>3, <2>4, KnownKept
<1>5. ASSUME NEW p \in Procs, UpsertStats(p) PROVE RowsKnown'
  <2>1. UNCHANGED <<flights, wrong, good, sound, day, done>> BY <1>5 DEF UpsertStats
  <2>2. stats' = [stats EXCEPT ![day[p]] = Counts(day[p])] BY <1>5, StatsStep
  <2>3. IsOn(stats, Days)' BY <1>0, <2>2, IsOnExcept
  <2> QED BY <1>0, <2>1, <2>3, KnownKept
<1>6. ASSUME NEW p \in Procs, Fail(p) \/ Crash(p) PROVE RowsKnown'
  <2>1. /\ UNCHANGED <<flights, stats, wrong, good>> /\ sound' = sound \ {p}
        /\ day' = [day EXCEPT ![p] = 1] /\ done' = [done EXCEPT ![p] = {}]
      BY <1>6 DEF Fail, Crash, Finish, Forget, marks
  <2>2. \A q \in sound' : q \in sound /\ day'[q] = day[q] /\ done'[q] = done[q]
      BY <1>0, <2>1 DEF TableInv, TableShape
  <2>3. IsOn(stats, Days)' BY <1>0, <2>1 DEF IsOn
  <2> QED BY <1>0, <2>1, <2>2, <2>3, KnownKept
<1>7. CASE UNCHANGED vars
    BY <1>1, <1>7 DEF vars, marks
<1>8. CASE BeginScheduled
    BY <1>2, <1>8 DEF BeginScheduled
<1>9. CASE \E d \in Days : BeginManual(d)
    BY <1>2, <1>9 DEF BeginManual
<1>10. CASE Poll \/ SkipRelease
    BY <1>1, <1>10 DEF Poll, SkipRelease, marks
<1>11. ASSUME NEW p \in Procs, RunStep(p) PROVE RowsKnown'
    BY <1>3, <1>4, <1>5, <1>11, KnownLoad, KnownFlush, KnownDelete, KnownSucceed DEF RunStep
<1>12. ASSUME NEW p \in Procs, NEW d \in Days, FetchFails(p, d) PROVE RowsKnown'
    BY <1>1, <1>12 DEF FetchFails, marks
<1> QED
    BY <1>6, <1>7, <1>8, <1>9, <1>10, <1>11, <1>12 DEF Next

(* Rows that start at the same times, no two together, are as many.        *)
OnePerStart(X) == \A r, s \in X : r.start = s.start => r = s

(* Two sets of flights with the same starts, each at its own, are equally  *)
(* many.                                                                   *)
LEMMA SameNumber ==
    ASSUME NEW X, NEW Y, OnePerStart(X), OnePerStart(Y), NEW lo \in Int, NEW hi \in Int,
           \A r \in X : r.start \in lo..hi,
           \A r \in X : \E s \in Y : s.start = r.start,
           \A s \in Y : \E r \in X : r.start = s.start
    PROVE  IsFiniteSet(X) /\ Cardinality(X) = Cardinality(Y)
<1> DEFINE f == [r \in X |-> r.start]
           g == [r \in X |-> CHOOSE s \in Y : s.start = r.start]
<1>1. IsFiniteSet(X)
  <2>1. f \in [X -> lo..hi] OBVIOUS
  <2>2. \A r, s \in X : f[r] = f[s] => r = s BY DEF OnePerStart
  <2>3. f \in Injection(X, lo..hi) BY <2>1, <2>2 DEF Injection, IsInjective
  <2> QED BY <2>3, FS_Interval, FS_Injection
<1>2. \A r \in X : g[r] \in Y /\ g[r].start = r.start OBVIOUS
<1>3. g \in Bijection(X, Y)
  <2>1. g \in [X -> Y] BY <1>2
  <2> HIDE DEF g
  <2>2. \A r, s \in X : g[r] = g[s] => r = s BY <1>2 DEF OnePerStart
  <2>3. \A s \in Y : \E r \in X : g[r] = s BY <1>2 DEF OnePerStart
  <2> QED BY <2>1, <2>2, <2>3 DEF Bijection, Injection, Surjection, IsInjective
<1>4. ExistsBijection(X, Y) BY <1>3 DEF ExistsBijection
<1> QED BY <1>1, <1>4, FS_Bijection

(* The flights that start on a day are its own, and with the day after     *)
(* those that this extends or adds.                                        *)
Started(d, rows) == {r \in rows : StartsOn(r, d)}

(* What starts on a day in an undisturbed ingestion up to it, and up to    *)
(* the next day.                                                           *)
LEMMA SnapshotStarts ==
    ASSUME OneReportPerTime, NEW d \in Days, NEW ac \in Aircraft
    PROVE  /\ \A r : r \in Started(d, Snapshots[ac][d]) <=> r \in TrueFlights(d, ac) /\ StartsOn(r, d)
           /\ d + 1 \in Days => \A r : r \in Started(d, Snapshots[ac][d + 1]) <=>
                  /\ StartsOn(r, d)
                  /\ \/ r \in TrueFlights(d + 1, ac)
                     \/ r \in TrueFlights(d, ac) /\ ~Has(TrueFlights(d + 1, ac), r)
<1>1. /\ d \in Int /\ d \in 0..LastDay /\ d \in 1..d /\ LastDay \in Nat /\ Days = 1..LastDay
      /\ d \in 1..LastDay
    BY Constants
<1>2. ASSUME NEW n \in Days, NEW e \in 1..n, NEW r \in TrueFlights(e, ac), StartsOn(r, d)
      PROVE  d <= e
  <2>1. e \in Days /\ e \in Int /\ d - 1 \in Int BY <1>1
  <2>2. r.start \in Int /\ r.start <= Midnight(e) /\ Midnight(d - 1) < r.start
      BY <1>2, <2>1, TrueWithin DEF Starts, StartsOn
  <2>3. d - 1 < e BY <2>1, <2>2, DayBefore
  <2> QED BY <1>1, <2>1, <2>3
<1>3. ASSUME NEW r
      PROVE  r \in Started(d, Snapshots[ac][d]) <=> r \in TrueFlights(d, ac) /\ StartsOn(r, d)
  <2>1. r \in Snapshots[ac][d] <=>
            \E e \in 1..d : r \in TrueFlights(e, ac) /\ \A g \in 1..d : g > e => ~Has(TrueFlights(g, ac), r)
      BY <1>1, SnapshotsAre
  <2>2. \A e \in 1..d : d <= e => e = d BY <1>1
  <2>3. \A g \in 1..d : ~(g > d) BY <1>1
  <2> QED BY <1>1, <1>2, <2>1, <2>2, <2>3 DEF Started
<1>4. ASSUME d + 1 \in Days, NEW r
      PROVE  r \in Started(d, Snapshots[ac][d + 1]) <=>
                  /\ StartsOn(r, d)
                  /\ \/ r \in TrueFlights(d + 1, ac)
                     \/ r \in TrueFlights(d, ac) /\ ~Has(TrueFlights(d + 1, ac), r)
  <2> DEFINE n == d + 1
  <2>1. n \in Days /\ n \in 0..LastDay /\ n \in 1..n /\ d \in 1..n BY <1>1, <1>4
  <2>2. \A e \in 1..n : d <= e => e = d \/ e = n BY <1>1
  <2>3. (\A g \in 1..n : ~(g > n)) /\ (\A g \in 1..n : g > d => g = n) /\ n > d BY <1>1
  <2> HIDE DEF n
  <2>4. r \in Snapshots[ac][n] <=>
            \E e \in 1..n : r \in TrueFlights(e, ac) /\ \A g \in 1..n : g > e => ~Has(TrueFlights(g, ac), r)
      BY <2>1, SnapshotsAre
  <2>5. r \in Snapshots[ac][n] /\ StartsOn(r, d) <=>
            /\ StartsOn(r, d)
            /\ r \in TrueFlights(n, ac) \/ (r \in TrueFlights(d, ac) /\ ~Has(TrueFlights(n, ac), r))
      BY <1>2, <2>1, <2>2, <2>3, <2>4
  <2> QED BY <2>5 DEF Started, n
<1> QED BY <1>3, <1>4

(* So the rows that start on a day, when none of the days after is wrong,  *)
(* are as many as those of the day or as those of the day after.           *)
LEMMA RowsOfDay ==
    ASSUME OneReportPerTime, RowsKnown, TableShape, NEW d \in Days, NEW ac \in Aircraft, Known(d, ac), OnlyTrue(d),
           {d + 1, d + 2} \cap wrong = {}
    PROVE  /\ \A s \in TrueFlights(d, ac) : StartsOn(s, d) =>
                  \E r \in flights : r.ac = ac /\ StartsOn(r, d) /\ r.start = s.start
           /\ \A r \in flights : r.ac = ac /\ StartsOn(r, d) =>
                  \/ \E s \in TrueFlights(d, ac) : s.start = r.start
                  \/ d + 1 \in Days /\ \E s \in TrueFlights(d + 1, ac) : s.start = r.start
<1>1. d \in Int /\ d - 1 \in Int /\ d \in Nat /\ Days = 1..LastDay /\ LastDay \in Nat /\ d \in 1..LastDay
    BY Constants
<1>2. ASSUME NEW s \in TrueFlights(d, ac), StartsOn(s, d)
      PROVE  \E r \in flights : r.ac = ac /\ StartsOn(r, d) /\ r.start = s.start
  <2>1. \A e \in wrong : ~(e > d /\ Midnight(e - 3) < s.start)
    <3> SUFFICES ASSUME NEW e \in wrong, e > d, Midnight(e - 3) < s.start PROVE FALSE
        OBVIOUS
    <3>1. e \in Int /\ e - 3 \in Int BY Constants DEF RowsKnown
    <3>2. s.start \in Int /\ s.start <= Midnight(d) BY TrueWithin DEF Starts
    <3>3. e - 3 < d BY <1>1, <3>1, <3>2, DayBefore
    <3>4. e = d + 1 \/ e = d + 2 BY <1>1, <3>1, <3>3
    <3> QED BY <3>4
  <2>2. PICK r \in flights : Key(r) = Key(s) BY <2>1 DEF RowsKnown, KeysKept, Has
  <2>3. r.start = s.start /\ r.ac = s.ac /\ s.ac = ac BY <2>2, TrueRows DEF Key
  <2> QED BY <1>2, <2>2, <2>3 DEF StartsOn
<1>3. ASSUME NEW r \in flights, r.ac = ac, StartsOn(r, d)
      PROVE  \/ \E s \in TrueFlights(d, ac) : s.start = r.start
             \/ d + 1 \in Days /\ \E s \in TrueFlights(d + 1, ac) : s.start = r.start
  <2>1. PICK b \in Days : b = r.batch BY DEF TableShape
  <2>2. Starts(r, b) BY <2>1 DEF RowsKnown, RowsInv
  <2>3. b \in Int /\ b - 3 \in Int BY Constants
  <2>4. d - 1 < b /\ b - 3 < d
    <3>1. r.start \in Int /\ Midnight(d - 1) < r.start /\ r.start <= Midnight(d)
          /\ Midnight(b - 3) < r.start /\ r.start <= Midnight(b)
        BY <1>3, <2>2 DEF Starts, StartsOn
    <3> QED BY <1>1, <2>3, <3>1, DayBefore
  <2>5. b = d \/ b = d + 1 \/ b = d + 2 BY <1>1, <2>3, <2>4
  <2>6. OnlyTrue(b)
    <3>1. CASE b = d BY <3>1
    <3>2. CASE b # d BY <2>5, <3>2 DEF RowsKnown, RightOrWrong
    <3> QED BY <3>1, <3>2
  <2>7. r \in TrueFlights(b, ac) BY <1>3, <2>1, <2>6, TrueRows DEF OnlyTrue, IsTrue
  <2>8. CASE b = d BY <2>7, <2>8
  <2>9. CASE b = d + 1 BY <2>7, <2>9
  <2>10. CASE b = d + 2
    <3> DEFINE n == d + 1
    <3>1. n \in Days /\ n + 1 = b /\ n - 1 = d BY <1>1, <2>10
    <3>2. r.start \in Int /\ r.start <= Midnight(n - 1) BY <1>3, <2>2, <3>1 DEF StartsOn, Starts
    <3>3. r.start <= Midnight(n)
      <4>1. n - 1 \in Int /\ n \in Int /\ n - 1 <= n BY <1>1
      <4>2. Midnight(n - 1) <= Midnight(n) /\ Midnight(n) \in Int /\ Midnight(n - 1) \in Int
          BY <4>1, MidnightsRise, Midnights
      <4> QED BY <3>2, <4>2
    <3> HIDE DEF n
    <3>4. \E s \in TrueFlights(n, ac) : s.start = r.start BY <2>7, <3>1, <3>2, <3>3, TrueOnce
    <3> QED BY <3>1, <3>4 DEF n
  <2> QED BY <2>5, <2>8, <2>9, <2>10
<1> QED BY <1>2, <1>3

(* The day that may add a flight to the counts.                            *)
LEMMA OldOrNextDay ==
    ASSUME NEW d \in Days
    PROVE  Min({d + 1, LastDay}) = IF d + 1 \in Days THEN d + 1 ELSE d
<1> DEFINE m == IF d + 1 \in Days THEN d + 1 ELSE d
           S == {d + 1, LastDay}
<1>1. d \in Int /\ LastDay \in Int /\ (d + 1 \in Days => d + 1 <= LastDay) /\ (d + 1 \notin Days => d = LastDay)
    BY Constants
<1>2. m \in S /\ \A x \in S : m <= x BY <1>1
<1>3. \A x \in S : (\A y \in S : x <= y) => x = m BY <1>1
<1> HIDE DEF m, S
<1>4. Min(S) = m BY <1>2, <1>3, Zenon DEF Min
<1> QED BY <1>4 DEF S, m

(* So the number of rows is one of the two numbers of GoodCounts.          *)
LEMMA CountsTrue ==
    ASSUME OneReportPerTime, RowsKnown, TableShape, NEW d \in Days, NEW ac \in Aircraft, Known(d, ac), OnlyTrue(d),
           {d + 1, d + 2} \cap wrong = {}, Cardinality(Started(d, Snapshots[ac][d])) > 0
    PROVE  /\ Count(d, ac) > 0
           /\ Count(d, ac) \in {Cardinality(Started(d, Snapshots[ac][d])),
                                Cardinality(Started(d, Snapshots[ac][Min({d + 1, LastDay})]))}
<1> DEFINE R == {r \in flights : r.ac = ac /\ StartsOn(r, d)}
           N == Started(d, Snapshots[ac][d])
           O == Started(d, Snapshots[ac][d + 1])
           lo == Midnight(d - 1)
           hi == Midnight(d)
<1>1. d \in Int /\ d - 1 \in Int /\ lo \in Int /\ hi \in Int
  <2>1. d \in Int /\ d - 1 \in Int BY Constants
  <2> QED BY <2>1, Midnights
<1>2. /\ \A s \in TrueFlights(d, ac) : StartsOn(s, d) => \E r \in R : r.start = s.start
      /\ \A r \in R : \/ \E s \in TrueFlights(d, ac) : s.start = r.start
                      \/ d + 1 \in Days /\ \E s \in TrueFlights(d + 1, ac) : s.start = r.start
    BY RowsOfDay
<1>3. \A r, s : r.start = s.start => (StartsOn(r, d) <=> StartsOn(s, d)) BY DEF StartsOn
<1>4. OnePerStart(R)
  <2>1. \A r, s \in R : r.start = s.start => Key(r) = Key(s) BY DEF Key
  <2> QED BY <2>1 DEF RowsKnown, RowsInv, OnePerStart
<1>5. \A r \in R : StartsOn(r, d) /\ r.start \in lo..hi
  <2>1. \A r \in R : r.start \in Int BY DEF RowsKnown, RowsInv, Starts
  <2>2. \A r \in R : lo < r.start /\ r.start <= hi BY DEF StartsOn
  <2> HIDE DEF R, lo, hi
  <2>3. \A r \in R : r.start \in lo..hi BY <1>1, <2>1, <2>2
  <2> QED BY <2>3 DEF R
<1>6. \A r : r \in N <=> r \in TrueFlights(d, ac) /\ StartsOn(r, d) BY SnapshotStarts
<1>7. OnePerStart(N) BY <1>6, TrueWithin DEF OnePerStart
<1>8. N # {} BY FS_EmptySet
<1>9. R # {} BY <1>2, <1>6, <1>8
<1>10. \A s \in N : \E r \in R : r.start = s.start BY <1>2, <1>6
<1> HIDE DEF R, N, O, lo, hi
<1>11. CASE \A r \in R : \E s \in N : s.start = r.start
  <2>1. IsFiniteSet(R) /\ Cardinality(R) = Cardinality(N)
      BY <1>1, <1>4, <1>5, <1>7, <1>10, <1>11, SameNumber
  <2> QED BY <2>1 DEF Count, R, N
<1>12. CASE \E r \in R : \A s \in N : s.start # r.start
  <2>1. PICK q \in R : \A s \in N : s.start # q.start BY <1>12
  <2>2. \A s \in TrueFlights(d, ac) : s.start # q.start BY <1>3, <1>5, <1>6, <2>1
  <2>3. d + 1 \in Days /\ \E t \in TrueFlights(d + 1, ac) : t.start = q.start BY <1>2, <2>2
  <2>4. PICK t \in TrueFlights(d + 1, ac) : t.start = q.start BY <2>3
  <2>5. \A r : r \in O <=> /\ StartsOn(r, d)
                           /\ \/ r \in TrueFlights(d + 1, ac)
                              \/ r \in TrueFlights(d, ac) /\ ~Has(TrueFlights(d + 1, ac), r)
      BY <2>3, SnapshotStarts DEF O
  <2>6. \A s \in TrueFlights(d + 1, ac) : StartsOn(s, d) => s = t
    <3> SUFFICES ASSUME NEW s \in TrueFlights(d + 1, ac), StartsOn(s, d) PROVE s = t
        OBVIOUS
    <3>1. t.start <= Midnight(d) /\ s.start <= Midnight(d) BY <1>3, <1>5, <2>4 DEF StartsOn
    <3> QED BY <2>3, <3>1, TrueOnce
  <2>7. \A r \in TrueFlights(d, ac) : \A s \in TrueFlights(d + 1, ac) :
            r.start = s.start <=> Key(r) = Key(s)
      BY TrueRows DEF Key
  <2>8. OnePerStart(O)
    <3> SUFFICES ASSUME NEW r \in O, NEW s \in O, r.start = s.start PROVE r = s
        BY DEF OnePerStart
    <3>1. CASE r \in TrueFlights(d + 1, ac) /\ s \in TrueFlights(d + 1, ac) BY <2>5, <2>6, <3>1
    <3>2. CASE r \in TrueFlights(d, ac) /\ s \in TrueFlights(d, ac) BY <3>2, TrueWithin
    <3>3. CASE r \in TrueFlights(d + 1, ac) /\ ~Has(TrueFlights(d + 1, ac), s) /\ s \in TrueFlights(d, ac)
        BY <2>7, <3>3 DEF Has
    <3>4. CASE s \in TrueFlights(d + 1, ac) /\ ~Has(TrueFlights(d + 1, ac), r) /\ r \in TrueFlights(d, ac)
        BY <2>7, <3>4 DEF Has
    <3> QED BY <2>5, <3>1, <3>2, <3>3, <3>4
  <2>9. \A s \in O : \E r \in R : r.start = s.start
    <3> SUFFICES ASSUME NEW s \in O PROVE \E r \in R : r.start = s.start
        OBVIOUS
    <3>1. CASE s \in TrueFlights(d + 1, ac) BY <2>4, <2>5, <2>6, <3>1
    <3>2. CASE s \in TrueFlights(d, ac) BY <1>2, <2>5, <3>2
    <3> QED BY <2>5, <3>1, <3>2
  <2>10. \A r \in R : \E s \in O : s.start = r.start
    <3> SUFFICES ASSUME NEW r \in R PROVE \E s \in O : s.start = r.start
        OBVIOUS
    <3>1. CASE \E s \in TrueFlights(d + 1, ac) : s.start = r.start BY <1>3, <1>5, <2>5, <3>1
    <3>2. CASE ~\E s \in TrueFlights(d + 1, ac) : s.start = r.start
      <4>1. PICK s \in TrueFlights(d, ac) : s.start = r.start BY <1>2, <3>2
      <4>2. ~Has(TrueFlights(d + 1, ac), s) BY <2>7, <3>2, <4>1 DEF Has
      <4>3. StartsOn(s, d) BY <1>3, <1>5, <4>1
      <4> QED BY <2>5, <4>1, <4>2, <4>3
    <3> QED BY <3>1, <3>2
  <2>11. IsFiniteSet(R) /\ Cardinality(R) = Cardinality(O)
      BY <1>1, <1>4, <1>5, <2>8, <2>9, <2>10, SameNumber
  <2>12. Cardinality(R) > 0
    <3>1. Cardinality(R) \in Nat /\ Cardinality(R) # 0 BY <1>9, <2>11, FS_EmptySet, FS_CardinalityType
    <3> QED BY <3>1
  <2>13. Min({d + 1, LastDay}) = d + 1 BY <2>3, OldOrNextDay
  <2> QED BY <2>11, <2>12, <2>13 DEF Count, R, O
<1> QED BY <1>11, <1>12

(* The counts of the days on the books, and of those that a sound run has  *)
(* just counted.                                                           *)
CountOk(d, ac) ==
    Cardinality(Started(d, Snapshots[ac][d])) > 0 =>
        stats[d][ac] \in {Cardinality(Started(d, Snapshots[ac][d])),
                          Cardinality(Started(d, Snapshots[ac][Min({d + 1, LastDay})]))}

Counted(d) == d \in good \/ \E p \in sound : day[p] = d /\ pc[p] = "succeed"

CountsOk == \A d \in Days \ miscounted : Counted(d) => \A ac \in Aircraft : CountOk(d, ac)

(* What counts nothing and makes no day counted keeps CountsOk.            *)
LEMMA CountsKept ==
    ASSUME CountsOk, UNCHANGED <<stats, miscounted>>, \A d \in good' : Counted(d),
           \A q \in sound' : pc'[q] = "succeed" => q \in sound /\ day'[q] = day[q] /\ pc[q] = "succeed"
    PROVE  CountsOk'
<1>1. \A d : Counted(d)' => Counted(d) BY DEF Counted
<1>2. \A d, ac : CountOk(d, ac)' <=> CountOk(d, ac) BY DEF CountOk
<1> QED BY <1>1, <1>2 DEF CountsOk

(* Counting a day makes its counts right.                                  *)
LEMMA CountsUpsert ==
    ASSUME OneReportPerTime, CarryInv, TableInv, RowsKnown, CountsOk, NEW p \in Procs, UpsertStats(p)
    PROVE  CountsOk'
<1>1. PICK x \in Days : x = day[p]
    BY DEF CarryInv, Shape
<1>2. /\ UNCHANGED <<flights, day, sound, good, wrong>> /\ pc[p] = "stats" /\ pc' = [pc EXCEPT ![p] = "succeed"]
      /\ miscounted' = IF {x + 1, x + 2} \cap wrong # {} THEN miscounted \cup {x} ELSE miscounted \ {x}
    BY <1>1 DEF UpsertStats, MarkCount, Goto
<1>3. /\ stats'[x] = [ac \in Aircraft |-> IF Count(x, ac) > 0 THEN Count(x, ac) ELSE stats[x][ac]]
      /\ \A d \in Days : d # x => stats'[d] = stats[d]
  <2>1. stats' = [stats EXCEPT ![x] = Counts(x)] BY <1>1, StatsStep
  <2>2. stats'[x] = Counts(x) /\ \A d \in Days : d # x => stats'[d] = stats[d]
      BY <1>1, <2>1, IsOnExcept DEF RowsKnown
  <2> QED BY <2>2 DEF Counts
<1>4. \A q \in sound : q \in Procs /\ pc'[q] = IF q = p THEN "succeed" ELSE pc[q]
    BY <1>2 DEF CarryInv, Shape
<1>5. ASSUME NEW d \in Days \ miscounted', Counted(d)', NEW ac \in Aircraft
      PROVE  CountOk(d, ac)'
  <2>1. CASE d # x
    <3>1. d \notin miscounted /\ Counted(d) BY <1>1, <1>2, <1>4, <1>5, <2>1 DEF Counted
    <3>2. CountOk(d, ac) BY <3>1 DEF CountsOk
    <3> QED BY <1>3, <2>1, <3>2 DEF CountOk
  <2>2. CASE d = x
    <3>1. {d + 1, d + 2} \cap wrong = {} BY <1>2, <1>5, <2>2
    <3>2. d \in good \/ \E q \in sound : day[q] = d /\ pc[q] \in Cleaned
        BY <1>2, <1>4, <1>5 DEF Counted, Cleaned
    <3>3. OnlyTrue(d) BY <3>2 DEF TableInv, DayWritten, RunWrites
    <3>4. Known(d, ac)
      <4>1. \A q \in sound : pc[q] \in Cleaned => done[q] = Aircraft
          BY <1>4 DEF TableInv, TableShape, Cleaned, AllDone
      <4> QED BY <3>2, <4>1 DEF Known
    <3>5. TableShape BY DEF TableInv
    <3>6. ASSUME Cardinality(Started(d, Snapshots[ac][d])) > 0
          PROVE  stats'[d][ac] \in {Cardinality(Started(d, Snapshots[ac][d])),
                                    Cardinality(Started(d, Snapshots[ac][Min({d + 1, LastDay})]))}
      <4>1. Count(d, ac) > 0 /\ Count(d, ac) \in {Cardinality(Started(d, Snapshots[ac][d])),
                                Cardinality(Started(d, Snapshots[ac][Min({d + 1, LastDay})]))}
          BY <3>1, <3>3, <3>4, <3>5, <3>6, CountsTrue
      <4>2. stats'[d][ac] = Count(d, ac) BY <1>3, <2>2, <4>1
      <4> QED BY <4>1, <4>2
    <3> QED BY <3>6 DEF CountOk
  <2> QED BY <2>1, <2>2
<1> QED BY <1>5 DEF CountsOk

(* CountsOk is kept by every step.                                         *)
LEMMA CountsStay ==
    ASSUME OneReportPerTime, CarryInv, TableInv, RowsKnown, CountsOk, [Next]_vars
    PROVE  CountsOk'
<1>0. pc \in [Procs -> Statements] /\ day \in [Procs -> Days] /\ sound \subseteq Procs
    BY DEF CarryInv, Shape
<1>1. ASSUME UNCHANGED <<stats, miscounted, good, sound, day, pc>>
      PROVE  CountsOk'
    BY <1>1, CountsKept DEF Counted
<1>2. ASSUME NEW p \in Procs, UNCHANGED <<stats, miscounted>>, good' \subseteq good,
             sound' \subseteq sound \cup {p}, NEW s, s # "succeed", pc' = [pc EXCEPT ![p] = s],
             \A q \in Procs : q # p => day'[q] = day[q]
      PROVE  CountsOk'
  <2>1. \A q \in sound' : pc'[q] = "succeed" => q # p /\ q \in Procs /\ pc[q] = "succeed"
      BY <1>0, <1>2
  <2> QED BY <1>2, <2>1, CountsKept DEF Counted
<1>3. ASSUME NEW p \in Procs, NEW d \in Days, Begin(p, d) PROVE CountsOk'
  <2>1. /\ UNCHANGED <<stats, miscounted, good, sound>> /\ pc' = [pc EXCEPT ![p] = "staging"]
        /\ day' = [day EXCEPT ![p] = d]
      BY <1>3 DEF Begin, Goto, marks
  <2> QED BY <1>0, <1>2, <2>1
<1>4. ASSUME NEW p \in Procs, LoadStaging(p) \/ ReadExisting(p) \/ PurgeExpiredStaging(p) PROVE CountsOk'
  <2>1. /\ UNCHANGED <<stats, miscounted, good, day>> /\ sound' \subseteq sound \cup {p}
        /\ \/ pc' = [pc EXCEPT ![p] = "existing"]
           \/ pc' = [pc EXCEPT ![p] = "flush"]
           \/ pc' = [pc EXCEPT ![p] = "idle"]
      BY <1>4 DEF LoadStaging, ReadExisting, PurgeExpiredStaging, Goto, marks
  <2> QED BY <1>2, <2>1
<1>5. ASSUME NEW p \in Procs, WriteStaging(p) \/ DeleteStale(p) PROVE CountsOk'
  <2>1. /\ UNCHANGED <<stats, miscounted, day>> /\ Disturb(p, {})
        /\ pc' = [pc EXCEPT ![p] = "stale"] \/ pc' = [pc EXCEPT ![p] = "stats"]
      BY <1>5 DEF WriteStaging, DeleteStale, Goto
  <2>2. good' \subseteq good /\ sound' \subseteq sound BY <2>1, DisturbsLess
  <2> QED BY <1>2, <2>1, <2>2
<1>6. ASSUME NEW p \in Procs, NEW ac \in Aircraft, Flush(p, ac) PROVE CountsOk'
  <2>1. UNCHANGED <<stats, miscounted, day>> /\ \E taken : Disturb(p, taken) BY <1>6 DEF Flush
  <2>2. pc' = [pc EXCEPT ![p] = "carry"] \/ pc' = pc BY <1>6 DEF Flush, Goto
  <2>3. good' \subseteq good /\ sound' \subseteq sound BY <2>1, DisturbsLess
  <2>4. CASE pc' = [pc EXCEPT ![p] = "carry"] BY <1>2, <2>1, <2>3, <2>4
  <2>5. CASE pc' = pc BY <2>1, <2>3, <2>5, CountsKept DEF Counted
  <2> QED BY <2>2, <2>4, <2>5
<1>7. ASSUME NEW p \in Procs, Succeed(p) PROVE CountsOk'
  <2>1. /\ UNCHANGED <<stats, miscounted>> /\ pc[p] = "succeed" /\ pc' = [pc EXCEPT ![p] = "purge"]
        /\ day' = [day EXCEPT ![p] = 1] /\ sound' = sound \ {p}
        /\ good' = IF p \in sound THEN good \cup {day[p]} ELSE good
      BY <1>7 DEF Succeed, Finish, Forget, Goto
  <2>2. \A d \in good' : Counted(d) BY <2>1 DEF Counted
  <2>3. \A q \in sound' : pc'[q] = "succeed" => q \in sound /\ day'[q] = day[q] /\ pc[q] = "succeed"
      BY <1>0, <2>1
  <2> QED BY <2>1, <2>2, <2>3, CountsKept
<1>8. ASSUME NEW p \in Procs, Fail(p) \/ Crash(p) PROVE CountsOk'
  <2>1. /\ UNCHANGED <<stats, miscounted, good>> /\ sound' = sound \ {p}
        /\ day' = [day EXCEPT ![p] = 1] /\ pc' = [pc EXCEPT ![p] = "idle"]
      BY <1>8 DEF Fail, Crash, Finish, Forget, Goto, marks
  <2> QED BY <1>0, <1>2, <2>1
<1>9. CASE UNCHANGED vars
    BY <1>1, <1>9 DEF vars, marks
<1>10. CASE BeginScheduled
    BY <1>3, <1>10 DEF BeginScheduled
<1>11. CASE \E d \in Days : BeginManual(d)
    BY <1>3, <1>11 DEF BeginManual
<1>12. CASE Poll \/ SkipRelease
    BY <1>1, <1>12 DEF Poll, SkipRelease, marks
<1>13. ASSUME NEW p \in Procs, RunStep(p) PROVE CountsOk'
    BY <1>4, <1>5, <1>6, <1>7, <1>13, CountsUpsert DEF RunStep
<1>14. ASSUME NEW p \in Procs, NEW d \in Days, FetchFails(p, d) PROVE CountsOk'
    BY <1>1, <1>14 DEF FetchFails, marks
<1> QED
    BY <1>8, <1>9, <1>10, <1>11, <1>12, <1>13, <1>14 DEF Next

(* The counts of a good day are those of an undisturbed ingestion up to    *)
(* it, or with the day after, unless a run on a wrong carry of one of the  *)
(* next two days came between: for any number of days and aircraft, any    *)
(* thresholds and any bounds on faults, and any traces with one report per *)
(* time.                                                                   *)
THEOREM CountsAreTrue ==
    ASSUME OneReportPerTime
    PROVE  Spec => []GoodCounts
<1> DEFINE All == CarryInv /\ ExpectedInv /\ TableInv /\ RowsKnown /\ CountsOk
<1>1. Init => All
  <2>1. Init => CountsOk BY DEF Init, CountsOk, Counted
  <2> QED BY <2>1, CarryInit, ExpectedInit, TableInit, KnownInit
<1>2. All /\ [Next]_vars => All'
    BY CarryStays, ExpectedStays, TableStays, KnownStays, CountsStay
<1>3. All => GoodCounts
  <2> SUFFICES ASSUME All PROVE GoodCounts
      OBVIOUS
  <2>1. \A d \in good : d \in Days /\ Counted(d) BY DEF CarryInv, Shape, Counted
  <2>2. \A d \in good \ miscounted, ac \in Aircraft : CountOk(d, ac) BY <2>1 DEF CountsOk
  <2> QED BY <2>2 DEF GoodCounts, CountOk, Started
<1> QED
  <2> HIDE DEF All
  <2> QED BY <1>1, <1>2, <1>3, PTL DEF Spec

-----------------------------------------------------------------------------
(* TypeOK: what it says of the tables, and of the processes.  What it says *)
(* of pc, day, done, sound, good and wrong is in CarryInv and RowsKnown.   *)
TablesOK ==
    /\ status \in [Days -> Statuses]
    /\ \A d \in Days, ac \in Aircraft : staging[d][ac] \subseteq Point
    /\ flights \subseteq Row
    /\ stats \in [Days -> [Aircraft -> Nat]]

RunsOK ==
    /\ next \in Days \cup {LastDay + 1}
    /\ \A p \in Procs, ac \in Aircraft : carry[p][ac] \subseteq Point
    /\ \A p \in Procs : existing[p] \subseteq Aircraft \X Int
    /\ budget \in [runs : 0..MaxRuns, crashes : 0..MaxCrashes, errors : 0..MaxErrors]
    /\ lost \subseteq Days /\ miscounted \subseteq Days

(* The rows that a run writes are rows of the table.                       *)
LEMMA RowsTyped ==
    ASSUME OneReportPerTime, NEW d \in Days, NEW ac \in Aircraft, NEW base \in CarriesInto[d][ac]
    PROVE  FlightsOf(d, ac, base) \subseteq Row
<1> DEFINE S == base \cup DayPoints(d, ac)
<1>1. d \in Int /\ Midnight(d) \in Int /\ Midnight(d - 3) \in Int
  <2>1. d \in Int /\ d - 3 \in Int BY Constants
  <2> QED BY <2>1, Midnights
<1>2. Within(S, d - 3, d)
  <2>1. Within(base, d - 3, d - 1) BY BasesWithin
  <2> QED BY <2>1, MergedWithin
<1>3. \A r \in FlightsOf(d, ac, base) : \E f \in SplitFlights(S) :
          r = [ac |-> ac, start |-> f.start, end |-> f.end, batch |-> d]
    BY DEF FlightsOf
<1> HIDE DEF S
<1>4. \A f \in SplitFlights(S) : f.start \in Int /\ f.end \in Int
    BY <1>1, <1>2, SplitStarts DEF Within
<1> QED BY <1>3, <1>4 DEF Row

(* The rows of an aircraft that start on a day are finitely many.          *)
LEMMA CountTyped ==
    ASSUME RowsKnown, NEW d \in Days, NEW ac \in Aircraft
    PROVE  Count(d, ac) \in Nat
<1> DEFINE R == {r \in flights : r.ac = ac /\ StartsOn(r, d)}
<1>1. PICK lo \in Int, hi \in Int : lo = Midnight(d - 1) /\ hi = Midnight(d)
  <2>1. d \in Int BY Constants
  <2> QED BY <2>1, Midnights
<1>2. \A r \in R : r.start \in lo..hi
  <2>1. ASSUME NEW r \in R PROVE r.start \in lo..hi
    <3>1. r.start \in Int /\ lo < r.start /\ r.start <= hi
        BY <1>1 DEF RowsKnown, RowsInv, Starts, StartsOn
    <3> QED BY <3>1
  <2> QED BY <2>1
<1>3. OnePerStart(R)
    BY DEF OnePerStart, RowsKnown, RowsInv, Key
<1>4. IsFiniteSet(R)
  <2> HIDE DEF R
  <2> QED BY <1>2, <1>3, SameNumber
<1> QED BY <1>4, FS_CardinalityType DEF Count

(* The newest of some days, or 0.                                          *)
LEMMA NewestDay ==
    ASSUME NEW D \in SUBSET Days
    PROVE  Max({0} \cup D) \in 0..LastDay
<1> DEFINE S == {0} \cup D
           U == {n \in Nat : \E x \in S : x >= n}
<1>1. LastDay \in Nat /\ S \subseteq 0..LastDay /\ 0 \in S
    BY Constants
<1>2. \E m \in S : \A x \in S : m >= x
  <2> HIDE DEF S
  <2> SUFFICES ASSUME \A m \in S : \E x \in S : ~(m >= x) PROVE FALSE
      OBVIOUS
  <2>1. 0 \in U BY <1>1
  <2>2. ASSUME NEW n \in Nat, n \in U PROVE n + 1 \in U
    <3>1. PICK m \in S : m >= n BY <2>2
    <3>2. PICK x \in S : ~(m >= x) OBVIOUS
    <3>3. m \in Int /\ x \in Int BY <1>1
    <3>4. x >= n + 1 BY <3>1, <3>2, <3>3
    <3> QED BY <3>4
  <2>3. LastDay + 1 \in U
    <3> HIDE DEF U
    <3> QED BY <1>1, <2>1, <2>2, SetInduction
  <2> QED BY <1>1, <2>3
<1> HIDE DEF S
<1>3. Max(S) \in S BY <1>2 DEF Max
<1> QED BY <1>1, <1>3 DEF S

(* TablesOK after a statement that writes one of the tables.               *)
LEMMA StagedTyped ==
    ASSUME OneReportPerTime, CarryInv, ExpectedInv, TablesOK, NEW p \in Procs, WriteStaging(p)
    PROVE  TablesOK'
<1>1. /\ UNCHANGED <<status, flights, stats>> /\ pc[p] = "carry"
      /\ staging' = IF CarryFound(p) = NoCarry THEN staging
                    ELSE [staging EXCEPT ![day[p]] = CarryFound(p)]
    BY DEF WriteStaging
<1>2. PICK d \in Days : d = day[p]
    BY DEF CarryInv, Shape
<1>3. ASSUME NEW ac \in Aircraft PROVE CarryFound(p)[ac] \subseteq Point
  <2>1. PICK base \in CarriesInto[d][ac] : base = carry[p][ac]
      BY <1>1, <1>2 DEF ExpectedInv, Running
  <2>2. CarryFound(p)[ac] = Split[day[p]][ac][carry[p][ac]].carry
      BY Zenon DEF CarryFound
  <2>3. CarryFound(p)[ac] = CarryOf(d, ac, base)
      BY <1>2, <2>1, <2>2, SplitOfExpected
  <2>4. Within(CarryOf(d, ac, base), d - 2, d)
      BY BasesWithin, CarryWithin
  <2> QED BY <2>3, <2>4 DEF Within
<1>4. \A e \in Days : staging'[e] = staging[e] \/ staging'[e] = CarryFound(p)
  <2>1. CASE CarryFound(p) = NoCarry BY <1>1, <2>1
  <2>2. CASE CarryFound(p) # NoCarry
    <3>1. staging' = [staging EXCEPT ![d] = CarryFound(p)] BY <1>1, <1>2, <2>2
    <3> QED BY <3>1, IsOnExcept DEF CarryInv, Shape
  <2> QED BY <2>1, <2>2
<1>5. \A e \in Days, ac \in Aircraft : staging'[e][ac] \subseteq Point
    BY <1>3, <1>4 DEF TablesOK
<1> QED BY <1>1, <1>5 DEF TablesOK

(* The same after a flush.                                                 *)
LEMMA FlushTyped ==
    ASSUME OneReportPerTime, CarryInv, ExpectedInv, TablesOK, NEW p \in Procs, NEW ac \in Aircraft, Flush(p, ac)
    PROVE  TablesOK'
<1>1. /\ UNCHANGED <<status, staging, stats>> /\ pc[p] = "flush"
      /\ flights' = Upsert(flights, Split[day[p]][ac][carry[p][ac]].flights)
    BY DEF Flush
<1>2. PICK d \in Days : d = day[p]
    BY DEF CarryInv, Shape
<1>3. PICK base \in CarriesInto[d][ac] : base = carry[p][ac]
    BY <1>1, <1>2 DEF ExpectedInv, Running
<1>4. Split[day[p]][ac][carry[p][ac]].flights \subseteq Row
    BY <1>2, <1>3, SplitOfExpected, RowsTyped
<1>5. flights' \subseteq Row
    BY <1>1, <1>4 DEF TablesOK, Upsert
<1> QED BY <1>1, <1>5 DEF TablesOK

(* After the counts.                                                       *)
LEMMA StatsTyped ==
    ASSUME CarryInv, RowsKnown, TablesOK, NEW p \in Procs, UpsertStats(p)
    PROVE  TablesOK'
<1>1. PICK d \in Days : d = day[p]
    BY DEF CarryInv, Shape
<1>2. UNCHANGED <<status, staging, flights>> /\ stats' = [stats EXCEPT ![d] = Counts(d)]
    BY <1>1, StatsStep DEF UpsertStats
<1>3. Counts(d) \in [Aircraft -> Nat]
  <2>1. stats[d] \in [Aircraft -> Nat] BY DEF TablesOK
  <2> QED BY <2>1, CountTyped DEF Counts
<1>4. stats' \in [Days -> [Aircraft -> Nat]]
    BY <1>2, <1>3 DEF TablesOK
<1> QED BY <1>2, <1>4 DEF TablesOK

(* After a purge.                                                          *)
LEMMA PurgeTyped ==
    ASSUME TablesOK, NEW p \in Procs, PurgeExpiredStaging(p)
    PROVE  TablesOK'
<1>1. PICK last \in 0..MaxExpired : staging' = [d \in Days |-> IF d <= last THEN NoCarry ELSE staging[d]]
    BY DEF PurgeExpiredStaging
<1>2. \A d \in Days, ac \in Aircraft : staging'[d][ac] \subseteq Point
    BY <1>1 DEF TablesOK, NoCarry
<1> QED BY <1>2 DEF TablesOK, PurgeExpiredStaging

(* TablesOK after a step that writes at most a status.                     *)
LEMMA StatusTyped ==
    ASSUME TablesOK, UNCHANGED <<staging, flights, stats>>,
           UNCHANGED status \/ \E d \in Days, s \in Statuses : status' = [status EXCEPT ![d] = s]
    PROVE  TablesOK'
<1>1. status' \in [Days -> Statuses] BY DEF TablesOK
<1> QED BY <1>1 DEF TablesOK

(* TablesOK is kept by every step.                                         *)
LEMMA TablesStay ==
    ASSUME OneReportPerTime, CarryInv, ExpectedInv, RowsKnown, TablesOK, [Next]_vars
    PROVE  TablesOK'
<1>0. day \in [Procs -> Days] BY DEF CarryInv, Shape
<1>1. ASSUME UNCHANGED <<status, staging, flights, stats>> PROVE TablesOK'
    BY <1>1, StatusTyped
<1>2. ASSUME NEW p \in Procs, NEW d \in Days, Begin(p, d) PROVE TablesOK'
    BY <1>2, StatusTyped DEF Begin, Statuses
<1>3. ASSUME NEW p \in Procs, NEW outcome \in {"succeeded", "errored"}, NEW s, Finish(p, outcome, s),
             UNCHANGED <<staging, flights, stats>>
      PROVE  TablesOK'
  <2>1. PICK d \in Days : d = day[p] BY <1>0
  <2>2. \E v \in Statuses : status' = [status EXCEPT ![d] = v]
      BY <1>3, <2>1 DEF Finish, Statuses
  <2> QED BY <1>3, <2>2, StatusTyped
<1>4. ASSUME NEW p \in Procs, DeleteStale(p) PROVE TablesOK'
  <2>1. UNCHANGED <<status, staging, stats>> /\ flights' \subseteq flights BY <1>4 DEF DeleteStale
  <2> QED BY <2>1 DEF TablesOK
<1>5. ASSUME NEW p \in Procs, RunStep(p) PROVE TablesOK'
  <2>1. CASE LoadStaging(p) \/ ReadExisting(p) BY <1>1, <2>1 DEF LoadStaging, ReadExisting
  <2>2. CASE Succeed(p) BY <1>3, <2>2 DEF Succeed
  <2> QED BY <1>4, <1>5, <2>1, <2>2, FlushTyped, StagedTyped, StatsTyped, PurgeTyped DEF RunStep
<1>6. ASSUME NEW p \in Procs, Fail(p) PROVE TablesOK'
    BY <1>3, <1>6 DEF Fail
<1>7. ASSUME NEW p \in Procs, Crash(p) PROVE TablesOK'
    BY <1>1, <1>7 DEF Crash
<1>8. ASSUME NEW p \in Procs, NEW d \in Days, FetchFails(p, d) PROVE TablesOK'
    BY <1>8, StatusTyped DEF FetchFails, Statuses
<1>9. CASE UNCHANGED vars BY <1>1, <1>9 DEF vars
<1>10. CASE BeginScheduled BY <1>2, <1>10 DEF BeginScheduled
<1>11. CASE \E d \in Days : BeginManual(d) BY <1>2, <1>11 DEF BeginManual
<1>12. CASE Poll \/ SkipRelease BY <1>1, <1>12 DEF Poll, SkipRelease
<1> QED BY <1>5, <1>6, <1>7, <1>8, <1>9, <1>10, <1>11, <1>12 DEF Next

(* RunsOK after a step that changes none of it.                            *)
LEMMA RunsKept ==
    ASSUME RunsOK, UNCHANGED <<next, carry, existing, budget, lost, miscounted>>
    PROVE  RunsOK'
BY DEF RunsOK

(* And after one that changes the date or the budget.                      *)
LEMMA NextDayTyped ==
    ASSUME RunsOK, next' \in Days \cup {LastDay + 1}, UNCHANGED <<carry, existing, lost, miscounted>>,
           budget' \in [runs : 0..MaxRuns, crashes : 0..MaxCrashes, errors : 0..MaxErrors]
    PROVE  RunsOK'
BY DEF RunsOK

(* The date after a day of the model.                                      *)
LEMMA NextDate == \A d \in Days : d + 1 \in Days \cup {LastDay + 1}
<1>1. LastDay \in Nat /\ Days = 1..LastDay BY Constants
<1> QED BY <1>1

(* What is spent of the budget.                                            *)
LEMMA Spent ==
    ASSUME RunsOK
    PROVE  LET B == [runs : 0..MaxRuns, crashes : 0..MaxCrashes, errors : 0..MaxErrors]
           IN  /\ budget.runs > 0 => [budget EXCEPT !.runs = @ - 1] \in B
               /\ budget.crashes > 0 => [budget EXCEPT !.crashes = @ - 1] \in B
               /\ budget.errors > 0 => [budget EXCEPT !.errors = @ - 1] \in B
<1>1. budget \in [runs : 0..MaxRuns, crashes : 0..MaxCrashes, errors : 0..MaxErrors] BY DEF RunsOK
<1>2. MaxRuns \in Nat /\ MaxCrashes \in Nat /\ MaxErrors \in Nat BY IngestConstants
<1>3. budget.runs \in 0..MaxRuns /\ budget.crashes \in 0..MaxCrashes /\ budget.errors \in 0..MaxErrors
    BY <1>1
<1>4. /\ budget.runs > 0 => budget.runs - 1 \in 0..MaxRuns
      /\ budget.crashes > 0 => budget.crashes - 1 \in 0..MaxCrashes
      /\ budget.errors > 0 => budget.errors - 1 \in 0..MaxErrors
    BY ONLY <1>2, <1>3
<1> QED BY <1>1, <1>4

(* What a run forgets leaves nothing of another type.                      *)
LEMMA ForgetTyped ==
    ASSUME CarryInv, TableShape, RunsOK, NEW p \in Procs, Forget(p)
    PROVE  /\ \A q \in Procs, ac \in Aircraft : carry'[q][ac] \subseteq Point
           /\ \A q \in Procs : existing'[q] \subseteq Aircraft \X Int
<1>1. carry' = [carry EXCEPT ![p] = NoCarry] /\ existing' = [existing EXCEPT ![p] = {}]
    BY DEF Forget
<1>2. \A q \in Procs : carry'[q] = carry[q] \/ carry'[q] = NoCarry
    BY <1>1, IsOnExcept DEF CarryInv, Shape
<1>3. \A q \in Procs : existing'[q] = existing[q] \/ existing'[q] = {}
    BY <1>1, IsOnExcept DEF TableShape
<1> QED BY <1>2, <1>3 DEF RunsOK, NoCarry

(* RunsOK is kept by every step.                                           *)
LEMMA RunsStay ==
    ASSUME CarryInv, TableInv, TablesOK, RunsOK, [Next]_vars
    PROVE  RunsOK'
<1>0. day \in [Procs -> Days] /\ IsOn(carry, Procs) /\ IsOn(existing, Procs) /\ TableShape
    BY DEF CarryInv, Shape, TableInv, TableShape
<1>1. ASSUME NEW p \in Procs, NEW d \in Days, Begin(p, d), next' \in Days \cup {LastDay + 1}
      PROVE  RunsOK'
  <2>1. UNCHANGED <<carry, existing, lost, miscounted>> BY <1>1 DEF Begin, marks
  <2>2. budget' \in [runs : 0..MaxRuns, crashes : 0..MaxCrashes, errors : 0..MaxErrors]
      BY <1>1, Spent DEF Begin
  <2> QED BY <1>1, <2>1, <2>2, NextDayTyped
<1>2. CASE BeginScheduled
  <2>1. "cron" \in Procs /\ next \in Days /\ next' = next + 1 /\ Begin("cron", next)
      BY <1>2 DEF BeginScheduled
  <2> QED BY <1>1, <2>1, NextDate
<1>3. CASE \E d \in Days : BeginManual(d)
    BY <1>1, <1>3 DEF BeginManual, RunsOK
<1>4. CASE Poll
  <2>1. PICK D \in SUBSET Days : next' = Max({0} \cup D) + 1 BY <1>4 DEF Poll
  <2>2. next' \in Days \cup {LastDay + 1}
    <3>1. PICK m \in 0..LastDay : next' = m + 1 BY <2>1, NewestDay
    <3> QED BY <3>1, Constants
  <2>3. UNCHANGED <<carry, existing, lost, miscounted, budget>> BY <1>4 DEF Poll, marks
  <2> QED BY <2>2, <2>3 DEF RunsOK
<1>5. CASE SkipRelease
  <2>1. /\ next \in Days /\ next' = next + 1 /\ UNCHANGED <<carry, existing, lost, miscounted>>
        /\ budget.errors > 0 /\ budget' = [budget EXCEPT !.errors = @ - 1]
      BY <1>5 DEF SkipRelease, marks
  <2> QED BY <2>1, NextDate, NextDayTyped, Spent
<1>6. ASSUME NEW p \in Procs, NEW d \in Days, FetchFails(p, d) PROVE RunsOK'
  <2>1. /\ next' = d + 1 \/ next' = next
        /\ UNCHANGED <<carry, existing, lost, miscounted>>
        /\ budget.errors > 0 /\ budget' = [budget EXCEPT !.errors = @ - 1]
      BY <1>6 DEF FetchFails, marks
  <2>2. next' \in Days \cup {LastDay + 1} BY <2>1, NextDate DEF RunsOK
  <2> QED BY <2>1, <2>2, NextDayTyped, Spent
<1>7. ASSUME NEW p \in Procs, Forget(p), UNCHANGED <<lost, miscounted>>,
             next' \in Days \cup {LastDay + 1},
             budget' \in [runs : 0..MaxRuns, crashes : 0..MaxCrashes, errors : 0..MaxErrors]
      PROVE  RunsOK'
    BY <1>0, <1>7, ForgetTyped DEF RunsOK
<1>8. ASSUME NEW p \in Procs, Fail(p) PROVE RunsOK'
  <2>1. /\ Forget(p) /\ UNCHANGED <<next, lost, miscounted>>
        /\ budget.errors > 0 /\ budget' = [budget EXCEPT !.errors = @ - 1]
      BY <1>8 DEF Fail, Finish, marks
  <2>2. next' \in Days \cup {LastDay + 1} BY <2>1 DEF RunsOK
  <2> QED BY <1>7, <2>1, <2>2, Spent
<1>9. ASSUME NEW p \in Procs, Crash(p) PROVE RunsOK'
  <2>1. /\ Forget(p) /\ UNCHANGED <<lost, miscounted>> /\ next' \in {next, LastDay + 1}
        /\ budget.crashes > 0 /\ budget' = [budget EXCEPT !.crashes = @ - 1]
      BY <1>9 DEF Crash, marks
  <2>2. next' \in Days \cup {LastDay + 1} BY <2>1 DEF RunsOK
  <2> QED BY <1>7, <2>1, <2>2, Spent
<1>10. ASSUME NEW p \in Procs, LoadStaging(p) PROVE RunsOK'
  <2>1. UNCHANGED <<next, existing, budget, lost, miscounted>> BY <1>10 DEF LoadStaging, marks
  <2>2. PICK v : /\ carry' = [carry EXCEPT ![p] = v]
                 /\ v = IF day[p] - 1 \in Days THEN staging[day[p] - 1] ELSE NoCarry
      BY <1>10 DEF LoadStaging
  <2>3. \A ac \in Aircraft : v[ac] \subseteq Point BY <2>2 DEF TablesOK, NoCarry
  <2>4. \A q \in Procs : carry'[q] = carry[q] \/ carry'[q] = v BY <1>0, <2>2, IsOnExcept
  <2> QED BY <2>1, <2>3, <2>4 DEF RunsOK
<1>11. ASSUME NEW p \in Procs, ReadExisting(p) PROVE RunsOK'
  <2>1. UNCHANGED <<next, carry, budget, lost, miscounted>> BY <1>11 DEF ReadExisting, marks
  <2>2. PICK K : /\ existing' = [existing EXCEPT ![p] = K]
                 /\ K = {Key(r) : r \in {s \in flights : s.batch = day[p]}}
      BY <1>11 DEF ReadExisting
  <2>3. K \subseteq Aircraft \X Int BY <2>2 DEF TablesOK, Row, Key
  <2>4. \A q \in Procs : existing'[q] = existing[q] \/ existing'[q] = K BY <1>0, <2>2, IsOnExcept
  <2> QED BY <2>1, <2>3, <2>4 DEF RunsOK
<1>12. ASSUME NEW p \in Procs, WriteStaging(p) PROVE RunsOK'
  <2>1. /\ UNCHANGED <<next, carry, existing, budget, miscounted>>
        /\ lost' \subseteq lost \cup {day[p]}
      BY <1>12 DEF WriteStaging
  <2> QED BY <1>0, <2>1 DEF RunsOK
<1>13. ASSUME NEW p \in Procs, UpsertStats(p) PROVE RunsOK'
  <2>1. /\ UNCHANGED <<next, carry, existing, budget, lost>>
        /\ miscounted' \subseteq miscounted \cup {day[p]}
      BY <1>13 DEF UpsertStats, MarkCount
  <2> QED BY <1>0, <2>1 DEF RunsOK
<1>14. ASSUME NEW p \in Procs, Succeed(p) PROVE RunsOK'
    BY <1>7, <1>14 DEF Succeed, Finish, RunsOK
<1>15. ASSUME NEW p \in Procs, PurgeExpiredStaging(p) PROVE RunsOK'
  <2>1. PICK last \in 0..MaxExpired : lost' = lost \cup 1..last
      BY <1>15 DEF PurgeExpiredStaging
  <2>2. 1..last \subseteq Days
    <3>1. MaxExpired \in 0..LastDay BY IngestConstants
    <3> QED BY <3>1, Constants
  <2> QED BY <1>15, <2>1, <2>2 DEF PurgeExpiredStaging, RunsOK
<1>16. ASSUME NEW p \in Procs, RunStep(p) PROVE RunsOK'
  <2>1. CASE \E ac \in Aircraft : Flush(p, ac) BY <2>1, RunsKept DEF Flush
  <2>2. CASE DeleteStale(p) BY <2>2, RunsKept DEF DeleteStale
  <2> QED BY <1>10, <1>11, <1>12, <1>13, <1>14, <1>15, <1>16, <2>1, <2>2 DEF RunStep
<1>17. CASE UNCHANGED vars BY <1>17, RunsKept DEF vars, marks
<1> QED BY <1>2, <1>3, <1>4, <1>5, <1>6, <1>8, <1>9, <1>16, <1>17 DEF Next

(* Both hold at the start.                                                 *)
LEMMA TypesInit == Init => TablesOK /\ RunsOK
<1> SUFFICES ASSUME Init PROVE TablesOK /\ RunsOK
    OBVIOUS
<1>1. TablesOK BY DEF Init, TablesOK, NoCarry, Statuses
<1>2. 1 \in Days /\ MaxRuns \in Nat /\ MaxCrashes \in Nat /\ MaxErrors \in Nat
    BY IngestConstants, Constants
<1>3. RunsOK BY <1>2 DEF Init, RunsOK, NoCarry
<1> QED BY <1>1, <1>3

(* Type correctness, for any constants and any traces with one report per  *)
(* time: the rows that are written start and end at times of reports, days *)
(* stay in the range of the model, and the counts of a day are numbers.    *)
THEOREM TypeCorrect ==
    ASSUME OneReportPerTime
    PROVE  Spec => []TypeOK
<1> DEFINE All == CarryInv /\ ExpectedInv /\ TableInv /\ RowsKnown /\ TablesOK /\ RunsOK
<1>1. Init => All
    BY CarryInit, ExpectedInit, TableInit, KnownInit, TypesInit
<1>2. All /\ [Next]_vars => All'
    BY CarryStays, ExpectedStays, TableStays, KnownStays, TablesStay, RunsStay
<1>3. All => TypeOK
    BY DEF TypeOK, CarryInv, Shape, TableInv, TableShape, RowsKnown, TablesOK, RunsOK
<1> QED
  <2> HIDE DEF All
  <2> QED BY <1>1, <1>2, <1>3, PTL DEF Spec

=============================================================================
