----------------------- MODULE MCTrajectoryPredicate -----------------------
(* Flights of up to four instants and the blocks of at most MaxSet         *)
(* constraints, for TLC.                                                   *)
EXTENDS TrajectoryPredicate

CONSTANT MaxSet

Hole == 99

(* A series over the instants of K. *)
Series(fn, K) == [t \in {u \in K : fn[u + 1] # Hole} |-> fn[t + 1]]

SeriesOf(option, K) == {Series(fn, K) : fn \in option}

Flight(K, place, cells, alt, corrected, squawk) ==
    [place |-> Series(place, K), cells |-> cells, alt |-> Series(alt, K),
     corr |-> SeriesOf(corrected.corr, K), agl |-> SeriesOf(corrected.agl, K),
     squawk |-> [t \in {u \in K : u >= squawk} |-> IF t = 3 THEN "B" ELSE "A"]]

(* Without a correction or heights; a correction that is level, or varies, *)
(* or has a hole; heights throughout, or on one side of a gap only.        *)
Corrected ==
    {[corr |-> {}, agl |-> agl] :
        agl \in {{}, {<<0, 1, 1, 0>>}, {<<2, 0, 1, 2>>}, {<<1, 1, Hole, Hole>>}, {<<Hole, Hole, 1, 2>>}}}
    \cup {[corr |-> {corr}, agl |-> {}] :
        corr \in {<<1, 1, 1, 1>>, <<1, 0, 0, 1>>, <<0, 1, Hole, 1>>, <<1, 1, Hole, 0>>}}
    \cup {[corr |-> {<<1, 1, Hole, 1>>}, agl |-> {<<1, 1, 0, 1>>}]}

(* Whole, with a gap in the middle, with two, and the first and last only; *)
(* crossing three cells, with and without the one in the middle, turning   *)
(* back, staying; level, climbing, descending.                             *)
SampleFlights ==
    {f \in {Flight(K, place, cells, alt, corrected, squawk) :
               K \in {0..3, {0, 2, 3}, {1, 3}},
               place \in {<<1, 2, 3, 4>>, <<2, 1, 1, 0>>, <<3, 3, 2, 2>>},
               cells \in SUBSET (0..2),
               alt \in {<<0, 1, 2, 2>>, <<2, 1, 0, 1>>},
               corrected \in Corrected,
               squawk \in {1, 4}} :
        IsStored(f)}

(* The cells of the last but one lack one that its boundary clips. *)
Geometries ==
    { [kind |-> "Polygon", places |-> {2}, cells |-> {1}],
      [kind |-> "Polygon", places |-> {1, 4}, cells |-> {0, 2}],
      [kind |-> "Circle", places |-> {2, 3}, cells |-> {1}],
      [kind |-> "LineString", places |-> {2}, cells |-> {}],
      [kind |-> "Polygon", places |-> 1..4, cells |-> {0, 2}],
      [kind |-> "Polygon", places |-> 0..7, cells |-> 0..3] }

Fl(x) == [ref |-> "fl", ft |-> x]
Ft(x) == [ref |-> "ft", ft |-> x]

One(S) == {{x} : x \in S}

SampleBlocks ==
    {v \in [kind : {"intersects", "within"},
            geometry : {{}} \cup One(Geometries),
            altMin : {{}, {Fl(1)}, {Ft(2)}}, altMax : {{}, {Fl(1)}, {Ft(1)}},
            from : {{}, {1}}, to : {{}, {2}},
            aglMin : {{}, {1}}, aglMax : {{}, {1}},
            squawk : {{}, {"A"}, {"B"}},
            dwellMin : {{}, {2}}, dwellMax : {{}, {1}},
            distMin : {{}, {1}}, distMax : {{}, {1}}] :
        /\ Cardinality({x \in {"geometry", "altMin", "altMax", "from", "to", "aglMin", "aglMax",
                               "squawk", "dwellMin", "dwellMax", "distMin", "distMax"} :
                           v[x] # {}}) \in 1..MaxSet
        /\ \A a \in v.altMin, b \in v.altMax : a.ref = b.ref => a.ft <= b.ft}
=============================================================================
