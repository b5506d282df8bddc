------------------------ MODULE MCPredicateCompiler ------------------------
(* Requests of a few nested predicates over four flights, for TLC. *)
EXTENDS PredicateCompiler, LeafPredicates

FlightRow(place, callsign, registration) ==
    [place |-> place, cells |-> Cells(Ran(place)), alt |-> [t \in DOMAIN place |-> t],
     corr |-> {}, agl |-> {},
     squawk |-> [t \in DOMAIN place |-> "A"], icao24 |-> <<"a">>, callsign |-> callsign,
     registration |-> registration, icao_type |-> {<<"b">>}, emitter_category |-> {}]

(* Over place 1 low, over place 1 high, elsewhere with a gap, and short;   *)
(* with and without a callsign and an airframe.                            *)
Four ==
    << FlightRow((0 :> 1) @@ (1 :> 2) @@ (2 :> 2), {<<"B", "-", "a">>}, {}),
       FlightRow((0 :> 3) @@ (1 :> 2) @@ (2 :> 1), {}, {<<"a", "b">>}),
       FlightRow((0 :> 3) @@ (2 :> 3), {<<"a">>}, {}),
       FlightRow((1 :> 1), {}, {}) >>

FourKeys == 1..4

Uppers == [c \in {"a", "b", "A", "B"} |-> IF c \in {"a", "A"} THEN "A" ELSE "B"]
Lowers == [c \in {"a", "b", "A", "B"} |-> IF c \in {"a", "A"} THEN "a" ELSE "b"]

Empty == [kind |-> "intersects", geometry |-> {}, altMin |-> {}, altMax |-> {}, from |-> {},
          to |-> {}, aglMin |-> {}, aglMax |-> {}, squawk |-> {}, dwellMin |-> {},
          dwellMax |-> {}, distMin |-> {}, distMax |-> {}]

Spot    == {[kind |-> "Polygon", places |-> {1}, cells |-> {0}]}
Path    == {[kind |-> "LineString", places |-> {2}, cells |-> {}]}
Country == {[kind |-> "Polygon", places |-> 0..9, cells |-> 0..4]}

Anywhere == [mode |-> "start", geometry |-> {}, startFrom |-> {}, startTo |-> {},
             endFrom |-> {}, endTo |-> {2}]

SampleLeaves ==
    { TrajectoryLeaf([Empty EXCEPT !.geometry = Spot, !.dwellMax = {1}]),
      TrajectoryLeaf([Empty EXCEPT !.geometry = Path]),
      TrajectoryLeaf([Empty EXCEPT !.geometry = Spot, !.altMin = {[ref |-> "fl", ft |-> 1]}]),
      TrajectoryLeaf([Empty EXCEPT !.geometry = Country]),
      EndpointLeaf([Anywhere EXCEPT !.mode = "either", !.geometry = Spot]),
      EndpointLeaf(Anywhere),
      EndpointLeaf([Anywhere EXCEPT !.endTo = {}]),
      PrefixLeaf("callsign", <<"b", "A">>),
      PrefixLeaf("registration", <<"A", "-">>),
      AnyOfLeaf("icao_type", {<<"B">>}),
      Icao24Leaf({<<"B">>}),
      DurationLeaf({1}, {}) }
=============================================================================
