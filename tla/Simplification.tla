--------------------------- MODULE Simplification ---------------------------
(***************************************************************************)
(* Which samples of a flight are stored                                    *)
(* (server/adsb_server/geometry/simplify.py, interpolate_missing_values,   *)
(* build_squawk_runs and build_scalar_series of ingestion/splitter.py,     *)
(* _simplify_agl of terrain/agl.py).                                       *)
(*                                                                         *)
(* TD-TR keeps the ends of a span and, as long as a sample between two     *)
(* neighbours that are kept lies further from the straight line between    *)
(* them than its tolerance, the one that lies furthest.  A flight goes     *)
(* along a line: its place is a number, and a deviation is the distance    *)
(* to the place that is interpolated in time.  Deviations are multiplied   *)
(* by the duration of the span, so that they are whole numbers.  Samples   *)
(* are in order of time and no two have the same (batch.py 297-302), and   *)
(* those that get here have an altitude (finalize_segment).  A value that  *)
(* was not reported is an empty set.  Of the four scalar series the ground *)
(* speed stands for the linear ones and the track is the circular one.     *)
(* The operators named Bug... are faulty variants, each a mistake the code *)
(* could have made: the properties are checked to notice them.             *)
(***************************************************************************)
EXTENDS Integers, FiniteSets, Sequences, SequencesExt

CONSTANTS
    SpatialTolerance,   \* simplify_flight: spatial_m (50 m)
    AltitudeTolerance,  \* simplify_flight: alt_ft (100 ft)
    SpeedTolerance,     \* _GS_EPSILON_KT
    TrackTolerance,     \* _TRACK_EPSILON_DEG
    Circle,             \* a full turn, 360 degrees
    AglTolerance,       \* _AGL_MIN_EPSILON_FT
    AglFraction         \* _AGL_EPSILON_FRACTION is one to AglFraction

ASSUME SimplificationConstants ==
    /\ {SpatialTolerance, AltitudeTolerance, SpeedTolerance, TrackTolerance} \subseteq Nat \ {0}
    /\ {Circle, AglTolerance, AglFraction} \subseteq Nat \ {0}

Abs(n) == IF n < 0 THEN -n ELSE n
The(set) == CHOOSE v \in set : TRUE

Span(s, a, b) == s[b].at - s[a].at

(* How far the value of sample p in the column v is from the line between *)
(* a and b.                                                                *)
Linear(s, v, p, a, b) ==
    Abs((v[p] - v[a]) * Span(s, a, b) - (v[b] - v[a]) * Span(s, a, p))

(* The shorter way around the circle. *)
Arc(from, to) == ((to - from + (Circle \div 2)) % Circle) - (Circle \div 2)

Around(s, p, a, b) ==
    LET turn == Circle * Span(s, a, b)
        on   == (The(s[a].track) * Span(s, a, b)) + (Arc(The(s[a].track), The(s[b].track)) * Span(s, a, p))
        off  == ((The(s[p].track) * Span(s, a, b)) - on) % turn
    IN  IF 2 * off <= turn THEN off ELSE turn - off

Between(a, b) == (a + 1) .. (b - 1)

(* A deviation dev is a function of a sample and the two around it, and a  *)
(* tolerance tol one of a sample.                                          *)

Triples(s) == LET D == DOMAIN s IN D \X D \X D

Everywhere(s, tolerance) == [p \in DOMAIN s |-> tolerance]

(* The sample that is furthest off for its tolerance, the first of them. *)
Furthest(dev, tol, a, b) ==
    CHOOSE p \in Between(a, b) :
        \A q \in Between(a, b) :
            /\ dev[<<q, a, b>>] * tol[p] <= dev[<<p, a, b>>] * tol[q]
            /\ q < p => dev[<<q, a, b>>] * tol[p] < dev[<<p, a, b>>] * tol[q]

(* _td_tr and _td_tr_1d; the order in which their stack is worked off does *)
(* not matter to what they keep.                                           *)
TdTr(s, dev, tol, first, last) ==
    LET kept[span \in (first..last) \X (first..last)] ==
            LET a == span[1]
                b == span[2]
                p == Furthest(dev, tol, a, b)
            IN  IF \A q \in Between(a, b) : dev[<<q, a, b>>] <= tol[q] * Span(s, a, b)
                THEN {} ELSE {p} \cup kept[<<a, p>>] \cup kept[<<p, b>>]
    IN  kept[<<first, last>>]

(* The spans between neighbours of a set of indices. *)
Spans(kept) ==
    {span \in kept \X kept : span[1] < span[2] /\ Between(span[1], span[2]) \cap kept = {}}

Refined(s, dev, tol, kept) ==
    kept \cup UNION {TdTr(s, dev, tol, span[1], span[2]) : span \in Spans(kept)}

Nth(kept, n) == CHOOSE i \in kept : Cardinality({j \in kept : j < i}) = n - 1

Picked(s, kept) == [n \in 1..Cardinality(kept) |-> s[Nth(kept, n)]]

Ends(s) == {1, Len(s)} \cap DOMAIN s

-----------------------------------------------------------------------------
(* interpolate_missing_values: codes are carried forward, tracks are       *)
(* interpolated between two that were reported.                            *)

LastBefore(S, p) == {a \in S : a <= p /\ \A c \in S : c <= p => c <= a}
FirstAfter(S, p) == {b \in S : b >= p /\ \A c \in S : c >= p => c >= b}

Filled(s) ==
    LET codes  == {i \in DOMAIN s : s[i].squawk # {}}
        tracks == {i \in DOMAIN s : s[i].track # {}}
        between(i, a, b) ==
            IF a = b THEN The(s[a].track)
            ELSE (The(s[a].track) + ((Arc(The(s[a].track), The(s[b].track)) * Span(s, a, i)) \div Span(s, a, b))) % Circle
    IN  [i \in DOMAIN s |->
            [s[i] EXCEPT !.squawk = UNION {s[a].squawk : a \in LastBefore(codes, i)},
                         !.track  = {between(i, a, b) : a \in LastBefore(tracks, i), b \in FirstAfter(tracks, i)}]]

-----------------------------------------------------------------------------
(* simplify_flight. *)

(* Where the code changes, the sample is kept. *)
Anchors(s) == {1, Len(s)} \cup {i \in 2..Len(s) : s[i].squawk # s[i - 1].squawk}

OffPlace(s) == [t \in Triples(s) |-> Linear(s, [i \in DOMAIN s |-> s[i].place], t[1], t[2], t[3])]
OffAlt(s)   == [t \in Triples(s) |-> Linear(s, [i \in DOMAIN s |-> s[i].alt], t[1], t[2], t[3])]

SpatialPass(s) == Refined(s, OffPlace(s), Everywhere(s, SpatialTolerance), Anchors(s))

BugAltitudeAlone(s) ==
    IF Len(s) <= 2 THEN DOMAIN s
    ELSE Refined(s, OffAlt(s), Everywhere(s, AltitudeTolerance), Anchors(s))

SimplifyFlight(s) ==
    IF Len(s) <= 2 THEN DOMAIN s
    ELSE Refined(s, OffAlt(s), Everywhere(s, AltitudeTolerance), SpatialPass(s))

-----------------------------------------------------------------------------
(* simplify_series, for what is left of the flight.  A sample without a    *)
(* value is off by nothing, and so is every sample between it and another. *)

AllReport(f, s, indices) == \A i \in indices : s[i][f] # {}

OffSpeed(s) ==
    [t \in Triples(s) |->
        IF AllReport("gs", s, {t[1], t[2], t[3]})
        THEN Linear(s, [i \in DOMAIN s |-> The(s[i].gs)], t[1], t[2], t[3]) ELSE 0]

OffTrack(s) ==
    [t \in Triples(s) |->
        IF AllReport("track", s, {t[1], t[2], t[3]}) THEN Around(s, t[1], t[2], t[3]) ELSE 0]

Reported(s, kept, f) == {i \in kept : s[i][f] # {}}

SpeedKept(s) == Reported(s, Refined(s, OffSpeed(s), Everywhere(s, SpeedTolerance), Ends(s)), "gs")

TrackKept(s) == Reported(s, Refined(s, OffTrack(s), Everywhere(s, TrackTolerance), Ends(s)), "track")

(* build_squawk_runs: where a code is new, and the last vertex. *)
SquawkRuns(s) ==
    LET codes == {i \in DOMAIN s : s[i].squawk # {}}
        runs  == {i \in codes : \A a \in LastBefore(codes \ {i}, i) : s[a].squawk # s[i].squawk}
        last  == {s[a].squawk : a \in LastBefore(runs, Len(s))}
    IN  {[at |-> s[i].at, code |-> s[i].squawk] : i \in runs}
            \cup {[at |-> s[Len(s)].at, code |-> code] : code \in last}

-----------------------------------------------------------------------------
(* _simplify_agl: the tolerance grows with the height. *)

Tolerances(s) ==
    [p \in DOMAIN s |->
        IF s[p].agl < AglTolerance * AglFraction THEN AglTolerance * AglFraction ELSE s[p].agl]

OffHeight(s) ==
    [t \in Triples(s) |-> AglFraction * Linear(s, [i \in DOMAIN s |-> s[i].agl], t[1], t[2], t[3])]

AglKept(s) == Refined(s, OffHeight(s), Tolerances(s), Ends(s))

-----------------------------------------------------------------------------
(* No sample that is left out is further than its tolerance from the line  *)
(* between its neighbours.                                                 *)
Within(s, kept, dev, tol) ==
    \A p \in DOMAIN s \ kept :
        \A a \in LastBefore(kept, p), b \in FirstAfter(kept, p) :
            dev[<<p, a, b>>] <= tol[p] * Span(s, a, b)
=============================================================================
