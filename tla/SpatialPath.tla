----------------------------- MODULE SpatialPath -----------------------------
(***************************************************************************)
(* trajectory_intersects and trajectory_within: what _compile_spatial_path *)
(* of server/adsb_server/query/compiler.py asks of a stored flight.        *)
(*                                                                         *)
(* Time is a grid of instants.  A stored path is known at some of them and *)
(* its gaps are the others: the place and the altitude at each, a series   *)
(* of pressure corrections and one of heights above ground (AGL), each of  *)
(* which may be missing, vary and have holes, and squawk codes from the    *)
(* first that was heard in a piece of the path.  Places lie on a line and  *)
(* a flight passes through all those between two samples without a gap.  A *)
(* path that is clipped is the set of the instants that are left, and SQL  *)
(* makes NULL of the empty one.  The duration and the length of what is    *)
(* left count the steps between two instants of the grid.                  *)
(*                                                                         *)
(* An H3 cell is CellWidth places.  The cells lie in two rows, as in a     *)
(* strip of a hexagonal grid: c touches the cells c - 2 .. c + 2, and a    *)
(* path from c - 1 to c + 1 may pass through c by a corner only.           *)
(*                                                                         *)
(* An optional field of the request is a set of at most one value.  A      *)
(* fragment is a set of named conditions for the inner query and one for   *)
(* the outer query: the WHERE clause is their AND.                         *)
(* The operators named Bug... are faulty variants, each a mistake the code *)
(* could have made: the properties are checked to notice them.             *)
(***************************************************************************)
EXTENDS Integers, FiniteSets, FiniteSetsExt, SqlLogic

CONSTANTS
    CellWidth,  \* places in an H3 cell
    MaxCells    \* MAX_QUERY_H3_CELLS

ASSUME SpatialConstants == CellWidth \in Nat \ {0} /\ MaxCells \in Nat

None == {}

AtMostOne(option) == \A x, y \in option : x = y

Known(f) == DOMAIN f.place

Start(f) == Min(Known(f))
End(f)   == Max(Known(f))

Ran(fn) == {fn[x] : x \in DOMAIN fn}

(* The cells that places lie in. *)
CellOf(place) == place \div CellWidth
Cells(places) == {CellOf(p) : p \in places}

(* path_h3_cells: of three cells in a row it joins the outer ones, which   *)
(* are adjacent, and may leave out the one that is clipped at a corner.    *)
Covers(cells, places) ==
    /\ cells \subseteq Cells(places)
    /\ \A c \in Cells(places) \ cells : {c - 1, c + 1} \subseteq cells

(* A series that is missing, or known at some instants of the flight. *)
IsSeries(f, series) ==
    /\ AtMostOne(series)
    /\ \A fn \in series :
          DOMAIN fn # {} /\ DOMAIN fn \subseteq Known(f) /\ fn \in [DOMAIN fn -> Int]

(* What the table flights can hold.  A correction is anchored at the first *)
(* and the last point and has holes behind a gap only; heights are known   *)
(* throughout a piece of the path or not at all; the ends of a piece have  *)
(* their cell.                                                             *)
IsStored(f) ==
    /\ Known(f) # {} /\ Known(f) \subseteq Nat /\ IsFiniteSet(Known(f))
    /\ f.place \in [Known(f) -> Int] /\ f.alt \in [Known(f) -> Int]
    /\ IsSeries(f, f.corr) /\ IsSeries(f, f.agl)
    /\ \A corr \in f.corr :
          /\ {Start(f), End(f)} \subseteq DOMAIN corr
          /\ \A t \in Known(f) \ DOMAIN corr : ~(Start(f)..t \subseteq Known(f))
    /\ \A agl \in f.agl, t \in Known(f) :
          t + 1 \in Known(f) => (t \in DOMAIN agl <=> t + 1 \in DOMAIN agl)
    /\ DOMAIN f.squawk \subseteq Known(f)
    /\ \A t \in Known(f) : t + 1 \in Known(f) => f.place[t + 1] - f.place[t] \in -1..1
    /\ Covers(f.cells, Ran(f.place))
    /\ \A t \in Known(f) :
          ~({t - 1, t + 1} \subseteq Known(f)) => CellOf(f.place[t]) \in f.cells

-----------------------------------------------------------------------------
(* The stored flight *)

(* A flight without a correction keeps its pressure altitude; in a hole of *)
(* its correction a flight has no altitude in feet.                        *)
HasAltitude(f, ref, t) == ref = "ft" => \A corr \in f.corr : t \in DOMAIN corr

Correction(f) == CHOOSE corr \in f.corr : TRUE

Feet(f, ref, t) == f.alt[t] + IF ref = "ft" /\ f.corr # None THEN Correction(f)[t] ELSE 0

Altitudes(f, ref) == {Feet(f, ref, t) : t \in {u \in Known(f) : HasAltitude(f, ref, u)}}

(* The generated columns alt_min_... and alt_max_... *)
AltMin(f, ref) == Min(Altitudes(f, ref))
AltMax(f, ref) == Max(Altitudes(f, ref))

(* The value at t on the line between the samples that surround it. *)
Between(fn, a, b, t) == fn[a] + (((fn[b] - fn[a]) * (t - a)) \div (b - a))

LastKnown(f, t) == Max({u \in Known(f) : u <= t})

NextKnown(f, t) == Min({u \in Known(f) : u > t})

Linear(f, fn) ==
    [t \in Start(f)..End(f) |->
        IF t \in Known(f) THEN fn[t] ELSE Between(fn, LastKnown(f, t), NextKnown(f, t), t)]

Stepwise(fn) ==
    [t \in Min(DOMAIN fn)..Max(DOMAIN fn) |-> fn[Max({u \in DOMAIN fn : u <= t})]]

(* tgeompointSeq(instants(path)): gaps are bridged by a straight line, a   *)
(* stepwise series carries its last value.                                 *)
Stitched(f) ==
    [place |-> Linear(f, f.place), alt |-> Linear(f, f.alt),
     corr |-> {Stepwise(corr) : corr \in f.corr}, agl |-> {Stepwise(agl) : agl \in f.agl}]

-----------------------------------------------------------------------------
(* Clipping: the instants of T that satisfy a constraint. *)

InBounds(x, low, high) == (\A l \in low : l <= x) /\ (\A h \in high : x <= h)

Bound(limit, ref) == {a.ft : a \in {b \in limit : b.ref = ref}}

Options == {"geometry", "altMin", "altMax", "from", "to", "aglMin", "aglMax",
            "dwellMin", "dwellMax", "distMin", "distMax"}

(* SpatioTemporalAltitudeValue: at least one constraint must be set.  The  *)
(* cells of a polygon cover its inside and its boundary.                   *)
IsBlock(v) ==
    /\ v.kind \in {"intersects", "within"}
    /\ \A option \in Options : AtMostOne(v[option])
    /\ \A g \in v.geometry :
          /\ g.kind \in {"Polygon", "Circle", "LineString"}
          /\ g.places # {} /\ g.places \subseteq Int /\ IsFiniteSet(g.places)
          /\ g.kind = "Polygon" => Covers(g.cells, g.places)
    /\ v.altMin \cup v.altMax \subseteq [ref : {"fl", "ft"}, ft : Int]
    /\ \A option \in Options \ {"geometry", "altMin", "altMax"} : v[option] \subseteq Int
    /\ \E option \in Options \cup {"squawk"} : v[option] # None

HasAlt(v)  == v.altMin # None \/ v.altMax # None
HasTime(v) == v.from # None \/ v.to # None
HasAgl(v)  == v.aglMin # None \/ v.aglMax # None
HasMeasure(v) == v.dwellMin # None \/ v.dwellMax # None \/ v.distMin # None \/ v.distMax # None

AtTime(v, T) == {t \in T : (\A a \in v.from : a <= t) /\ (\A b \in v.to : t < b)}

Bounded(v, ref) == Bound(v.altMin, ref) # None \/ Bound(v.altMax, ref) # None

(* atvalues on one altitude reference, if it is bounded at all. *)
AtRef(f, v, ref, T) ==
    {t \in T : Bounded(v, ref) =>
        /\ HasAltitude(f, ref, t)
        /\ InBounds(Feet(f, ref, t), Bound(v.altMin, ref), Bound(v.altMax, ref))}

AtAltitude(f, v, T) == AtRef(f, v, "fl", T) \cap AtRef(f, v, "ft", T)

AtAgl(f, v, T) ==
    IF HasAgl(v)
    THEN {t \in T : \E agl \in f.agl : t \in DOMAIN agl /\ InBounds(agl[t], v.aglMin, v.aglMax)}
    ELSE T

Area(v) == UNION {g.places : g \in v.geometry}

Box(places) == Min(places)..Max(places)

AtGeometry(f, v, T) == {t \in T : v.geometry = None \/ f.place[t] \in Area(v)}

(* atStbox(path, sb): the bounding box of the geometry and the window. *)
AtStbox(f, v) == AtTime(v, {t \in Known(f) : f.place[t] \in Box(Area(v))})

(* clipped_full and _effective_clipped. *)
Clipped(f, v) ==
    IF HasTime(v) \/ HasAlt(v) THEN AtAltitude(f, v, AtStbox(f, v)) ELSE Known(f)

BugAglAside(f, v) == AtGeometry(f, v, Clipped(f, v))

EffectiveClipped(f, v) == AtAgl(f, v, AtGeometry(f, v, Clipped(f, v)))

Steps(T) == {t \in T : t + 1 \in T}

Length(f, T) == Cardinality({t \in Steps(T) : f.place[t] # f.place[t + 1]})

(* _measured_path_sql: stitched before it is clipped. *)
Measured(f, v) ==
    LET s == Stitched(f)
    IN  AtGeometry(s, v, AtAgl(s, v, AtAltitude(s, v, AtTime(v, Known(s)))))

-----------------------------------------------------------------------------
(* The conditions *)

Part(sql, value) == {[sql |-> sql, value |-> value]}

(* One condition on an option of the request that compares what may be     *)
(* NULL: none without the option.                                          *)
PartIf(sql, option, missing, P(_)) ==
    IF option = None THEN {}
    ELSE Part(sql, IF missing THEN "null" ELSE Truth(\A x \in option : P(x)))

HasCells(v) == \E g \in v.geometry : g.kind # "LineString"

(* grid_disk(c, 1) *)
Around(c) == c - 2 .. c + 2

BugNoRing(g) == IF g.kind = "Polygon" THEN g.cells ELSE Cells(g.places)

(* geometry_h3_cells: a polygon is padded by a ring, a circle is not. *)
H3Cells(g) ==
    IF g.kind = "Polygon" THEN UNION {Around(c) : c \in g.cells} ELSE Cells(g.places)

TooLarge(v) == HasCells(v) /\ \E g \in v.geometry : Cardinality(H3Cells(g)) > MaxCells

(* path && sb, or sb_idx when there is a flight level: boxes overlap. *)
BoxesOverlap(f, v) ==
    /\ Box(Ran(f.place)) \cap Box(Area(v)) # {}
    /\ AtTime(v, Start(f)..End(f)) # {}
    /\ \A l \in Bound(v.altMin, "fl") : AltMax(f, "fl") >= l
    /\ \A h \in Bound(v.altMax, "fl") : AltMin(f, "fl") <= h

BugFeetByPressure(f, v) ==
    {[sql |-> "alt columns", value |-> Truth(\A ref \in {"fl", "ft"} :
        InBounds(AltMin(f, "fl"), Bound(v.altMin, ref), Bound(v.altMax, ref)))]}

(* Never outside of the bounds, by the stored columns. *)
AlwaysAtAltitude(f, v) ==
    Part("alt columns", Truth(\A ref \in {"fl", "ft"} :
        /\ InBounds(AltMin(f, ref), Bound(v.altMin, ref), None)
        /\ InBounds(AltMax(f, ref), None, Bound(v.altMax, ref))))

EverAtAltitude(f, v) ==
    Part("alt columns", Truth(\A ref \in {"fl", "ft"} :
        /\ InBounds(AltMax(f, ref), Bound(v.altMin, ref), None)
        /\ InBounds(AltMin(f, ref), None, Bound(v.altMax, ref))))

IntersectsParts(f, v) ==
    Part("path &&", Truth(BoxesOverlap(f, v)))
    \cup Part("eIntersects", IF Clipped(f, v) = {} THEN "null"
                             ELSE Truth(AtGeometry(f, v, Clipped(f, v)) # {}))

WithinParts(f, v) ==
    Part("ST_Within", Truth(\A t \in Known(f) : f.place[t] \in Area(v)))
    \cup (IF HasAlt(v) \/ HasTime(v)
          THEN Part("path &&", Truth(BoxesOverlap(f, v)))
               \cup Part("atStbox", Truth(AtStbox(f, v) # {}))
               \cup AlwaysAtAltitude(f, v)
          ELSE {})

GeometryParts(f, v) ==
    (IF HasCells(v)
     THEN Part("path_h3", Truth(\E g \in v.geometry : f.cells \cap H3Cells(g) # {}))
     ELSE {})
    \cup IF v.kind = "intersects" THEN IntersectsParts(f, v) ELSE WithinParts(f, v)

AltitudeParts(f, v) ==
    IF v.kind = "within" THEN AlwaysAtAltitude(f, v) ELSE EverAtAltitude(f, v)

TimeParts(f, v) ==
    Part("end_ts", Truth(\A t \in v.from : End(f) >= t))
    \cup Part("start_ts", Truth(\A t \in v.to : Start(f) < t))

BugNeverClips(v) == v.geometry # None \/ HasTime(v)

(* Whether the constraints clip what is measured; if not, the stored       *)
(* duration and path_length_m are the measures.                            *)
Clips(v) ==
    v.geometry # None \/ HasTime(v) \/ (v.kind = "intersects" /\ (HasAlt(v) \/ HasAgl(v)))

(* Where the flight is measured. *)
MeasuredOn(f, v) == IF Clips(v) THEN Measured(f, v) ELSE Start(f)..End(f)

MeasureParts(f, v) ==
    LET T     == MeasuredOn(f, v)
        dwell == Cardinality(Steps(T))
        dist  == Length(Stitched(f), T)
    IN  PartIf("duration", v.dwellMin, FALSE, LAMBDA x : End(f) - Start(f) >= x)
        \cup PartIf("dwell_min", v.dwellMin, T = {}, LAMBDA x : dwell >= x)
        \cup PartIf("dwell_max", v.dwellMax, T = {}, LAMBDA x : dwell <= x)
        \cup PartIf("distance_min", v.distMin, T = {}, LAMBDA x : dist >= x)
        \cup PartIf("distance_max", v.distMax, T = {}, LAMBDA x : dist <= x)

(* The codes of the whole flight, and those at the instants that are left  *)
(* of it when there is a geometry.                                         *)
SquawkParts(f, v) ==
    LET heard(T) == {f.squawk[t] : t \in T \cap DOMAIN f.squawk} IN
    IF v.squawk = {} THEN {}
    ELSE Part("squawk_codes", Truth(heard(Known(f)) \cap v.squawk # {}))
         \cup Part("squawk instants", Truth(v.squawk \cap
                  heard(IF v.geometry = None THEN Known(f) ELSE EffectiveClipped(f, v)) # {}))

(* The heights that are known at instants of T. *)
Heights(f, T) == UNION {{agl[t] : t \in T \cap DOMAIN agl} : agl \in f.agl}

AglEver(sql, f, v) ==
    LET H == Heights(f, Known(f)) IN
    PartIf(sql, v.aglMin, H = {}, LAMBDA x : Max(H) >= x)
    \cup PartIf(sql, v.aglMax, H = {}, LAMBDA x : Min(H) <= x)

AglAlways(f, v, T) ==
    LET H == Heights(f, T) IN
    PartIf("agl min", v.aglMin, H = {}, LAMBDA x : Min(H) >= x)
    \cup PartIf("agl max", v.aglMax, H = {}, LAMBDA x : Max(H) <= x)

AglParts(f, v) ==
    Part("path_agl_ft", Truth(f.agl # None))
    \cup IF v.geometry # None
         THEN AglEver("agl columns", f, v)
              \cup IF v.kind = "within" THEN AglAlways(f, v, AtGeometry(f, v, Clipped(f, v)))
                   ELSE Part("agl instants", Truth(EffectiveClipped(f, v) # {}))
         ELSE IF v.kind = "within" THEN AglAlways(f, v, Known(f))
         ELSE IF v.aglMin = None \/ v.aglMax = None THEN AglEver("agl", f, v)
         ELSE AglEver("agl columns", f, v)
              \cup Part("agl instants", Truth(AtAgl(f, v, Known(f)) # {}))

(* Tested by the outer query when the geometry is the only constraint that *)
(* places the flight.                                                      *)
Expensive == {"path &&", "eIntersects", "dwell_min", "dwell_max", "distance_min",
              "distance_max", "squawk instants", "agl instants"}

Deferred(v) == v.geometry # None /\ v.kind = "intersects" /\ ~HasAlt(v) /\ ~HasTime(v)

(* _compile_spatial_path *)
Parts(f, v) ==
    TimeParts(f, v) \cup MeasureParts(f, v) \cup SquawkParts(f, v)
    \cup (IF v.geometry # None THEN GeometryParts(f, v) ELSE AltitudeParts(f, v))
    \cup (IF HasAgl(v) THEN AglParts(f, v) ELSE {})

Inner(f, v) == {p \in Parts(f, v) : ~Deferred(v) \/ p.sql \notin Expensive}
Outer(f, v) == {p \in Parts(f, v) : Deferred(v) /\ p.sql \in Expensive}
=============================================================================
