------------------------- MODULE TrajectoryPredicate -------------------------
(***************************************************************************)
(* A trajectory predicate is compiled and tested against one row: the      *)
(* conditions of SpatialPath for every flight and every block, and what    *)
(* the documentation of the query language promises of them.               *)
(***************************************************************************)
EXTENDS SpatialPath

CONSTANTS
    Flights,    \* rows of the table flights
    Blocks      \* the SpatioTemporalAltitudeValue of a predicate, with its kind

VARIABLES
    flight,     \* a row
    block,      \* the predicate that it is tested against
    answer,     \* "none", "refused" or "compiled"
    fragment    \* the conditions of the inner and of the outer query

testVars == <<flight, block, answer, fragment>>

ASSUME TrajectoryConstants ==
    /\ \A f \in Flights : IsStored(f)
    /\ \A v \in Blocks : IsBlock(v)

NoConditions == [inner |-> {}, outer |-> {}]

TestInit ==
    /\ flight \in Flights /\ block \in Blocks
    /\ answer = "none" /\ fragment = NoConditions

(* GeometryTooLargeError: the request is answered with 422. *)
RefuseTooLarge ==
    /\ answer = "none" /\ TooLarge(block)
    /\ answer' = "refused"
    /\ UNCHANGED <<flight, block, fragment>>

Compile ==
    /\ answer = "none" /\ ~TooLarge(block)
    /\ answer' = "compiled"
    /\ fragment' = [inner |-> Inner(flight, block), outer |-> Outer(flight, block)]
    /\ UNCHANGED <<flight, block>>

TestNext == RefuseTooLarge \/ Compile

TestSpec == TestInit /\ [][TestNext]_testVars

-----------------------------------------------------------------------------
(* Properties *)

Holds(parts) == AndOf({p.value : p \in parts})

Matches == answer = "compiled" /\ Holds(fragment.inner \cup fragment.outer) = "true"

(* The constraints of the block on where, when and how high, at an instant *)
(* of a path.                                                              *)
JointAt(f, v, t) ==
    /\ \A g \in v.geometry : f.place[t] \in g.places
    /\ \A low \in v.altMin : HasAltitude(f, low.ref, t) /\ Feet(f, low.ref, t) >= low.ft
    /\ \A high \in v.altMax : HasAltitude(f, high.ref, t) /\ Feet(f, high.ref, t) <= high.ft
    /\ \A from \in v.from : from <= t
    /\ \A to \in v.to : t < to
    /\ HasAgl(v) =>
          \E agl \in f.agl : t \in DOMAIN agl /\ InBounds(agl[t], v.aglMin, v.aglMax)

JointSteps ==
    LET s == Stitched(flight) IN Steps({t \in Known(s) : JointAt(s, block, t)})

Probes == {"path_h3", "path &&", "duration", "squawk_codes", "agl columns"}

(* The flight is inside a circle only where it clips corners of cells that *)
(* path_h3 does not have.                                                  *)
OnlyAtCorners(f, v) ==
    \E g \in v.geometry :
        g.kind = "Circle" /\ Cells(Ran(f.place) \cap g.places) \cap f.cells = {}

(* Each index probe is implied by the exact conditions beside it, also     *)
(* where path_h3 leaves out cells: leaving all probes out would add no row *)
(* (the pre-filters of _compile_spatial_path are "necessary conditions"),  *)
(* but for a circle that is met at such corners only, as it has no ring.   *)
ProbesLoseNoRow ==
    answer = "compiled" =>
        LET parts == fragment.inner \cup fragment.outer
        IN  Holds({p \in parts : p.sql \notin Probes}) = "true" =>
                Matches \/ OnlyAtCorners(flight, block)

OneInstant ==
    \E t \in Known(flight) :
        /\ JointAt(flight, block, t)
        /\ block.squawk # {} => t \in DOMAIN flight.squawk /\ flight.squawk[t] \in block.squawk

IntersectsAnswered ==
    answer = "compiled" /\ block.kind = "intersects" /\ block.geometry # None /\ ~HasMeasure(block)

(* A flight matches a trajectory_intersects with a geometry only when one  *)
(* instant of its path satisfies the geometry, the altitudes, the window,  *)
(* the heights and the squawk code together, although the query tests them *)
(* in six conditions of two nested queries; and always when one does, but  *)
(* for a circle met at corners only.  Where the correction or the heights  *)
(* have a hole no bound on them is satisfied.                              *)
OneInstantForAll ==
    IntersectsAnswered =>
        /\ Matches => OneInstant
        /\ OneInstant => Matches \/ OnlyAtCorners(flight, block)

(* "capture every cell the linestring passes through - including cells     *)
(* only briefly clipped at a corner" (h3_cells.py, of path_h3_cells): then *)
(* the cells would never hide a flight that is inside of a circle.         *)
CornersFound == IntersectsAnswered => (OneInstant => Matches)

WithinAnswered ==
    /\ answer = "compiled" /\ block.kind = "within" /\ ~HasTime(block)
    /\ ~HasMeasure(block) /\ block.squawk = {}

(* As JointAt, but nothing is asked of an altitude or a height in a hole   *)
(* of its series, and of no height where an altitude that is bounded has   *)
(* a hole.                                                                 *)
JointWhereKnown(f, v, t) ==
    /\ \A g \in v.geometry : f.place[t] \in g.places
    /\ \A low \in v.altMin : HasAltitude(f, low.ref, t) => Feet(f, low.ref, t) >= low.ft
    /\ \A high \in v.altMax : HasAltitude(f, high.ref, t) => Feet(f, high.ref, t) <= high.ft
    /\ HasAgl(v) /\ (\A b \in v.altMin \cup v.altMax : HasAltitude(f, b.ref, t)) =>
          \E agl \in f.agl : t \in DOMAIN agl => InBounds(agl[t], v.aglMin, v.aglMax)

(* A flight matches a trajectory_within without a window when no instant   *)
(* of its path breaks a constraint, and only when none breaks one where it *)
(* can be told, whether the bounds are read from stored columns or from    *)
(* the clipped path.                                                       *)
WithinThroughout ==
    WithinAnswered =>
        /\ (\A t \in Known(flight) : JointAt(flight, block, t)) => Matches
        /\ Matches => \A t \in Known(flight) : JointWhereKnown(flight, block, t)

(* "always semantics: entire path must have altitude within bounds.        *)
(* Stored btree columns give exact O(log n) checks" (compiler.py).         *)
WithinAtEveryInstant ==
    WithinAnswered /\ Matches => \A t \in Known(flight) : JointAt(flight, block, t)

MeasureHolds ==
    /\ InBounds(Cardinality(JointSteps), block.dwellMin, block.dwellMax)
    /\ InBounds(Length(Stitched(flight), JointSteps \cup {t + 1 : t \in JointSteps}),
                block.distMin, block.distMax)

(* A correction without a hole that does not change over a gap, and        *)
(* heights from the first to the last point, for the bounds on them.       *)
KnownThroughout(f, v) ==
    /\ Bounded(v, "ft") =>
          \A corr \in f.corr :
              /\ DOMAIN corr = Known(f)
              /\ \A t \in (Start(f)..End(f)) \ Known(f) :
                    corr[LastKnown(f, t)] = corr[NextKnown(f, t)]
    /\ HasAgl(v) => \A agl \in f.agl : {Start(f), End(f)} \subseteq DOMAIN agl

(* What a flight that matches was measured by is the time and the length   *)
(* of the part of it that satisfies every other constraint, gaps bridged;  *)
(* where the stored duration and path_length_m stand for it, if what they  *)
(* are bounded by is known throughout.                                     *)
MeasuresThePart ==
    Matches /\ (Clips(block) \/ KnownThroughout(flight, block)) => MeasureHolds

(* "In trajectory_within, altitude and AGL bounds hold over the whole path *)
(* for every flight that matches, so only geometry and time clip it"       *)
(* (compiler.py): then the stored measures would always stand for it.      *)
StoredMeasureStands == Matches => MeasureHolds

(* "When geometry, altitude, and/or time are combined, all constraints are *)
(* applied simultaneously" (models.py, of TrajectoryIntersects): also      *)
(* altitude and time without a geometry.                                   *)
AppliedSimultaneously ==
    Matches /\ block.kind = "intersects" /\ HasAlt(block) /\ HasTime(block) /\ ~HasAgl(block) =>
        \E t \in Known(flight) : JointAt(flight, block, t)

(* "Altitude and time constraints narrow the portion of the path that must *)
(* lie within the geometry" (models.py, of TrajectoryWithin).              *)
OnlyThePortion ==
    answer = "compiled" /\ block.kind = "within" /\ block.geometry # None =>
        LET portion == {t \in Known(flight) : JointAt(flight, [block EXCEPT !.geometry = None], t)}
        IN  portion # {} /\ portion = {t \in portion : flight.place[t] \in Area(block)}
                => Matches
=============================================================================
