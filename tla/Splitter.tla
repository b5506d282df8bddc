------------------------------ MODULE Splitter ------------------------------
(***************************************************************************)
(* How the points of one aircraft are cut into flights                     *)
(* (server/adsb_server/ingestion/splitter.py).                             *)
(*                                                                         *)
(* A point is a position report.  Its latitude and longitude are reduced   *)
(* to a coordinate pos on a line, its altitude to whether there is one     *)
(* (air: alt_baro is not None), and its flags to readsb's new_leg (leg).   *)
(* Time is counted in ticks from the start of day 1; day d is the ticks    *)
(* Midnight(d-1)+1 .. Midnight(d), so the cutoff of batch d (23:59:59.999) *)
(* is the tick Midnight(d).  The constants keep the order of the source's  *)
(* thresholds, not their values.                                           *)
(* The operators named Bug... are faulty variants, each a mistake the code *)
(* could have made: the properties are checked to notice them.             *)
(***************************************************************************)
EXTENDS Integers, SequencesExt

CONSTANTS
    DayLen,          \* ticks in a day
    MaxSegment,      \* _MAX_SEGMENT_DURATION: longest flight (24 h)
    GroundGap,       \* _GROUND_GAP_THRESHOLD (600 s)
    SubSeqGap,       \* _SUB_SEQ_GAP_S (60 s)
    MaxStitchGap,    \* _MAX_STITCH_GAP_S (12 h)
    WindowAir,       \* _IN_PROGRESS_WINDOW_AIR (1 h)
    MaxStitchSpeed,  \* _MAX_STITCH_SPEED_MPS
    MinStitchSpeed,  \* _MIN_STITCH_SPEED_MPS
    MaxPointSpeed    \* _MAX_POINT_SPEED_MPS

(* The thresholds are durations; a flight is never longer than a day and   *)
(* the windows that keep one open are shorter than a day.                  *)
ASSUME SplitterConstants ==
    /\ DayLen \in Nat /\ MaxSegment \in Nat
    /\ GroundGap \in Nat /\ SubSeqGap \in Nat /\ MaxStitchGap \in Nat /\ WindowAir \in Nat
    /\ MaxStitchSpeed \in Nat /\ MinStitchSpeed \in Nat /\ MaxPointSpeed \in Nat
    /\ MaxSegment <= DayLen
    /\ GroundGap < DayLen
    /\ WindowAir < DayLen

Point  == [ts : Int, air : BOOLEAN, leg : BOOLEAN, pos : Int]
Flight == [start : Int, end : Int]

Midnight(d) == d * DayLen

-----------------------------------------------------------------------------
(* Flight boundaries. *)

Gap(prev, curr)  == curr.ts - prev.ts
Dist(prev, curr) == IF prev.pos <= curr.pos THEN curr.pos - prev.pos
                                            ELSE prev.pos - curr.pos

GeographicallyPlausible(prev, curr) ==
    Dist(prev, curr) <= MaxStitchSpeed * Gap(prev, curr)

GeographicallyActive(prev, curr) ==
    Dist(prev, curr) >= MinStitchSpeed * Gap(prev, curr)

LongAirGap(prev, curr) == prev.air /\ curr.air /\ Gap(prev, curr) > SubSeqGap

BugNoCap(prev, curr, flightStart) ==
    \/ ~prev.air /\ ~curr.air /\ Gap(prev, curr) > GroundGap
    \/ /\ LongAirGap(prev, curr)
       /\ \/ Gap(prev, curr) > MaxStitchGap
          \/ ~GeographicallyPlausible(prev, curr)
          \/ Gap(prev, curr) > GroundGap /\ ~GeographicallyActive(prev, curr)
    \/ ~LongAirGap(prev, curr) /\ curr.leg

ShouldFlightSplit(prev, curr, flightStart) ==
    \/ curr.ts - flightStart > MaxSegment
    \/ ~prev.air /\ ~curr.air /\ Gap(prev, curr) > GroundGap
    \/ /\ LongAirGap(prev, curr)
       /\ \/ Gap(prev, curr) > MaxStitchGap
          \/ ~GeographicallyPlausible(prev, curr)
          \/ Gap(prev, curr) > GroundGap /\ ~GeographicallyActive(prev, curr)
    \/ ~LongAirGap(prev, curr) /\ curr.leg

InProgressWindow(last) == IF last.air THEN WindowAir ELSE GroundGap

BugAlwaysInProgress(last, cutoff) == last.ts <= cutoff

(* The last segment of a run is carried to the next day when it ends       *)
(* within the window before the cutoff.                                    *)
InProgress(last, cutoff) == last.ts >= cutoff - InProgressWindow(last)

-----------------------------------------------------------------------------
(* From a segment to a flight. *)

AtLeastTwo(S) == \E p, q \in S : p.ts # q.ts

(* The points of S, no two of them at the same time, sorted by ts. *)
InOrder(S) ==
    [i \in 1..Cardinality(S) |-> CHOOSE p \in S : Cardinality({q \in S : q.ts < p.ts}) = i - 1]

(* A report too far from the last one kept is dropped.  The second test of *)
(* the source, an implausible altitude rate, is left out: a point has no   *)
(* altitude here, but only whether it has one.                             *)
Implausible(prev, curr) == Dist(prev, curr) > MaxPointSpeed * Gap(prev, curr)

KeepPlausible(kept, curr) ==
    IF kept # << >> /\ Implausible(kept[Len(kept)], curr) THEN kept ELSE Append(kept, curr)

Plausible(S) ==
    LET kept == FoldLeft(KeepPlausible, << >>, InOrder(S))
    IN  {p \in S : p \in ToSet(kept)}

(* Sub-sequences break at gaps over SubSeqGap and need two points: a point *)
(* is on the path iff another one lies within SubSeqGap of it.             *)
OnPath(S) ==
    {p \in S : \E q \in S : p.ts # q.ts /\ Gap(p, q) <= SubSeqGap /\ Gap(q, p) <= SubSeqGap}

(* finalize_segment: no flight, or the one flight from the first to the    *)
(* last point of the path; the simplification keeps both ends.             *)
FinalizeSegment(seg) ==
    LET path == OnPath(Plausible({p \in seg : p.air}))
        Ends == {e \in path \X path : \A p \in path : e[1].ts <= p.ts /\ p.ts <= e[2].ts}
    IN  {[start |-> e[1].ts, end |-> e[2].ts] : e \in Ends}

-----------------------------------------------------------------------------
(* split_flights and the provisional flight of _process_and_correct, for   *)
(* points that have one report per time.                                   *)

NoPoint == [ts |-> 0, air |-> FALSE, leg |-> FALSE, pos |-> 0]

NothingWalked == [closed |-> {}, seg |-> {}, prev |-> NoPoint, start |-> 0]

AddPoint(walk, curr) ==
    IF walk.seg # {} /\ ~ShouldFlightSplit(walk.prev, curr, walk.start)
    THEN [walk EXCEPT !.seg = @ \cup {curr}, !.prev = curr]
    ELSE [closed |-> walk.closed \cup {walk.seg}, seg |-> {curr}, prev |-> curr, start |-> curr.ts]

Walked(points) == FoldLeft(AddPoint, NothingWalked, InOrder(points))

SplitFlights(points) ==
    LET walk == Walked(points)
    IN  UNION {FinalizeSegment(s) : s \in {t \in walk.closed \cup {walk.seg} : AtLeastTwo(t)}}

InProgressPoints(points, cutoff) ==
    LET walk == Walked(points)
    IN  IF AtLeastTwo(walk.seg) /\ InProgress(walk.prev, cutoff) THEN walk.seg ELSE {}

=============================================================================
