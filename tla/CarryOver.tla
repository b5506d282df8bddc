------------------------------ MODULE CarryOver -----------------------------
(***************************************************************************)
(* One aircraft through the daily batches: the points carried in           *)
(* flight_staging, the walk that cuts the merged points into flights, the  *)
(* rows the batch leaves in the flights table                              *)
(* (ingestion/splitter.py split_flights, ingestion/batch.py).              *)
(*                                                                         *)
(* Any day may be run at any time, again, and with a different trace, as   *)
(* reimport_specific_dates allows; a day that was never run leaves nothing *)
(* in flight_staging.  A run is atomic towards other runs here; its        *)
(* database statements, their failures and crashes are in module Ingest.   *)
(* The operators named Bug... are faulty variants, each a mistake the code *)
(* could have made: the properties are checked to notice them.             *)
(***************************************************************************)
EXTENDS Splitter

CONSTANTS
    Days,        \* the batch dates
    DayTraces,   \* what a trace file may hold: sets of points of one day, ts in 1..DayLen
    MaxRuns      \* bound of the model: how many batches run

ASSUME CarryOverConstants ==
    /\ Days \subseteq Int
    /\ \A trace \in DayTraces : \A p \in trace : p \in Point /\ 0 < p.ts /\ p.ts <= DayLen

VARIABLES
    runs,        \* batches started so far
    day,         \* batch_date of the run
    phase,       \* "idle" between batches, "walk" inside split_flights
    points,      \* all_points: the carry of the day before and the points of the day
    todo,        \* those split_flights has not reached
    seg,         \* current_seg
    prev,        \* current_seg[-1]
    flightStart, \* flight_start_ts
    upserts,     \* the flights this run writes
    staged,      \* flight_staging: day -> carried points, {} for none
    rows         \* the flights table

vars == <<runs, day, phase, points, todo, seg, prev, flightStart, upserts, staged, rows>>

Row == [start : Int, end : Int, batch : Days]

TypeOK ==
    /\ runs \in Nat
    /\ day \in Days
    /\ phase \in {"idle", "walk"}
    /\ points \subseteq Point /\ todo \subseteq Point /\ seg \subseteq Point
    /\ prev \in Point
    /\ flightStart \in Int
    /\ upserts \subseteq Flight
    /\ staged \in [Days -> SUBSET Point]
    /\ rows \subseteq Row

-----------------------------------------------------------------------------

Init ==
    /\ runs = 0
    /\ day \in Days
    /\ phase = "idle"
    /\ points = {} /\ todo = {} /\ seg = {}
    /\ prev = NoPoint
    /\ flightStart = 0
    /\ upserts = {}
    /\ staged = [d \in Days |-> {}]
    /\ rows = {}

StagedBefore(d) == IF d - 1 \in Days THEN staged[d - 1] ELSE {}

PointsOf(d, trace) == {[p EXCEPT !.ts = Midnight(d - 1) + p.ts] : p \in trace}

(* run_batch loads the carry of the day before and _process_and_correct    *)
(* merges it with the day's points (none if the aircraft has no trace).    *)
(* An aircraft without either is not visited: an empty run.                *)
StartBatch(d, trace) ==
    /\ phase = "idle"
    /\ runs < MaxRuns
    /\ runs' = runs + 1
    /\ day' = d
    /\ phase' = "walk"
    /\ points' = StagedBefore(d) \cup PointsOf(d, trace)
    /\ todo' = points'
    /\ seg' = {}
    /\ prev' = NoPoint
    /\ flightStart' = 0
    /\ upserts' = {}
    /\ UNCHANGED <<staged, rows>>

(* A trace file that does not parse hides the aircraft: the carry is not   *)
(* looked up, as the header names the aircraft, and the orphan entries     *)
(* leave it out, as its file name was seen.                                *)
StartUnreadable(d) ==
    /\ phase = "idle"
    /\ runs < MaxRuns
    /\ runs' = runs + 1
    /\ day' = d
    /\ phase' = "walk"
    /\ points' = {} /\ todo' = {} /\ seg' = {}
    /\ prev' = NoPoint
    /\ flightStart' = 0
    /\ upserts' = {}
    /\ UNCHANGED <<staged, rows>>

BugNewPointsFirst(p) ==
    /\ p \in todo
    /\ \A q \in todo : p.ts > Midnight(day - 1) \/ q.ts <= Midnight(day - 1)

(* The points in order of time; of several with the same time, one.        *)
IsNextPoint(p) ==
    /\ p \in todo
    /\ \A q \in todo : p.ts <= q.ts

(* The loop of split_flights: curr joins the current segment, or closes it *)
(* and opens the next one.  A closed segment is not the last, so it is     *)
(* finalized, provided that it has two points.                             *)
WalkPoint(curr) ==
    /\ phase = "walk"
    /\ IsNextPoint(curr)
    /\ todo' = {q \in todo : q.ts > curr.ts}
    /\ prev' = curr
    /\ \/ /\ seg = {}
          /\ seg' = {curr} /\ flightStart' = curr.ts
          /\ UNCHANGED upserts
       \/ /\ seg # {} /\ ~ShouldFlightSplit(prev, curr, flightStart)
          /\ seg' = seg \cup {curr}
          /\ UNCHANGED <<flightStart, upserts>>
       \/ /\ seg # {} /\ ShouldFlightSplit(prev, curr, flightStart)
          /\ seg' = {curr} /\ flightStart' = curr.ts
          /\ upserts' = IF AtLeastTwo(seg) THEN upserts \cup FinalizeSegment(seg) ELSE upserts
    /\ UNCHANGED <<runs, day, phase, points, staged, rows>>

BugOneWindow == IF AtLeastTwo(seg) /\ prev.ts >= Midnight(day) - GroundGap THEN seg ELSE {}
BugFinalizeAll ==
    IF AtLeastTwo(seg)
    THEN upserts \cup FinalizeSegment({p \in points : \A q \in points \ {p} : q.ts # p.ts})
    ELSE upserts

(* The last segment: carried when it is in progress, and written either    *)
(* way (an in-progress flight is written as far as it goes).               *)
Carried == IF AtLeastTwo(seg) /\ InProgress(prev, Midnight(day)) THEN seg ELSE {}
Written == IF AtLeastTwo(seg) THEN upserts \cup FinalizeSegment(seg) ELSE upserts

BugDeleteEveryBatch(written) ==
    {[start |-> f.start, end |-> f.end, batch |-> day] : f \in written}

(* _UPSERT_FLIGHT_SQL takes over a row with the same key whichever batch   *)
(* wrote it; then the rows of this batch that the run did not write go.    *)
RowsAfter(written) ==
    {r \in rows : r.batch # day /\ \A f \in written : f.start # r.start}
        \cup {[start |-> f.start, end |-> f.end, batch |-> day] : f \in written}

(* flight_staging of the day is replaced, unless no aircraft at all is in  *)
(* progress: then the row of an earlier run stays.                         *)
EndBatch ==
    /\ phase = "walk"
    /\ todo = {}
    /\ phase' = "idle"
    /\ upserts' = Written
    /\ rows' = RowsAfter(Written)
    /\ \/ staged' = [staged EXCEPT ![day] = Carried]
       \/ Carried = {} /\ UNCHANGED staged
    /\ seg' = {} /\ prev' = NoPoint /\ flightStart' = 0
    /\ UNCHANGED <<runs, day, points, todo>>

Next ==
    \/ \E d \in Days, trace \in DayTraces : StartBatch(d, trace)
    \/ \E d \in Days : StartUnreadable(d)
    \/ \E curr \in todo : WalkPoint(curr)
    \/ EndBatch

Spec == Init /\ [][Next]_vars

-----------------------------------------------------------------------------
(* Properties. *)

(* Batch d writes no flight that starts before day d-2: the claim that     *)
(* SETTLE_DAYS of ingestion/partition_backup.py (lines 78-83) and the      *)
(* settling of partitions rest on.                                         *)
SettleWindow ==
    \A r \in rows : r.start > Midnight(r.batch - 3)

(* A run for day d inserts, changes and deletes no flight that starts      *)
(* before day d-2: what makes a partition that ended three days before the *)
(* newest batch safe to dump for good.                                     *)
OldRowsUntouched ==
    [][ {r \in rows : r.start <= Midnight(day' - 3)}
            = {r \in rows' : r.start <= Midnight(day' - 3)} ]_vars

(* No flight is longer than the cap, however many midnights the aircraft's *)
(* points were carried across.                                             *)
FlightsCapped ==
    \A r \in rows : r.start <= r.end /\ r.end - r.start <= MaxSegment

(* A flight that was written provisionally and carried is extended by the  *)
(* next batch under the same key, never shortened or started anew: this is *)
(* what keeps (icao24, start_ts) stable (batch.py lines 404-410).          *)
CarriedFlightExtended ==
    phase = "idle" =>
        \A f \in FinalizeSegment({p \in points : p.ts <= Midnight(day - 1)}) :
            \E g \in upserts : g.start = f.start /\ g.end >= f.end

(* The flights one run writes for an aircraft do not overlap.              *)
RunFlightsDisjoint ==
    \A f, g \in upserts : f # g => f.end < g.start \/ g.end < f.start

(* The loop with its current segment computes the split of the merged      *)
(* points that Splitter defines, and what is carried is its last segment.  *)
WalkComputesSplit ==
    phase = "idle" /\ (\A p, q \in points : p.ts = q.ts => p = q) =>
        /\ upserts = SplitFlights(points)
        /\ InProgressPoints(points, Midnight(day)) # {} =>
               staged[day] = InProgressPoints(points, Midnight(day))

-----------------------------------------------------------------------------
(* The inductive invariant behind the properties. *)

(* What batch d carries was seen on day d or the day before: its last      *)
(* point is within an in-progress window of the cutoff, its first at most  *)
(* MaxSegment earlier.                                                     *)
StagedRecent ==
    \A d \in Days : \A p \in staged[d] : Midnight(d - 2) < p.ts /\ p.ts <= Midnight(d)

(* So a batch meets no point from before day d-2, *)
PointsRecent ==
    /\ \A p \in points : Midnight(day - 3) < p.ts /\ p.ts <= Midnight(day)
    /\ todo \subseteq points /\ seg \subseteq points

(* its current segment runs from flightStart to prev, ahead of it only     *)
(* later points and behind it only finished flights,                       *)
SegmentCurrent ==
    /\ seg = {} /\ phase = "walk" => upserts = {}
    /\ phase = "idle" => seg = {} /\ todo = {}
    /\ seg # {} =>
          /\ prev \in seg
          /\ \E first \in seg : first.ts = flightStart
          /\ \A p \in seg : flightStart <= p.ts /\ p.ts <= prev.ts
          /\ Midnight(day - 3) < flightStart /\ prev.ts <= Midnight(day)
          /\ prev.ts - flightStart <= MaxSegment
          /\ \A p \in todo : prev.ts < p.ts
          /\ \A f \in upserts : f.end < flightStart

(* and what it writes is bounded in the same way.                          *)
UpsertsBounded ==
    \A f \in upserts :
        /\ Midnight(day - 3) < f.start
        /\ f.start <= f.end /\ f.end - f.start <= MaxSegment

OneAtATime(S) == \A p, q \in S : p.ts = q.ts => p = q

(* S is one segment: no split between a point and the next.                *)
Unsplit(S) ==
    /\ OneAtATime(S)
    /\ \A p, q, first \in S :
          p.ts < q.ts /\ (\A r \in S : first.ts <= r.ts /\ (r.ts <= p.ts \/ q.ts <= r.ts))
              => ~ShouldFlightSplit(p, q, first.ts)

(* What the batch took over from the day before. *)
Taken == {p \in points : p.ts <= Midnight(day - 1)}

TakenExtended ==
    \A f \in FinalizeSegment(Taken) : \E g \in upserts : g.start = f.start /\ g.end >= f.end

(* A segment is carried whole, so the next walk does not split it either:  *)
(* it stays in one segment until the flight of that segment is written.    *)
CarryTogether ==
    /\ Unsplit(seg) /\ Unsplit(Taken)
    /\ \A d \in Days : Unsplit(staged[d])
    /\ phase = "walk" =>
          IF Taken \cap todo # {} THEN seg = Taken \ todo
                                 ELSE Taken \subseteq seg \/ TakenExtended

(* The walk has done what Splitter does to the points behind it.           *)
WalkedSoFar ==
    phase = "walk" /\ OneAtATime(points) =>
        LET walk == Walked(points \ todo)
        IN  /\ walk = [closed |-> walk.closed, seg |-> seg, prev |-> prev, start |-> flightStart]
            /\ upserts = UNION {FinalizeSegment(s) : s \in {t \in walk.closed : AtLeastTwo(t)}}
            /\ \A p \in points \ todo, q \in todo : p.ts < q.ts

IInv ==
    /\ TypeOK
    /\ StagedRecent
    /\ PointsRecent
    /\ SegmentCurrent
    /\ UpsertsBounded
    /\ CarryTogether
    /\ WalkedSoFar
    /\ SettleWindow
    /\ FlightsCapped
    /\ CarriedFlightExtended
    /\ RunFlightsDisjoint
    /\ WalkComputesSplit

=============================================================================
