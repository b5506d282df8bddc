--------------------------- MODULE DerivedColumns ---------------------------
(***************************************************************************)
(* The jobs that write the computed columns of flights: the batch of a day *)
(* (run_batch of server/adsb_server/ingestion/batch.py), backfill-agl      *)
(* (terrain/backfill_agl.py), backfill-airports and backfill-path-length   *)
(* (ingestion/), next to the download of tiles and the import of airports  *)
(* (reference_data/openaip.py).  Each is a process of its own and may      *)
(* start, go on and be killed between any two steps of the others.         *)
(*                                                                         *)
(* A backfill reads its rows through a cursor, which sees the table as it  *)
(* was when the cursor was opened, and writes by key through another       *)
(* connection, a batch of rows in one transaction.  Flights are numbered   *)
(* in the order of (start_ts, icao24).  Rows that were there before a      *)
(* column was added have no value in it.  A value that is NULL is an empty *)
(* set.                                                                    *)
(***************************************************************************)
EXTENDS StoredFlight

CONSTANTS
    Flights,    \* keys of flights
    Day,        \* the date of each one's start_ts
    Published,  \* the kind of each airport at OpenAIP, in the releases that there are
    FileOf,     \* the file of OpenAIP that each airport is in, one for each country
    BatchSize,  \* --batch-size of the backfills
    Loads       \* bounds: the keys and raw flights that arrive, how many jobs, failures and kills

ASSUME DerivedConstants ==
    /\ Flights \subseteq Nat /\ IsFiniteSet(Flights) /\ Day \in [Flights -> Nat]
    /\ \A p \in DOMAIN Published : Published[p] \in [Airports -> {"none", "field", "heliport", "closed"}]
    /\ DOMAIN FileOf = Airports
    /\ BatchSize \in Nat \ {0}
    /\ Loads \subseteq [keys : SUBSET Flights, raws : SUBSET DOMAIN Raws, jobs : Nat, failures : Nat, kills : Nat]

VARIABLES
    load,       \* the bounds of this behaviour
    flights,    \* the table: a row for each flight that there is
    waypoints,  \* the airports of the table waypoints, with their kind
    import,     \* import-openaip: the files that are not done
    batch,      \* run_batch
    heights,    \* backfill-agl
    idents,     \* backfill-airports
    lengths,    \* backfill-path-length
    raced       \* flights that changed after a backfill had read them

tableVars == <<flights, waypoints>>
jobVars   == <<import, batch, heights, idents, lengths>>
vars      == <<load, tableVars, jobVars, raced, terrainVars>>

Empty == [f \in {} |-> {}]

NoImport  == [release |-> 1, todo |-> {}]
NoIndex   == [fields |-> {}, heliports |-> {}]
NoBatch   == [on |-> FALSE, index |-> NoIndex, missed |-> {}, existing |-> {}, upserted |-> {}]
NoHeights == [pc |-> "idle", asked |-> {}, todo |-> Empty, pending |-> Empty, missed |-> {}, failed |-> {}]
NoIdents  == [pc |-> "idle", index |-> NoIndex, asked |-> {}, todo |-> Empty, pending |-> Empty]
NoLengths == [pc |-> "idle", day |-> 0, first |-> 0]

Legacy(r) == [raw |-> r, agl |-> {}, airports |-> <<{}, {}>>, length |-> {}]

Init ==
    /\ load \in Loads
    /\ \E known \in SUBSET load.keys : flights \in [known -> {Legacy(r) : r \in load.raws}]
    /\ waypoints = [a \in Airports |-> "none"]
    /\ import = NoImport /\ batch = NoBatch /\ heights = NoHeights /\ idents = NoIdents /\ lengths = NoLengths
    /\ raced = [heights |-> {}, idents |-> {}]
    /\ TerrainInit

StartsJob == load.jobs > 0 /\ load' = [load EXCEPT !.jobs = @ - 1]
Fails     == load.failures > 0 /\ load' = [load EXCEPT !.failures = @ - 1]
Killed    == load.kills > 0 /\ load' = [load EXCEPT !.kills = @ - 1]

-----------------------------------------------------------------------------
(* import-openaip: each file is fetched and upserted by itself, in any     *)
(* order; one that cannot be is passed over.  Nothing is ever deleted.     *)

Files == {FileOf[a] : a \in Airports}

StartImport(p) ==
    /\ import.todo = {} /\ StartsJob
    /\ import' = [release |-> p, todo |-> Files]
    /\ UNCHANGED <<tableVars, batch, heights, idents, lengths, raced, terrainVars>>

UpsertWaypoints(file) ==
    /\ file \in import.todo
    /\ waypoints' = [a \in Airports |->
                        IF FileOf[a] = file /\ Published[import.release][a] # "none"
                        THEN Published[import.release][a] ELSE waypoints[a]]
    /\ import' = IF import.todo = {file} THEN NoImport ELSE [import EXCEPT !.todo = @ \ {file}]
    /\ UNCHANGED <<load, flights, batch, heights, idents, lengths, raced, terrainVars>>

FileFails(file) ==
    /\ file \in import.todo /\ Fails
    /\ import' = IF import.todo = {file} THEN NoImport ELSE [import EXCEPT !.todo = @ \ {file}]
    /\ UNCHANGED <<tableVars, batch, heights, idents, lengths, raced, terrainVars>>

(* The index that a batch or a backfill loads: aerodromes that are open.   *)
Index == [fields    |-> {a \in Airports : waypoints[a] = "field"},
          heliports |-> {a \in Airports : waypoints[a] = "heliport"}]

-----------------------------------------------------------------------------
(* run_batch.  A worker that found a tile missing does not look again, but *)
(* each worker has a tile manager of its own.                              *)

StartBatch ==
    /\ ~batch.on /\ StartsJob
    /\ \E existing \in SUBSET DOMAIN flights :
          batch' = [NoBatch EXCEPT !.on = TRUE, !.index = Index, !.existing = existing]
    /\ UNCHANGED <<tableVars, import, heights, idents, lengths, raced, terrainVars>>

(* Rows that a backfill holds are out of date for it from here on. *)
Changed(keys) ==
    [heights |-> (raced.heights \ keys) \cup (keys \cap (DOMAIN heights.todo \cup DOMAIN heights.pending)),
     idents  |-> raced.idents \cup keys]

BugKeepOld(k, new) ==
    IF k \in DOMAIN flights /\ flights[k].agl # {} THEN [new EXCEPT !.agl = flights[k].agl] ELSE new

(* _UPSERT_FLIGHT_SQL: every column is replaced. *)
Upserted(k, new) == new

UpsertFlight(k, r) ==
    /\ batch.on
    /\ k \notin batch.upserted
    /\ \E missed \in SUBSET (batch.missed \cap OnLand \cap Crossed(r)) :
          LET agl == {AglOf[r][Readable(missed)]}
              new == [raw |-> r, agl |-> agl, airports |-> AirportsOf(batch.index, r, agl), length |-> {LengthOf[r]}]
          IN  flights' = [f \in DOMAIN flights \cup {k} |-> IF f = k THEN Upserted(k, new) ELSE flights[f]]
    /\ batch' = [batch EXCEPT !.upserted = @ \cup {k}, !.missed = MissedAfter(@, Crossed(r))]
    /\ raced' = Changed({k})
    /\ UNCHANGED <<load, waypoints, import, heights, idents, lengths, terrainVars>>

EndBatch ==
    /\ batch.on
    /\ flights' = [f \in DOMAIN flights \ (batch.existing \ batch.upserted) |-> flights[f]]
    /\ raced' = Changed(batch.existing \ batch.upserted)
    /\ batch' = NoBatch
    /\ UNCHANGED <<load, waypoints, import, heights, idents, lengths, terrainVars>>

-----------------------------------------------------------------------------
(* A backfill goes through the rows that its cursor sees, the newest first, *)
(* and holds what it has read until there is a batch of it.                *)

Rows(keys) == [f \in keys |-> flights[f]]

Newest(todo) == {f \in DOMAIN todo : \A g \in DOMAIN todo : g <= f}

Without(todo, f) == Restrict(todo, DOMAIN todo \ {f})

With(pending, f, item) == [g \in DOMAIN pending \cup {f} |-> IF g = f THEN item ELSE pending[g]]

Held(job) == Cardinality(DOMAIN job.pending)

Due(job) == job.pending # Empty /\ (Held(job) = BatchSize \/ job.todo = Empty)

BugNoLastFlush(job) == Held(job) = BatchSize
Flushed(job) == Due(job)

(* backfill-agl. *)

StartHeights ==
    /\ heights.pc # "running" /\ StartsJob
    /\ LET asked == {f \in DOMAIN flights : flights[f].agl = {}}
       IN  heights' = [NoHeights EXCEPT !.pc = "running", !.asked = asked, !.todo = Rows(asked)]
    /\ UNCHANGED <<tableVars, import, batch, idents, lengths, raced, terrainVars>>

(* Hand the next row to the thread pool. *)
ReadForHeights ==
    /\ Held(heights) < BatchSize
    /\ \E f \in Newest(heights.todo) :
          heights' = [heights EXCEPT !.todo = Without(@, f),
                                     !.pending = With(@, f, [raw |-> heights.todo[f].raw, done |-> FALSE, agl |-> {}])]
    /\ UNCHANGED <<load, tableVars, import, batch, idents, lengths, raced, terrainVars>>

(* _compute_agl_row, in a thread; all threads share a tile manager. *)
ComputeHeights(f) ==
    /\ ~heights.pending[f].done
    /\ LET r == heights.pending[f].raw
       IN  heights' = [heights EXCEPT !.pending[f] = [raw |-> r, done |-> TRUE, agl |-> {AglOf[r][Readable(heights.missed)]}],
                                      !.missed = MissedAfter(@, Crossed(r))]
    /\ UNCHANGED <<load, tableVars, import, batch, idents, lengths, raced, terrainVars>>

ComputeFails(f) ==
    /\ ~heights.pending[f].done /\ Fails
    /\ heights' = [heights EXCEPT !.pending[f] = [@ EXCEPT !.done = TRUE], !.failed = @ \cup {f}]
    /\ UNCHANGED <<tableVars, import, batch, idents, lengths, raced, terrainVars>>

(* _flush: what was computed, by key, whatever the row is by now. *)
FlushHeights ==
    /\ Due(heights)
    /\ \A f \in DOMAIN heights.pending : heights.pending[f].done
    /\ flights' = IF Flushed(heights)
                  THEN [f \in DOMAIN flights |->
                          IF f \in DOMAIN heights.pending /\ heights.pending[f].agl # {}
                          THEN [flights[f] EXCEPT !.agl = heights.pending[f].agl] ELSE flights[f]]
                  ELSE flights
    /\ heights' = [heights EXCEPT !.pending = Empty]
    /\ raced' = [raced EXCEPT !.idents = @ \cup DOMAIN heights.pending]
    /\ UNCHANGED <<load, waypoints, import, batch, idents, lengths, terrainVars>>

EndHeights ==
    /\ heights.pc = "running" /\ heights.todo = Empty /\ heights.pending = Empty
    /\ heights' = [heights EXCEPT !.pc = "done"]
    /\ UNCHANGED <<load, tableVars, import, batch, idents, lengths, raced, terrainVars>>

-----------------------------------------------------------------------------
(* backfill-airports: all rows, those that have airports included. *)

StartIdents ==
    /\ idents.pc # "running" /\ StartsJob
    /\ idents' = [NoIdents EXCEPT !.pc = "running", !.index = Index, !.asked = DOMAIN flights,
                                  !.todo = Rows(DOMAIN flights)]
    /\ raced' = [raced EXCEPT !.idents = {}]
    /\ UNCHANGED <<tableVars, import, batch, heights, lengths, terrainVars>>

ReadForIdents ==
    /\ Held(idents) < BatchSize
    /\ \E f \in Newest(idents.todo) :
          LET row == idents.todo[f]
          IN  idents' = [idents EXCEPT !.todo = Without(@, f),
                                       !.pending = With(@, f, AirportsOf(idents.index, row.raw, row.agl))]
    /\ UNCHANGED <<load, tableVars, import, batch, heights, lengths, raced, terrainVars>>

FlushIdents ==
    /\ Due(idents)
    /\ flights' = [f \in DOMAIN flights |->
                      IF f \in DOMAIN idents.pending
                      THEN [flights[f] EXCEPT !.airports = idents.pending[f]] ELSE flights[f]]
    /\ idents' = [idents EXCEPT !.pending = Empty]
    /\ UNCHANGED <<load, waypoints, import, batch, heights, lengths, raced, terrainVars>>

EndIdents ==
    /\ idents.pc = "running" /\ idents.todo = Empty /\ idents.pending = Empty
    /\ idents' = [idents EXCEPT !.pc = "done"]
    /\ UNCHANGED <<load, tableVars, import, batch, heights, lengths, raced, terrainVars>>

-----------------------------------------------------------------------------
(* backfill-path-length: the days between the first and the last that lack *)
(* a length, one statement each, newest first.                             *)

Unmeasured == {f \in DOMAIN flights : flights[f].length = {}}

StartLengths ==
    /\ lengths.pc # "running" /\ StartsJob
    /\ lengths' = IF Unmeasured = {} THEN [NoLengths EXCEPT !.pc = "done"]
                  ELSE [pc |-> "running",
                        day |-> Day[CHOOSE f \in Unmeasured : \A g \in Unmeasured : Day[g] <= Day[f]],
                        first |-> Day[CHOOSE f \in Unmeasured : \A g \in Unmeasured : Day[f] <= Day[g]]]
    /\ UNCHANGED <<tableVars, import, batch, heights, idents, raced, terrainVars>>

MeasureDay ==
    /\ lengths.pc = "running"
    /\ flights' = [f \in DOMAIN flights |->
                      IF f \in Unmeasured /\ Day[f] = lengths.day
                      THEN [flights[f] EXCEPT !.length = {LengthOf[flights[f].raw]}] ELSE flights[f]]
    /\ lengths' = IF lengths.day = lengths.first THEN [lengths EXCEPT !.pc = "done"]
                  ELSE [lengths EXCEPT !.day = @ - 1]
    /\ UNCHANGED <<load, waypoints, import, batch, heights, idents, raced, terrainVars>>

-----------------------------------------------------------------------------
Downloading ==
    \/ \E t \in Tiles : Request(t) \/ NotFound(t) \/ BeginSave(t) \/ EndSave(t)
    \/ EndAttempt

DownloadStep ==
    /\ \/ StartDownload /\ StartsJob
       \/ Downloading /\ UNCHANGED load
       \/ \E t \in Tiles : (RequestFails(t) \/ SaveFails(t)) /\ Fails
       \/ KillDownload /\ Killed
    /\ UNCHANGED <<tableVars, jobVars, raced>>

Kill ==
    /\ Killed
    /\ \/ batch.on /\ batch' = NoBatch /\ UNCHANGED <<import, heights, idents, lengths>>
       \/ heights.pc = "running" /\ heights' = NoHeights /\ UNCHANGED <<import, batch, idents, lengths>>
       \/ idents.pc = "running" /\ idents' = NoIdents /\ UNCHANGED <<import, batch, heights, lengths>>
       \/ lengths.pc = "running" /\ lengths' = NoLengths /\ UNCHANGED <<import, batch, heights, idents>>
       \/ import.todo # {} /\ import' = NoImport /\ UNCHANGED <<batch, heights, idents, lengths>>
    /\ UNCHANGED <<tableVars, raced, terrainVars>>

Next ==
    \/ DownloadStep
    \/ \E p \in DOMAIN Published : StartImport(p)
    \/ \E file \in Files : UpsertWaypoints(file) \/ FileFails(file)
    \/ StartBatch \/ (\E k \in load.keys, r \in load.raws : UpsertFlight(k, r)) \/ EndBatch
    \/ StartHeights \/ ReadForHeights \/ FlushHeights \/ EndHeights
    \/ \E f \in DOMAIN heights.pending : ComputeHeights(f) \/ ComputeFails(f)
    \/ StartIdents \/ ReadForIdents \/ FlushIdents \/ EndIdents
    \/ StartLengths \/ MeasureDay
    \/ Kill

Spec == Init /\ [][Next]_vars

-----------------------------------------------------------------------------
(* Properties. *)

(* What a row says of its path it says of the path that it has: its length *)
(* always, and its heights unless backfill-agl had read the row before a   *)
(* batch replaced it (_UPSERT_FLIGHT_SQL, backfill_agl.py lines 78-82 and  *)
(* backfill_path_length.py lines 34-40).                                   *)
ColumnsOfPath ==
    \A f \in DOMAIN flights :
        /\ flights[f].length \subseteq {LengthOf[flights[f].raw]}
        /\ f \notin raced.heights =>
              flights[f].agl \subseteq {AglOf[flights[f].raw][readable] : readable \in SUBSET OnLand}

(* A backfill of heights that dies loses what it has read and not written, *)
(* at most a batch of rows (backfill_agl.py lines 6-9); all the other rows *)
(* that it has read have heights, but for those whose computation failed.  *)
OneBatchAtRisk ==
    LET kept == heights.asked \ (DOMAIN heights.todo \cup DOMAIN heights.pending)
    IN  /\ Held(heights) <= BatchSize
        /\ \A f \in (kept \ heights.failed) \cap DOMAIN flights : flights[f].agl # {}

(* backfill-airports leaves every row that it has passed with the airports *)
(* that its path and its heights ask for, unless the row has changed since *)
(* (backfill_airports.py lines 64-113).                                    *)
AirportsUpToDate ==
    \A f \in DOMAIN flights \cap idents.asked :
        f \notin DOMAIN idents.todo \cup DOMAIN idents.pending \cup raced.idents =>
            \A end \in 1..2 :
                LET v     == FlattenSeq(PathOf[flights[f].raw])
                    place == IF end = 1 THEN v[1].place ELSE Last(v).place
                    low   == \A series \in flights[f].agl :
                                (IF end = 1 THEN series[1][1] ELSE Last(Last(series))).agl <= AglMatchMax
                    near  == {a \in idents.index.fields \cup (IF Raws[flights[f].raw].rotor THEN idents.index.heliports ELSE {}) :
                                 Away(a, place) <= MatchRadius}
                IN  /\ flights[f].airports[end] \subseteq near
                    /\ flights[f].airports[end] # {} <=> low /\ near # {}

PartsAt(stored, at) == {part \in ToSet(stored) : part[1].at <= at /\ at <= Last(part).at}

(* The correction that a reader of a row finds at the time of a vertex,    *)
(* where the series is defined, is off by less than the threshold; and it  *)
(* is defined all along a flight without gaps (correct.py lines 126-141).  *)
CorrectionFollowsPressure ==
    \A f \in DOMAIN flights :
        LET r == flights[f].raw
        IN  \A v \in ToSet(FlattenSeq(PathOf[r])) :
                LET parts == PartsAt(StoredCorrectionOf[r], v.at)
                IN  /\ Len(PathOf[r]) = 1 => parts # {}
                    /\ \A part \in parts : Abs(CorrectionAt(part, v.at) - v.qnh) < Threshold

(* "The first entry anchors the flight's start and the last anchors its    *)
(* end, so the tfloat's temporal domain spans the full flight" (correct.py *)
(* lines 81-83).                                                           *)
CorrectionSpansFlight ==
    \A f \in DOMAIN flights :
        LET r == flights[f].raw
        IN  \A s \in ToSet(FlattenSeq(Samples[r])) : PartsAt(StoredCorrectionOf[r], s.at) # {}

(* What is left out of a stored series is within the tolerance of the line *)
(* between its neighbours: the altitude of the samples, the place of the   *)
(* samples within twice the tolerance (the altitude pass may keep a sample *)
(* that pulls the line away from one that the spatial pass left out), the  *)
(* heights above ground whatever tiles are read, and the tracks and speeds *)
(* of the vertices if all of them report one; and the squawk that is read  *)
(* at the time of a sample is that of the sample.                          *)
(* (simplify.py lines 138-201, splitter.py lines 141-205, agl.py lines     *)
(* 107-158)                                                                *)
Simplified ==
    [r \in DOMAIN Raws |-> \A q \in DOMAIN PathOf[r] :
        LET s    == Samples[r][q]
            path == PathOf[r][q]
        IN  /\ Within(s, Kept[r][q], OffAlt(s), Everywhere(s, AltitudeTolerance))
            /\ Within(s, Kept[r][q], OffPlace(s), Everywhere(s, 2 * SpatialTolerance))
            /\ AllReport("gs", path, DOMAIN path) =>
                  Within(path, SpeedKept(path), OffSpeed(path), Everywhere(path, SpeedTolerance))
            /\ AllReport("track", path, DOMAIN path) =>
                  Within(path, TrackKept(path), OffTrack(path), Everywhere(path, TrackTolerance))
            /\ \A readable \in SUBSET OnLand :
                  LET h == Heights(path, CorrectionOf[r], readable)
                  IN  Within(h, AglKept(h), OffHeight(h), Tolerances(h))
            /\ \A i \in DOMAIN s :
                  LET runs == {run \in SquawkRuns(path) : run.at <= s[i].at}
                  IN  s[i].squawk = UNION {run.code : run \in {c \in runs : \A d \in runs : d.at <= c.at}}]

(* Every flight in the table is stored within those tolerances. *)
SimplifiedWithinTolerance == \A f \in DOMAIN flights : Simplified[flights[f].raw]
=============================================================================
