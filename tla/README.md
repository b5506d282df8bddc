# TLA+ models of adsb.aero

adsb.aero keeps an archive of flight trajectories: every day it downloads the position reports
that adsb.lol released for a date, cuts them into flights, stores those in PostgreSQL, dumps
settled weekly partitions to a backup spool, and answers queries of a web map. This directory
models its core in TLA+, checks the models with TLC on small instances and proves what matters
most with TLAPS.

All paths below are relative to `src/`; `…/` stands for `server/adsb_server/`.

## 1. The system

### Ingestion

| Component | State | Operations | What is hard | What makes it correct |
|---|---|---|---|---|
| Scheduler (`…/ingestion/scheduler.py`, `ingest.py`, `cli.py`) | `ingest_batches`, the cache directory with archives and `.etag` sidecars; in memory the queue, the prefetch task | scan of GitHub releases page by page, download, batch of a date, reimport of named dates | the next date is downloaded while a batch runs; releases appear between two pages; downloads are cut off; the process dies | each date found is done once, oldest first, on the files of its release |
| Daily batch (`…/ingestion/batch.py`) | `flights`, `flight_staging`, `icao_type_stats`, `ingest_batches` | `run_batch`: load the carry, write flights in chunks, write the carry, delete stale rows, refresh counts, record | no transaction spans the statements; a day is run again after a crash, or by an operator at the same time | after the days were done in turn the tables are those of an undisturbed ingestion |
| Flight splitter (`…/ingestion/splitter.py`) | the current segment of an aircraft | `split_flights`, `finalize_segment`, `interpolate_missing_values`, `build_squawk_runs`, `build_scalar_series` | a flight goes on across midnight, its points come from two batches | a flight keeps its key, is not longer than 24 h, and no batch touches flights that start before the day before yesterday |
| Trace parser (`…/ingestion/parser.py`) | none | chain the files of an archive, parse a trace | an unreadable trace hides an aircraft | |
| Partition backup (`…/ingestion/partition_backup.py`) | spool directory: dumps, manifests, `.backup.lock`, temporary files | find the due partitions, dump, rename, write the manifest | batches go on writing during a dump; two runs at once; a crash between rename and manifest; scripts that ship and verify act on the same spool | a partition that is not due is on file as it stands in the table |
| Retention (`…/ingestion/retention.py`) | `flight_staging` | purge of old carries after a batch | a rerun of a day whose carry is gone starts without it | what such a rerun spoils is gone once the days are run in turn again |
| Simplification (`…/geometry/simplify.py`, `stitch.py`) | none | `simplify_flight`, `simplify_series`, length of a stitched path | two passes with a tolerance each, and series simplified after them | what is left out lies within its tolerance |
| Pressure and terrain (`…/pressure`, `…/terrain/agl.py`, `tiles.py`, `dem_downloader.py`) | cached GRIB files, elevation tiles and their markers | correction series, heights above ground, download of tiles | values that were not reported, gaps, partial downloads | corrections follow the pressure all along a flight; a tile on disk is whole |
| Backfills (`…/ingestion/backfill_airports.py`, `backfill_path_length.py`, `…/terrain/backfill_agl.py`) | columns of `flights` | batched updates by key of the rows a cursor read | batches replace rows between the read and the write; a backfill fails or is killed | a computed column belongs to the path that is in its row |
| Reference data (`…/reference_data`) | airspaces, airports, airframes | full replacement imports | a partial page must not delete what was there | |

### Serving

| Component | State | Operations | What is hard | What makes it correct |
|---|---|---|---|---|
| Query API (`…/api/main.py`, `…/query/models.py`, `…/cache.py`) | cached bounds of the archive, a result cache in Redis | query with keyset cursor, flight detail, airspaces, ranges | pages are read while batches change the table; the cursor is cut to seconds; cached answers outlive changes | following cursors to the end ends, and shows every match once |
| Predicate compiler (`…/query/compiler.py`) | none | predicate tree to SQL | nesting, negation, windows | the SQL says what the predicate says, and a page holds the newest matches |
| Web application (`web/src/App.tsx`, `web/src/lib`) | inputs, modes of the map, results, cursor, loading flags | run, load more, pick airspace or point, draw, share link | overlapping requests whose answers come in any order | a click has one meaning; the panel shows one walk of one run, and says when it is out of date |
| Web components (`web/src/components`) | drawing modes, open panels, search box | editing a predicate tree, drawing shapes, searching waypoints | debounced requests, mode switches half-way through a shape | |

### How they interact

- Ofelia starts `import-traces` every 12 h and does not start it while it still runs
  (`infra/ofelia/config.ini.template`). An operator may start the same import with dates at any
  time; nothing excludes the two from each other. Both call `run_batch`.
- A batch reads the carry (`flight_staging`) of the day before and writes its own. This is the
  only link between two days, and it makes the order of days matter.
- The end of an import calls the partition backup in the same process; the command
  `backup-flights` does so on its own. A file lock keeps them apart. Which partitions are due is
  decided by `ingest_batches.finished_at` against the `dumped_at` of the manifests.
- Host scripts (outside the repository) ship dumps from the spool and verify the volume.
- The backfills, the import of airports and the download of tiles are commands of their own.
  They act on the rows, airports and files that a batch reads and writes at the same time.
- The API reads what the batches write, without any lock, and caches answers; the web
  application pages through them, one call at a time, and aborts a call when it sends the next.
- A predicate is compiled to an inner query, which is cut at a limit, and an outer query with the
  conditions that are expensive; the cursor of a page is that of the last row of the outer one.

Every hazard of this code that we know of, with its line and the properties about it, is listed
under `hazards` in `PROJECT.json`.

## 2. Modules

```
Splitter ---- CarryOver ---- CarryOverProofs
    \              \-------- MCCarryOver
     \
      Ingest -- Timeline (abstract)
         \----- IngestProofs
          \---- MCIngest
Scheduler ------ SchedulerProofs
         \----- MCScheduler
PartitionBackup - PartitionBackupProofs
              \- MCPartitionBackup
Simplification -- Terrain -- StoredFlight -- DerivedColumns -- MCDerivedColumns
                                                          \--- DerivedColumnsProofs

SqlLogic -- SpatialPath -- TrajectoryPredicate -- MCTrajectoryPredicate
      \          |                 \-- PredicateCompilerProofs
       \         \---- LeafPredicates --\
        \- PredicateCompiler ----------- MCPredicateCompiler
                        \------------- PredicateCompilerProofs
QueryPaging --- QueryPagingProofs
          \--- MCQueryPaging
MapPickers ---- AppQuery -- AppQueryProofs
                       \-- MCAppQuery
```

### Splitter: how points become flights

Pure operators, no state. A point is `[ts, air, leg, pos]`: time in ticks, whether there is an
altitude (`alt_baro is not None`), readsb's new-leg flag, and the position on a line.
`ShouldFlightSplit` is `_should_flight_split` guard by guard; `InProgress` is the test against
`_in_progress_window`; `FinalizeSegment` keeps what decides whether a segment gives a flight and
where it begins and ends: the points in the air, those that are not implausibly far
(`_drop_implausible_positions`, whose second test, the rate of climb, is left out with the altitudes),
sub-sequences of two points at least. `SplitFlights` folds the
loop over the points in order of time. What is stored of a flight (simplified path, series,
squawk runs) decides none of this and is in Simplification and StoredFlight. The docstring of
`parser._parse_trace_json` says that points on the ground are skipped; the code keeps them,
without an altitude, and so does the model.

### CarryOver: one aircraft through the days

The loop of `split_flights` is a state machine here (`WalkPoint`, with the variables `seg`,
`prev`, `flightStart`), between `StartBatch` (carry of the day before merged with the day's
points) and `EndBatch` (provisional flight, carry, upsert by key, deletion of stale rows). Any
day may be run at any time, again, with another trace: `reimport_specific_dates` allows all of
it. `StartUnreadable` is the trace file that does not parse. A run is atomic towards other runs
in this module; whether the row in `flight_staging` is replaced when this aircraft carries
nothing depends on other aircraft, and is open.

### Ingest: the statements of a batch

`run_batch` for several aircraft, one action per database statement (`LoadStaging`,
`ReadExisting`, `Flush`, `WriteStaging`, `DeleteStale`, `UpsertStats`, `Succeed`,
`PurgeExpiredStaging` of retention.py), for the
scheduled import and an operator's, interleaved at will, with failures (`Fail`, `FetchFails`)
and deaths (`Crash`) between any two. What flights a day gives is computed by Splitter's
operators. The history variables `sound` and `good` say which days were last written by a run
that built on a good day and that no run of an earlier day disturbed, nor one on a wrong carry that
wrote the same day or took one of its flights over (`Overrides`); `lost`, `wrong` and
`miscounted` which carries are not those of the last run of the day (deleted by retention, or left
there by an earlier run when the last one found nothing in progress, see below), which days a run on
a wrong carry wrote last, and which days were counted while one of the two days after them was such a
day (its carry reaches back two days, and a flight it cut may start on the first). They are read by
properties only.

How much a purge deletes depends on today's date and on the window that is set in partman, and a
failed purge is passed over: `PurgeExpiredStaging` deletes the carries of any number of days from
the first on, up to `MaxExpired`, or none. That partman drops the partitions of flights on the same
window is not modelled: the flights here are those that are still kept.

The carries that a day can begin with are finitely many (`CarriesInto`); `Split` holds what each
gives, and is evaluated once.

`Timeline` is the abstract specification: a reader sees each aircraft's flights step from the
state after one day to that after a later one. Ingest implements it (`ReadersSeeTimeline`, with
the refinement mapping `visible <- [ac |-> its rows in flights]`), as long as only the scheduled
import runs and the days succeed in order.

### Scheduler: which dates, in which order, on which files

The listing of releases per year and page while GitHub publishes more, `to_process`, the queue,
the prefetch of the next date's files next to the batch of this one, each download as its steps
(`KeepFile`, or `RemoveFile`, `OpenFile`, `FinishFile`, `WriteEtag`), `status` per date, and death at
any step. Another import may run beside it, in the same cache directory (`OtherStep`): it takes
`MaxBeside` dates, in any order, fetches their files by the same operators, runs batches, removes
directories, fails and dies. A file that is removed while it is written is lost to its writer
(`Lost`), and what two write at once is of no release. The history variable `overlapped` holds the
dates that both have fetched or run at one time.
GitHub is external: it lists the releases of a year newest first (as the comments of
scheduler.py assume), may release a date again, and answers may fail. Files of two releases of a
date have the same names, as in the tests.

### PartitionBackup: dumps next to batches

`exclusive_run`, `partitions_due`, `dump_partition` for two runners (the end of an import and the
command line) next to batches that write the table. What a partition holds is one version
number. That a batch of day D writes days D-2 .. D only is not assumed on trust: it is theorem
`OldRowsUntouchedHolds`. A batch may fail after it has written, and a date may lose its row when its
release cannot be downloaded again (`FetchFails`); the history variable `forgotten` holds the dates
that did, for `OnRecord`, the premise of `PassedOverIsBackedUp`. Shipper and verifier act as the module docstring of
partition_backup.py describes them.

### QueryPaging: pages of a table that changes

`POST /query` as the awaits of its handler (`AskPage` or `AskPageAndBounds` and `ReadBounds`,
`CacheHit` or `CacheMiss`, `FetchPage`, `StorePage`), for clients that repeat a request with the
cursor they got until it is null, while batches insert and delete rows and other clients fill
the cache. A row is its start (finer than a second), its aircraft, and whether the outer part of
the predicate takes it. `PageOf` is the SQL and what follows it: window, keyset condition, limit,
the cursor of the last row or the sentinel at the floor of the window, cut to seconds by
`Truncate` as `strftime` does. Failing calls (`CacheFails`, `FetchTimesOut`) are budgeted. A
request is taken to be short against the lifetimes of the caches.

### Simplification, Terrain, StoredFlight: the columns of a row

Pure operators from the samples of a flight to its row. `TdTr` is the recursion of `_td_tr` and
`_td_tr_1d` as a recursive function of two ends; `SimplifyFlight` is the spatial pass and the
altitude pass that refines it; `SpeedKept` and `TrackKept` are `simplify_series`, `AglKept` is
`_simplify_agl` with its tolerance that grows with the height; `Filled` is
`interpolate_missing_values` and `SquawkRuns` is `build_squawk_runs`. A flight goes along a line,
so that a deviation is a difference, and deviations are multiplied by the duration of the span to
stay whole numbers.

Terrain has the tile files as `dem_downloader.py` writes them, with its attempts, workers and
failures (`Request`, `NotFound`, `RequestFails`, `BeginSave`, `EndSave`, `EndAttempt`,
`KillDownload`), the tiles as `tiles.py` reads them, and `Densify` and `Heights` of `agl.py`.
StoredFlight puts the columns together as `_process_and_correct` and `_flight_to_params` do: path,
correction series with its threshold, heights, length, airports of the two ends.

### DerivedColumns: who writes them

The batch of a day, `backfill-agl`, `backfill-airports`, `backfill-path-length`, the import of
airports and the download of tiles as processes that may start at any time and be killed between
any two steps. A backfill reads through a cursor, which sees the table as it was when it was
opened (`todo`, a function from the keys that are still to be read to the rows as they were), and
writes by key, a batch of rows (`pending`) in one transaction; the history variable `raced` is
the rows that a batch replaced in between. A row from before a column was added has no value in
it.

### SqlLogic, SpatialPath, TrajectoryPredicate, LeafPredicates: leaves in SQL

SqlLogic is the logic of three values. SpatialPath is `_compile_spatial_path`: which conditions a
trajectory predicate gives the inner and the outer query (`Inner`, `Outer`), and what each is on a
row: cells, boxes, the stored columns of altitude, time, length and heights, the path clipped by
time, altitude, shape and height, its duration and its length. A row is its place, altitude,
correction, heights and squawk codes at a few instants, with gaps, and the cells of its path.

`IsStored` says what a row can be. A correction begins at the first point and ends at the last; it
varies, and once a gap is passed it may be undefined at some points (`batch.py:324`, see
MCDerivedColumns_hole). Heights are those of whole pieces of the path, as a piece whose terrain
cannot be sampled has none (`agl.py:195-198`). The cells lie in two rows, as a strip of a hexagonal
grid does: of three in a row the outer two touch, so that `path_h3_cells`, which joins the cells of
points half an edge apart, may leave out the middle one where it is clipped at a corner (`Covers`).
The fallback for cells of different faces of the grid (`h3_cells.py:63-64`) leaves out no more than
that, as two such points lie in the same or in adjacent cells. A polygon's cells leave out corners
in the same way and get a ring (`Around`); a circle's are those it reaches into, exactly. A cell of
the strip has one corner that a path along it may clip; that a flight and a boundary which clip a
cell at different corners do not meet inside it follows from the step of half an edge
(`h3_cells.py:18-21`), and is not modelled. Taken as one are the geodesic along which a long segment
is cut and the straight line that PostGIS tests.

TrajectoryPredicate compiles
one block for one row, and states what the docs of the query language promise. LeafPredicates is
the rest of the leaves: `endpoint_within` with its four modes, identifiers with their
normalisation, types, categories and duration, and the validation that refuses a leaf.

### PredicateCompiler: nesting, and the query

The recursion of `compile_predicate` over AND, OR and NOT as a stack of fragments. What a
fragment defers to the outer query is put back into its condition (`Flattened`) when a
disjunction or a negation is around it; CTEs are named after the number of bind parameters so far
(`CteName`); and `Run` is the SQL of `query_flights`: the newest `InnerLimit` rows of the inner
condition, and of these the newest `Limit` (and one to see whether there are more) that meet the
outer conditions. A fragment carries as history the value and the rows of its predicate.

### MapPickers, AppQuery: the web application

MapPickers is the filters and the modes in which a click on the map gives one its area: point,
polygon, airspace, and the menu of the airspaces that were found. A lookup is sent while the
user goes on, and its answer acts on what is there when it comes. AppQuery adds `doQuery`: a
run from the button, the chip or a shared link, and "load earlier results" with the cursor of the
last page. A new call aborts the one before, whose promise settles at some later moment
(`AbortSettles`); a call may be answered, fail, or come back as an HTTP error whose body is read
later (`Refuses`, `RefusalRead`). `Page` stands for the server, as QueryPaging has it, for a table
that does not change. `asked`, the request of the last run, is history.

### MC modules

They give the constants their values for TLC and define nothing else. Definitions whose names
begin with `Bug` are faulty variants of the definition that follows them; no run uses them, they
record which mistake each property notices (`mutants` in `PROJECT.json`).

## 3. Runs

| Run | Instance | Shows |
|---|---|---|
| carry | 4 days of 4 ticks in any order, 4 runs; 10 patterns of coverage: in the air throughout, gaps, landings, taxiing, new legs, garbage positions | `SettleWindow`, `OldRowsUntouched`, `FlightsCapped`, `CarriedFlightExtended`, `RunFlightsDisjoint`, `WalkComputesSplit` (the loop computes the fold), and `IInv`, the invariant of the proofs |
| scheduled | 3 days of 6 ticks, 2 aircraft, the scheduled import alone, 3 deaths | `ReadersSeeTimeline`, `EventuallyComplete` |
| operator | 3 days, 2 aircraft, both imports, 5 batches, a failure or a death, carries of day 1 that expire; a run of day 3 on a wrong carry can take a flight of day 2 over | `GoodDaysComplete`, `GoodCarry`, `GoodCounts` |
| crashes | 5 dates of one year in pages of two, one death | `OldestFirst`, `AllCandidatesFound`, `EventuallyIngested` |
| files | 1 date, released again with a file less and with none; 2 failures, 2 deaths, 2 imports by an operator, another import beside them, lookback | `BatchReadsWholeRelease` |
| spool | 2 partitions, 2 batches, 2 backup commands, one failure (of a batch, a download, a backup run or the volume) | `DumpsComplete`, `PassedOverIsBackedUp` |
| paging | 2 clients, 2 walks in pages of one row over windows of a second and a half, 5 rows of which one is rejected, 4 initial tables, one row inserted or deleted or one call that fails, caches that expire | `PagesDescend`, `WalkCovers`, `DefaultReachesNewest`, `WalkTerminates`, and `PagingInv`, the invariant of the proofs |
| derived | 2 flights and any 3 jobs that overlap, or 2 with a failure and a kill; 3 flights and 2 jobs, in batches of two rows; 733 raw flights by themselves | `ColumnsOfPath`, `OneBatchAtRisk`, `AirportsUpToDate`, `TilesComplete`, `CorrectionFollowsPressure`, `SimplifiedWithinTolerance` |
| blocks | every block of up to 3 constraints (6 shapes, altitudes by two references, heights, times, squawks, dwell, distance; both kinds) on sample flights of up to 4 instants, with gaps, with a cell left out, without a correction or heights, or with such as vary and have holes | `ProbesLoseNoRow`, `OneInstantForAll`, `WithinThroughout`, `MeasuresThePart` |
| plan | requests of up to 5 predicates from 12 leaves, over 4 flights; a limit of 1, an inner limit of 3 | `NestingKeepsValue`, `CteNamesUnique`, `PageOfNewest` |
| app | 2 filters, 2 edits, 3 calls, 1 lookup of airspaces, 2 moves of the map, a change of dates; 3 flights, windows of one day, pages of one flight | `OneMode`, `OneWalk`, `NoChipMeansCurrent`, `OfferedUntilFirstWindow` |

In the words of the system:

- `ColumnsOfPath`: the length and the heights in a row are those of the path in the row, but for
  heights that `backfill-agl` writes over a row that a batch replaced after it was read: the code
  has no guard against that. `OneBatchAtRisk`: a backfill that fails or is killed loses at most
  one batch of rows. `AirportsUpToDate`: `backfill-airports` leaves each row with the airports that
  its path and heights ask for, unless the row changed since. `TilesComplete`: a tile is never
  taken for absent that exists, nor for whole, unless the process was killed while writing it.
  `CorrectionFollowsPressure` and `SimplifiedWithinTolerance` are about what is stored of each raw
  flight.
- `BatchReadsWholeRelease`: a batch finds the files of its release, whole, whatever earlier
  attempts, deaths and other imports left in the directory. Excepted is a date that two imports have
  worked on at once: see MCScheduler_overlap below.
- `ProbesLoseNoRow`: conditions that are there for an index (cells, boxes, stored columns,
  duration) hold wherever the precise ones do, but for a circle that a flight enters only at
  corners of cells that `path_h3` does not have. `OneInstantForAll`: an intersection has one instant
  at which place, altitude, height, squawk and time all hold, though they are tested in six
  conditions of two queries; and where there is one the flight matches, with the same exception.
  `WithinThroughout`: a flight that is within a band at every instant matches, and one that matches
  is in it wherever its correction and heights are known.
  `MeasuresThePart`: dwell and distance are those of the part that satisfies the rest; where they
  are read from the stored duration and length, for flights whose correction or heights, if they are
  bounded, have no hole and do not change over a gap.
- `NestingKeepsValue`: every fragment, with what it put off to the outer query, is true, false or
  NULL on a row as its predicate is. `CteNamesUnique`: no two predicates name their CTE alike.
  `PageOfNewest`: the page is the newest matches, as long as the inner limit cuts no candidate.
- `OneMode`: a click on the map serves one filter in one mode. `OneWalk`: the pages in the panel
  are those of the last run and follow each other, whichever calls were aborted, refused, lost
  or late. `NoChipMeansCurrent`: where nothing offers to run again, the results are of the
  filters and of the part of the map that are seen. `OfferedUntilFirstWindow`: the button for
  earlier results is there until every flight that the query asks for is shown, or lies in a
  window that reaches the first day of the archive.

### Sentences of the repository that do not hold

The run `rerun` refutes docs/design-spec.md:161 (re-running a batch produces the same rows): day
D+1 extended a carried flight; a rerun of D alone writes the shorter one back, under the same key.
Further configurations, which TLC refutes as well, are kept beside the runs; each trace was
followed in the code. They are called with `tlc -config X.cfg M`; MCAppQuery_refuted,
MCPartitionBackup_failed and MCTrajectoryPredicate_refuted with `-continue`, as they have several
properties.

| Configuration | What the repository says | What happens |
|---|---|---|
| MCScheduler_newyear | scheduler.py:334, ingests all discovered batches oldest-first | years are processed one after the other, the current one first |
| MCScheduler_reissue | scheduler.py:338, all dates after the boundary are candidates | a date that is released again is listed first, lies below the boundary, and ends the scan |
| MCScheduler_overlap | scheduler.py:124-127, a file that is there and current is kept, any other is downloaded anew; nothing says that another import may be reading it | with two imports on one date, one removes a file before it downloads it (`scheduler.py:140-143`), or the directory once it is done (`:254-255`), and the batch of the other reads what is left (`BatchAlwaysReadsWholeRelease`) |
| MCTrajectoryPredicate_refuted | h3_cells.py:32-33, the cells of a path include "cells only briefly clipped at a corner" | `grid_path_cells` of two adjacent cells is these two; a circle has no ring of cells around it (`:109-124`), so that a flight inside of a circle at such a corner is not found (`CornersFound`) |
| MCTrajectoryPredicate_refuted | compiler.py:399-400, always semantics: the entire path must have altitude within bounds | `alt_min_qnh_ft` and `alt_max_qnh_ft` pass over the instants at which the correction has a hole (`0001_initial_schema.py:66-79`; `WithinAtEveryInstant`) |
| MCTrajectoryPredicate_refuted | compiler.py:495-496, altitude and AGL bounds hold over the whole path for every flight that matches, so the stored duration and length stand for it | the same holes are counted; and a bridged gap is at the altitude of its ends with the correction before it, which may be off the band (`StoredMeasureStands`) |
| MCIngest_nothing | design-spec.md:156, the blob of a batch date replaces any prior row | when a rerun finds nothing in progress no statement is sent (`batch.py:574`), and the carry of an earlier run stays: the day after goes on from it (`CarryReplaced`) |
| MCQueryPaging_seconds | query/models.py:296-303, the cursor covers what is left, and null means that nothing is | the cursor keeps whole seconds (`models.py:384`): rows between the second and the place of the cut are on no page |
| MCPartitionBackup_failed | partition_backup.py:249-252, due when dumped before the last ingest that could have changed it | an import that writes rows and then fails leaves no `finished_at` that counts (`StaleDumpIsDue`) |
| MCPartitionBackup_failed | the same | a later download of the date that fails deletes its row, and with it the time of an import that had succeeded (`scheduler.py:305`; `StaleDumpIsDueAfterSuccess`) |
| MCDerivedColumns_hole | pressure/correct.py:82-83, the correction series spans the full flight | an entry is left out where the correction has not moved, but `batch.py:324` deals the entries out by the numbers of vertices of the sub-sequences: those of a later one end up in an earlier one, and the correction is undefined for the rest |
| MCPredicateCompiler_documented | query/models.py:811, "This predicate must not match" | NOT over a prefix of a missing callsign is NULL: the row is on neither side (`MatchesAsDocumented`) |
| MCAppQuery_refuted | llms.txt:305, "Repeat the identical request" | load more sends the inputs of now with the cursor of the query that is shown (`App.tsx:603`; `MoreOfTheSameQuery`) |
| MCAppQuery_refuted | a call under way is shown as such, and an error is that of the newest call | the `finally` of an aborted call clears `loading` (`App.tsx:576`; `LoadingWhileUnderWay`); a refusal whose body is read after the abort shows its error (`api.ts:21-31`; `ErrorOfLastCall`) |
| MCAppQuery_refuted | design-spec.md:337, the panel pages through large results | when the last window was cut at the limit, the button goes although the cursor is not null (`App.tsx:650`; `AllReachable`) |
| MCAppQuery_refuted | the menu lists the airspaces at the click | an earlier lookup is not aborted and fills the menu of a later click (`App.tsx:468`; `MenuOfItsPlace`) |

Three definitions state more that does not hold, without a configuration of their own:
`AppliedSimultaneously` (models.py:663-664: altitude and time without a shape are tested one by
one), `OnlyThePortion` (models.py:675-676: altitude and time do not narrow what must lie within),
and `PageAlwaysOfNewest`, which leaves out the premise of `PageOfNewest`.

### Further differences

Of ingestion: docs/design-spec.md:153 gives the
in-progress window as 10 minutes, the code has one hour for an aircraft in the air; with either, a
gap in the air that the splitter would bridge within a day (up to 12 h) cuts a flight when it
spans midnight. And docs/design-spec.md:120 says that missed days are picked up by the next
poll: a date that failed while a later one succeeded lies below the scan boundary
(`scheduler.py:350`) until an operator names it. A rerun of a day
whose carry retention has deleted (`retention.py:56`) splits without it: flights that the day had
continued are written anew from midnight on, and those of the evening before that belong to its
batch are deleted. Running both days again repairs the flights and the carry (`GoodDaysComplete`,
`GoodCarry`), but the counts of the day before are only right if it was not counted meanwhile: no
batch counts the flights of another day (`batch.py:610`), and `GoodCounts` leaves these days out.
Repair has an order: a run on a wrong carry may write a flight of an earlier day under the key that
it has there, and the row is of its own day from then on (`ingest_batch_date`, `batch.py:104`). When
that day is run again on the right carry, the row is not among what it writes and goes as stale
(`batch.py:592`), and the flight is missing although both days were run well; the earlier day must be
run again, and those after it. With `TakenFrom` empty in `Overrides`, TLC finds this in the instance
of the run `operator`, in three days and five batches and without a fault; two days never meet it.

Of stored columns: heights, speeds and tracks are simplified by their distance from straight lines
but stored as steps (`agl.py:140`). A value that was not reported at an end makes every deviation
zero, so that the series between is dropped (docs/design-spec.md:83). docs/design-spec.md:56, :175
and docs/dev-setup.md:115 say that heights are NULL without tiles; the code stores heights above the sea
(`tiles.py:82-83`, `:95-110`), and `backfill-agl` never repairs them. `dem_downloader.py:12` calls
itself safe to interrupt; a tile that was being written is skipped for ever after. The altitude
pass may pull the line away from what the spatial pass left out, up to twice the tolerance that
docs/design-spec.md:81 gives. `backfill_airports.py:3-4` says that it streams flights without airports;
its SQL has no such condition.

Of the web application: the answer to `getDataRange` overwrites dates that the user set meanwhile
(`App.tsx:352`); a change of dates shows no chip; an error hides results that were loaded
(`ResultsPanel.tsx:541`), and with them the button that `OfferedUntilFirstWindow` is about, which
stands for `hasMore` (`ResultsPanel.tsx:534`); the points of an unfinished polygon are carried over
when another filter is armed for drawing.

### Bounds and why they are enough

- *Ticks.* The thresholds of the splitter keep their order (60 s < 10 min < 1 h < 12 h < 24 h)
  where ticks allow it: with days of 4, `GroundGap` and `SubSeqGap` coincide. The proofs do
  not depend on the values.
- *Days.* A carry reaches from day d-1 to day d, and a flight is shorter than a day, so a
  batch meets points of three days at most, and three days show two successive carries;
  `SettleWindow` needs a fourth, or no flight could start early enough to break it.
- *Runs.* With three days, five batches in any order, two of them at a time, hold two that fail, are
  disturbed or work on a wrong carry, and then each day in turn: day 2 without a carry, because it
  came first or the purge after day 1 deleted it, day 3 on what that left, and the repair. Longer
  histories are left to the theorem (§4).
- *Aircraft.* Two that cross midnight and are cut by the 24-hour cap, one early enough to be
  carried on, one so late that nothing is in progress; for `operator` one whose flights depend on
  where it stood the day before, and one that only flies into day 2.
- *Processes.* The scheduled import is not started twice; one operator is added to it. The import
  beside the one that Scheduler follows takes one date: what it leaves in a directory, finished or
  not, it can leave after one, and the proof is for any number.
- *Failures and deaths* are budgeted (`MaxErrors`, `MaxCrashes`, `MaxFaults` for both,
  `MaxFailures`). Three deaths
  allow to die in the run that repairs a death. Without a budget nothing need ever succeed.
- *Pages of two* with five releases give full, partial and empty pages, and let releases move
  across page boundaries between two requests.
- *Partitions.* Two of one day each with a settle time of three days: one settled, one that
  becomes settled during the run, batches that touch both.
- *Paging.* Two rows of one moment and two of one second, a window that does not begin on a
  second and a limit of one give each kind of cursor; two clients, each other's cached pages. The
  inner limit is above the number of rows: the comment at `query/compiler.py:108` says that it
  never cuts a real result, and the model takes it so.
- *Blocks.* Four instants have room for a gap, a hole behind it, and for a clipped part of one, of
  two and of three instants; the places, for a shape inside a cell, across several and without any,
  and for a path through three cells of which the middle one is not stored.
  Three constraints are a shape, a band and a measure.
- *Requests* of five nodes hold two trajectory predicates under an operator under another. The
  inner limit of 3 cuts a candidate where all four flights meet the inner condition; `PageOfNewest`
  is about the others.
- *Raw flights.* Walks of five samples at three altitudes over three routes, and four flights
  with gaps, drifting pressure, and codes, speeds and tracks that come and go.
- *Jobs.* Three that overlap are a backfill, the batch that replaces its rows, and the job that
  changes what it reads. With a failure and a kill there are two.
- *The panel.* Three calls are a run, a page of it, and one that aborts; days with and without
  flights give full, cut and empty windows.

`CHECK_DEADLOCK FALSE` stands where the budgets let the system stop. Scheduler never stops (a
scan may always be started), and its passing runs check deadlock.

### Fairness

- Ingest `FairSpec`: weak fairness of `Poll` and `BeginScheduled` (Ofelia starts the import every
  12 h) and `[]<>(pc[p] = "idle")`: a run ends, by success, failure or death. The latter is what
  weak fairness of the statements would give, since each is enabled until taken and a run has
  finitely many. Nothing is assumed of an operator.
- Scheduler `FairSpec`: weak fairness of the import's own steps, which are a straight program;
  none for GitHub's publishing, failures, deaths or reimports.
- QueryPaging `FairSpec`: weak fairness of a request's steps and of a client that has begun to
  page; none for new walks, batches or failures.
- The other modules state no liveness. A backfill, a download or a click happens when somebody
  starts it, and a call may never be answered.
- `EventuallyComplete` and `EventuallyIngested` are checked without failing batches and requests:
  with them they do not hold, see above.

## 4. Proofs

`CarryOverProofs` proves, for every set of traces and days, every order and number of runs, and
all thresholds that satisfy `SplitterConstants` (naturals; the cap, the ground gap and the
in-progress window are at most a day, as 24 h, 600 s and 1 h are):

| Theorem | Says |
|---|---|
| `Invariance` | `IInv` always holds |
| `TypeCorrect` | `TypeOK` |
| `SettleWindowHolds` | batch d writes no flight that starts before day d-2, the claim behind `SETTLE_DAYS` (`partition_backup.py:78-83`) |
| `OldRowsUntouchedHolds` | no step of it inserts, changes or deletes such a flight |
| `FlightsCappedHolds` | no flight is longer than the cap, however many midnights it was carried across |
| `RunFlightsDisjointHolds` | flights written by one run do not overlap |
| `CarriedFlightExtendedHolds` | the flight of the points handed over midnight is written again under its key, at least as long, whatever the day's points are |
| `WalkComputesSplitHolds` | the loop over the merged points writes what `SplitFlights` of all of them gives, and carries their last segment |

The argument. `SettleWindow` is not inductive: it says nothing of the points that a later batch
will make flights of. `IInv` adds

- `StagedRecent`: what day d carries was reported on day d or d-1. The last point of a carried
  segment is within a window of the cutoff, so on day d, and the segment is shorter than a day;
- `PointsRecent`: hence the merged points of a batch start on day d-2 at the earliest;
- `SegmentCurrent`: the walk's segment runs from `flightStart` to `prev`, within the cap, after
  all flights already written and before all points to come;
- `UpsertsBounded`: the flights written so far start after the end of day d-3;
- `CarryTogether`: what is carried is one segment (`Unsplit`), so the next walk does not split it
  either: the points taken over are in the current segment until the flight of that segment is
  written (`Taken`, `TakenExtended`);
- `WalkedSoFar`: the current segment and the flights written are those of Splitter's fold over the
  points that are behind the loop.

The loop keeps the first four because the points come in order of time and a segment is cut before
it exceeds the cap. For `CarriedFlightExtended` one also needs that points added at the end of a
segment keep its flight: they come after those the plausibility filter has kept, whose last
sub-sequence is extended or followed by another, so the flight starts where it did and ends no earlier
(`FlightExtends`). For `WalkComputesSplit` the fold is unrolled: `Walked` of the points up to the
next one is `AddPoint` of `Walked` of those before it (`WalkedNext`, and `KeptNext` for the
plausibility filter). That the recursive function of the fold exists is shown by induction over the
length of its input (`SetInduction`: a set of naturals that holds 0 and with a number the next holds
all of them, from the library's theorem that `<` is well-founded).

Two points at the same time are left out of `WalkComputesSplit`, since the sort that orders them
keeps the order of the file and the fold picks any.

The module ends with lemmas about the split of any points at different times, on which the counts of
Ingest rest. `IsWalk` says what `Walked` has built of the points up to some time; it holds of every
prefix (`PointInduction`, `WalkIsWalk`). Hence the segments of a split are apart in time
(`SegmentsApart`), each flight starts at a point of its segment, at a time of its own
(`SplitStarts`), and what is carried over a midnight is of the two days before (`CarryBounds`). What
was carried stays whole in the next split (`CarryStaysWhole`), so that of the flights of that split
at most one starts before the midnight, and one that starts more than a day before it is the flight
that the day before wrote (`CarriedOnce`).

`IngestProofs` proves, for any number of days and aircraft, any traces and all thresholds
(`IngestConstants`, `SplitterConstants`):

| Theorem | Says |
|---|---|
| `CarriesAreInOrder` | `GoodCarry`, through any runs of either import, failures, deaths and purges |
| `RepairsReachTheTruth` | `GoodDaysComplete`, through the same |
| `AloneShowsTimeline` | `ReadersSeeTimeline`: Ingest implements `Timeline` if `Procs = {"cron"}`, `MaxErrors = 0` and `MaxExpired = 0` |
| `CountsAreTrue` | `GoodCounts`, through any runs of either import, failures, deaths and purges, if no trace has two reports at one time |
| `TypeCorrect` | `TypeOK`, under the same hypothesis; no run lists it |

The argument. `InOrderCarry` and `Snapshots` are recursive functions of the day; that they satisfy
their equations is shown by induction over the days (`SetInduction`, from the library's theorem
that `<` on the naturals is well-founded). `CarryInv` says that a run counted as sound works on the
carry of an undisturbed ingestion; hence it stages the next one (`FindsInOrder`), and whatever else
writes or deletes a carry takes the day, or the run, off the books.

`GoodDaysComplete` speaks of the moment at which all days are good, and needs what holds of each day
that is good before. `TableInv` says of a good day that the rows of its date are flights of an
undisturbed ingestion (`OnlyTrue`); that its flights are there, but for those whose key a later day
has too (`Extended`: that day may have taken them over, and may have been spoilt since); and that no
row with one of its keys is of an earlier date (`Written`). A sound run has this for the aircraft it
has written, and until it deletes, each wrong row of its day is among the keys that it read
(`Seen`). What another process writes meanwhile either leaves the day as it was known (`FlushSpares`)
or overrides it; for that the carry of a run that is not sound must be one that some run of the day
before leaves (`ExpectedInv`), so that its rows are of its own date. When all days are good the rows
are those of each day that no later one extends, which is what the recursion of `InOrderFlights`
gives (`SnapshotsAre`). The proof does not need the processes to be idle.

For the refinement `CronInv`
says that for some day n the tables are those after n days, with what the batch of n + 1 has
written so far: the batch writes an aircraft's rows in one statement, so that each aircraft is at n
or at n + 1, and those that are done are at n + 1. A process that died left a day "running", which
the next import takes up first, on the same carry. The three hypotheses are needed: a rerun of a
day takes readers back (run `rerun`), after a failed or missing day the queue goes on with
the next, and a day whose carry is purged before it is read splits without it.

`GoodCounts` relates the counts of a day to where flights start, so it needs the lemmas about splits.
They are taken from `CarryOverProofs` through an instance of it (`Lone`), in which nothing happens
and only the thresholds matter; that both modules split alike is shown by expanding the definitions
(`SameSplit`, `SameCarry`). They need `OneReportPerTime`: no two points of a trace have the same
time. Splitter is stated for such points (its sort keeps the order of the file otherwise, which a set
does not have), so this is the domain of the model and not a claim about the files; both instances
of the runs satisfy it. From them, every row of a day starts on the day or on one of the two
before it (`FlightsWithin`), and of the true flights of a day at most one starts on an earlier day
(`TrueOnce`). The invariant, `RowsKnown`, says of the table at any moment that

- there is one row per key, and it starts where a row of its day can (`RowsInv`);
- the rows of a day that was not last written on a wrong carry are true (`RightOrWrong`);
- the key of a flight of a known day, one that is good or that a sound run has written for this
  aircraft, is in the table, unless a run on a wrong carry of a later day could reach it (`KeysKept`);
- of the day before a sound run the flights that this run does not write are there as that day wrote
  them (`BuiltOn`).

So when a day is counted and neither of the next two is wrong, the rows that start on it are the true
ones of the day and perhaps the one flight that the next day adds (`RowsOfDay`), and as many
(`SameNumber`, `CountsTrue`). `CountsOk` carries this from the step that counts to the one that
records the day, and on. Only then does another day's batch matter: it does not count the day again,
and `miscounted` holds the days that were counted beside a wrong one.

`SchedulerProofs` proves, for any number of dates, releases, files and pages, any lookback and all
budgets (`SchedulerConstants`):

| Theorem | Says |
|---|---|
| `TypeCorrect` | `TypeOK` |
| `WholeReleases` | `BatchReadsWholeRelease`, wherever downloads fail and processes die, and whatever another import does, except on dates that both have worked on at once |
| `OldestFirstInYear` | in every import the batches of one year are begun oldest first |
| `ReimportsOldestFirst` | `OldestFirst` for the dates an operator names |
| `OldestFirstWithinAYear` | `OldestFirst` for scans, if all dates are of one year |
| `CandidatesFound` | `AllCandidatesFound`, if nothing is released again |

The argument. `FilesInv`, for each date that the two imports have not worked on at once: a file
beside which a tag is stored is whole and of that release, since the tag is written when the file is
complete and deleted before it is downloaded anew; each fetch has passed only files of its release,
and a batch works on what the fetch has passed while the next fetch is of another date (`QueueInv`).
`BesideInv`: what the other import fetches and runs is of two dates, and if this one has one of them
too the date is in `overlapped`; so that it changes no directory that matters here. `OrderInv`: the
dates begun lie below all that are queued or fetched of their year, and none is of a year still to
be listed. `ListInv`: without releases anew the list of a year is sorted, so that a release that
appears pushes others to later pages and never to earlier ones; what a scan has not taken lies on
the pages that it has not read. The two hypotheses are needed: `MCScheduler_newyear` and
`MCScheduler_reissue` refute the properties without them.

`DerivedColumnsProofs` proves, for any flights, tiles, airports and batch size, and however the jobs
overlap, fail and are killed (`DerivedConstants`, `TerrainConstants`, `SimplificationConstants`, and
`StoredFlightConstants`: the samples of a sub-sequence are at least two and in order of time, and
the sub-sequences of a flight follow each other; all tolerances are positive):

| Theorem | Says |
|---|---|
| `DownloadsComplete` | `TilesComplete` |
| `ColumnsMatchPaths` | `ColumnsOfPath` |
| `OneBatchIsLost` | `OneBatchAtRisk` |
| `AirportsAreUpToDate` | `AirportsUpToDate` |
| `RowsSimplified` | `SimplifiedWithinTolerance`, for any number of samples |
| `CorrectionsTrackPressure` | `CorrectionFollowsPressure`, for any path and threshold |

The argument. `TileInv` gives each part of the downloader the tiles as they are on disk: absent while
they wait or are fetched, partial while they are saved, and absent at the end only if they failed.
`HeightsInv` says of each row that what `backfill-agl` still holds of it (to be computed, or computed
and not yet written) is of the path in the row, unless the row is in `raced`; that heights are of
their path for some of the tiles; and that a row asked for is held, has failed or has heights.
`IdentsInv` says the same of the airports, of the index that the command built when it began:
`EndMatched` shows that its choice of an airport lies within the radius whenever one does
(`NearestExists`, a minimum over the airports). Both rest on `Shapes`, the types of what is held, and
on `PathsHaveEnds`: a stored path has a first and a last vertex.

The last two theorems are about the operators that make a row, so `Shapes` is all they need of the
steps. `TdTr` is a recursive function of spans; that it exists, and reduces each span to what is kept of
its halves, is shown by induction over the length of a span (`ReductionExists`, `TdTrReduces`). It is
shown in the same way that each index left out lies in a span of neighbours that is within the
tolerance (`TdTrCovers`): where the recursion stops the span fits, and elsewhere an index that is left
out is on one side of the furthest, which is kept. `RefinedWithin` puts the spans between anchors
together. The second pass of `simplify_flight` keeps more places than the first; `WithinTwice` shows
that a place left out is then off by at most twice the tolerance, since the ends of the finer span
are within one tolerance of the coarser line. Codes are kept because each index at which the code
changes is an anchor (`CodesKept`), and `RunsRead` shows that the runs that are stored read the same.

For the correction, `Follows` is the invariant of the fold of `compute_correction_series`: up to
the vertex it has come to, the entry in effect is off by less than the threshold (`CorrectionsFollow`).
A part of the series that is stored with a sub-sequence reads as the whole series does at every time
at which it is defined (`PartFollows`, `CorrectionStored`); that the parts of a flight with one
sub-sequence are the whole series gives that it has no holes. With more than one it may have some:
run `hole`.

`QueryPagingProofs` proves, for every set of rows, any number of clients, and all limits, windows
and cache lifetimes (`PagingConstants`; the bounds are cached for some time, `BoundsTTL > 0`):

| Theorem | Says |
|---|---|
| `PagingInvariant` | `PagingInv`, with the types of `TypeOK`, always holds |
| `PagesNeverRepeat` | `PagesDescend`: each page lies below all that its walk has got |
| `DefaultReachesAll` | `DefaultReachesNewest`: without an end the window reaches past every flight that the bounds can know |
| `WalksCoverTheirWindow` | `WalkCovers`, if `RowsFit`: no window holds more rows than the inner limit |

The argument. A page is compared to what came before it only through the cursor, so `PagingInv`
says of every answer, in flight or cached, that its rows are below the cursor it was asked for
and not below its own, which is no higher (`Fits`); and of every client, that what it has got is
not below its cursor. `PageFits` shows this of the handler's own computation: the last row of a
full page is the lowest, the floor of a window is below the cursor unless `start_from` is not,
and then the walk ends; cutting to seconds only lowers a cursor. A cached answer fits whoever
asks for it, because the key contains the cursor; batches change rows, but no answer.

The other two speak of rows that have been in the table for as long as the caches keep anything.
`BoundsInv`: cached bounds know every row that was there when they were read, so a client that
asks finds bounds that know each of these rows, and its key ends after them (`EndInv`); an answer
has the end of its key, also when it comes from the cache, because the end that the bounds gave is
part of the key. `CoversInv`: an answer holds each such row of its key's window that is below the
key's cursor, or the row is below the answer's cursor, or it was cut off by the rounding
(`Covered`); a walk has got each row it asked for, or has not come to it, or a cursor lost it
(`Reached`). `PageCovers` is the step that matters: of the rows in a window, fewer than a limit
come before one that is not beyond the page's last (`RankGrows`, `FirstOfFew`). Without `RowsFit` the
inner limit drops rows that no cursor leads to; the comment at `query/compiler.py:108` says that
this never happens.

`PredicateCompilerProofs` proves, for every set of rows, every set of leaves with the parameters
and outer conditions they may have, and all limits (`CompilerConstants`):

| Theorem | Says |
|---|---|
| `Invariance`, `TypeCorrect` | `IInv` and `TypeOK` always hold |
| `NestingCorrect` | `NestingKeepsValue` |
| `CteNamesCorrect` | `CteNamesUnique` |
| `PageCorrect` | `PageOfNewest` |

The argument. `NestingKeepsValue` alone is not inductive: dropping the text TRUE from a fragment
must lose nothing. So `IInv` says of each fragment that it is `Sound`: where its text is TRUE it is
true, it has its value, and its CTEs have numbers that are not above the number of
parameters so far. The next leaf that names a CTE adds its parameters first, among them one for
its shape, and so takes a number above all others. AND, OR and NOT in three values are handled by
their cases (`AndValues`, `AndEqual`); `AndKeepsValue` is the step that matters, that a conjunction may be
split between the two queries. For the page, an order in which fewer rows than `InnerLimit`
come before each candidate keeps all candidates (`FewCandidates`).

The module also proves of TrajectoryPredicate, for every flight that the table can hold, every
block the API accepts, and any width of a cell (`SpatialConstants`, `TrajectoryConstants`):

| Theorem | Says |
|---|---|
| `ProbesHarmless` | `ProbesLoseNoRow`, whichever cells `path_h3` leaves out at corners |
| `OneInstantDecides` | `OneInstantForAll`, with any holes in correction and heights |
| `WithinMeansThroughout` | `WithinThroughout`, with the same |
| `PartIsMeasured` | `MeasuresThePart` |

The argument. A row matches when all of its conditions are true (`HoldsWhenAllTrue`), and they are
taken group by group (`TrueOfParts`): what the exact conditions of a group say of the flight, and
that they imply its probes (`IntersectsAsked`, `WithinAsked`, `AltitudesAsked`, `HeightsPlaced`,
`HeightsAnywhere`, `SquawksAsked`, `TimesAsked`, `DurationProbe`; together `ExactSuffices`).
Clipping by one constraint after the other leaves the instants of `JointAt` (`EffectiveIsJoint`,
`MeasuredIsJoint`). A minimum or maximum in a column is one of some instant (`Extremes`, from a
well-founded order), which is what ties the stored columns to the path. A cell that is left out lies
between two that are not, so it is within the ring of a polygon (`CoveredBeside`, `CellsMeet`).
Where nothing clips the path, the stored duration and length measure what they should because a
bound that holds at every sample holds in the gaps: a point on a line lies between its ends, and a
correction that is the same at both moves all three alike (`OnTheLine`, `LinearWithin`,
`BridgedFeet`, `BridgedStaysJoint`); this is where `KnownThroughout` is needed, and
`StoredMeasureStands`, which goes without, is refuted.

`AppQueryProofs` proves, for all filters, archives, views and dates, and any number of calls, edits
and lookups (`AppConstants`):

| Theorem | Says |
|---|---|
| `PanelIsOneWalk` | `OneWalk` |
| `ChipShowsStaleness` | `NoChipMeansCurrent` |
| `ModesExclude` | `OneMode` |
| `EarlierResultsOffered` | `OfferedUntilFirstWindow` |

The argument. Of the calls under way only the newest can still be answered (`WalkInv`), and it
asks either for the first page of the last run, with an empty panel, or for the page below the
cursor of the panel, since whatever changes the panel or its cursor sends a newer call or settles
this one. And the versions of filters and map only grow (`EditsGrow`), so that if those of the
last run are those of now, nothing was edited since it was sent, and what it asked for is what
the filters say (`FreshMatch`, `ChipInv`). For the button, `BelowCursorInv` keeps with the panel that what the
query asks for and no page shows lies below the cursor: `PageLeavesBelow` shows it of a page, by
the place of the last row of a cut page, or of the floor of the window. The button goes when there is
no cursor, so that nothing is left, or when the window of the last page reached the first day. This
needs that a date range has at most one date at each end (`AppConstants`, `AppTypes`).

`PartitionBackupProofs` proves, for any partitions, days, settle time and budgets
(`BackupConstants`):

| Theorem | Says |
|---|---|
| `SpoolInvariant` | a run is past `exclusive_run` exactly as long as it holds the lock (`LockInv`), with the next two |
| `BackupTypeCorrect` | `TypeOK` |
| `DumpsNeverTorn` | `DumpsComplete`: no dump in the spool or on the volume was written by two runs at once |
| `BackupInvariant` | `BackupInv`, with the next |
| `PassedOverBackedUp` | `PassedOverIsBackedUp`: what `partitions_due` passes over is on file as it stands in the table |

The first argument: only `AcquireLock` makes a run busy, and it takes a free lock; only `Release`
ends a busy run, whether it is done, fails or dies, and it gives the lock back. So at a rename no
other run has the temporary file open, and the shipper moves only what a rename put there.

The second: a version that is not the one in the table has been overtaken by a batch
(`Overtaken`), which is running or failed, has finished after the copy of the version began, or has
lost its row. That holds of manifests (`FileInv`) and of rows that are copied and not yet recorded
(`CopyInv`), since `started` is read before the rows are, and a batch is recorded as running before
it writes (`BatchInv`). A dump beside a manifest is at least as new as the manifest says, so that one
whose manifest is current is current too, wherever a run died between the rename and the manifest.
And the window in which `partitions_due` looks for batches holds every day that may write to the
partition (`OvertakenIsSeen`): for this alone one needs `SettleDays > 0`. The theorem does not use that
nothing is under way (`Quiet`).

Model-checked only:

- what must eventually happen, `EventuallyComplete`, `EventuallyIngested` and `WalkTerminates`,
  which rest on fairness, and `RerunSameRows`, which the run `rerun` refutes.

## 5. Not modelled, and the plan

What could come next: the rest of the web application, that is points of an unfinished polygon, share
links that are encoded asynchronously, and the flight that is selected; and `GoodCounts` for traces
with several reports at one time, for which points would have to be sequences in the order of the
file.

Left out for good: the pressure grid and its interpolation, distances on the earth and the
projection of shapes, WKT text, parsing of traces and reports, the import of airframes and
airspaces (upserts by key), reads without state of the API (one
flight, airspaces, waypoints, statistics), the wording of messages, layout and styling of the web
application, the load generator, the design prototype and generated types. They hold no state
that another part depends on, or are calls of libraries.
