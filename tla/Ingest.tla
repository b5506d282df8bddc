------------------------------- MODULE Ingest -------------------------------
(***************************************************************************)
(* The database side of the daily import: run_batch of ingestion/batch.py  *)
(* as the statements it sends, each of them a step of its own, since no    *)
(* transaction spans them.  A run may die between any two statements or    *)
(* fail, two processes may run at once (the scheduled import and one that  *)
(* an operator starts with dates; nothing excludes them from each other),  *)
(* and a day may be run again.                                             *)
(*                                                                         *)
(* The traces of a day do not change here (module CarryOver lets them);    *)
(* how points become flights is module Splitter's.                         *)
(* The operators named Bug... are faulty variants, each a mistake the code *)
(* could have made: the properties are checked to notice them.             *)
(***************************************************************************)
EXTENDS Splitter

CONSTANTS
    Aircraft,
    LastDay,     \* batch dates are 1..LastDay
    Trace,       \* Trace[d][ac]: the points of the day's file, ts in 1..DayLen
    Procs,       \* {"cron"} or {"cron", "manual"}
    MaxRuns,     \* bounds of the model: batches begun,
    MaxCrashes,  \* processes that die,
    MaxErrors,   \* batches that fail,
    MaxFaults,   \* either of the two,
    MaxExpired   \* the last day that retention ever expires

Days == 1..LastDay

ASSUME IngestConstants ==
    /\ LastDay \in Nat \ {0} /\ MaxExpired \in 0..LastDay
    /\ Procs \subseteq {"cron", "manual"}
    /\ MaxRuns \in Nat /\ MaxCrashes \in Nat /\ MaxErrors \in Nat
    /\ \A d \in Days, ac \in Aircraft : \A p \in Trace[d][ac] : p \in Point /\ 0 < p.ts /\ p.ts <= DayLen

VARIABLES
    status,      \* ingest_batches.status; "none" without a row
    staging,     \* flight_staging; a day without a row carries nothing
    flights,     \* the flights table
    stats,       \* icao_type_stats: flights of a day per type; each aircraft is of its own type
    next,        \* the date the scheduled import takes next
    pc,          \* per process: the statement it is about to send
    day,         \* batch_date
    carry,       \* staging: what the run loaded from the day before
    existing,    \* existing_keys
    done,        \* aircraft whose flights are written (upserted_keys, in_progress_flights)
    budget,      \* runs, crashes and errors left
    sound,       \* history: the processes whose run builds on a good day and is undisturbed
    good,        \* history: the days that such a run was the last to write
    lost,        \* history: the days whose carry is not the one of their last run: see WriteStaging
    wrong,       \* history: the days last written by a run on a wrong carry
    miscounted   \* history: the days counted while one of the two days after was one of those

marks == <<lost, wrong, miscounted>>
vars  == <<status, staging, flights, stats, next, pc, day, carry, existing, done, budget, sound, good, marks>>

Row == [ac : Aircraft, start : Int, end : Int, batch : Days]
Key(r) == <<r.ac, r.start>>

Statuses == {"none", "running", "succeeded", "errored"}
Statements == {"idle", "staging", "existing", "flush", "carry", "stale", "stats", "succeed", "purge"}

TypeOK ==
    /\ status \in [Days -> Statuses]
    /\ \A d \in Days, ac \in Aircraft : staging[d][ac] \subseteq Point
    /\ flights \subseteq Row
    /\ stats \in [Days -> [Aircraft -> Nat]]
    /\ next \in Days \cup {LastDay + 1}
    /\ pc \in [Procs -> Statements]
    /\ day \in [Procs -> Days]
    /\ \A p \in Procs, ac \in Aircraft : carry[p][ac] \subseteq Point
    /\ \A p \in Procs : existing[p] \subseteq Aircraft \X Int
    /\ done \in [Procs -> SUBSET Aircraft]
    /\ budget \in [runs : 0..MaxRuns, crashes : 0..MaxCrashes, errors : 0..MaxErrors]
    /\ sound \subseteq Procs
    /\ good \subseteq Days
    /\ lost \subseteq Days /\ wrong \subseteq Days /\ miscounted \subseteq Days

-----------------------------------------------------------------------------
(* What a day's file and the carry of the day before amount to. *)

NoCarry == [ac \in Aircraft |-> {}]

DayPoints(d, ac) == {[p EXCEPT !.ts = Midnight(d - 1) + p.ts] : p \in Trace[d][ac]}

FlightsOf(d, ac, base) ==
    {[ac |-> ac, start |-> f.start, end |-> f.end, batch |-> d] :
        f \in SplitFlights(base \cup DayPoints(d, ac))}

CarryOf(d, ac, base) == InProgressPoints(base \cup DayPoints(d, ac), Midnight(d))

(* The carries that a day can begin with: none, and those that the day     *)
(* before left; each is split once.                                        *)
CarriesInto[d \in Days] ==
    [ac \in Aircraft |->
        {{}} \cup IF d = 1 THEN {} ELSE {CarryOf(d - 1, ac, base) : base \in CarriesInto[d - 1][ac]}]

Bases == [d \in Days |-> CarriesInto[d]]

Split == [d \in Days |-> [ac \in Aircraft |-> [base \in Bases[d][ac] |->
             [flights |-> FlightsOf(d, ac, base), carry |-> CarryOf(d, ac, base)]]]]

StartsOn(r, d) == Midnight(d - 1) < r.start /\ r.start <= Midnight(d)

Upserted(p) == UNION {Split[day[p]][ac][carry[p][ac]].flights : ac \in done[p]}

(* INSERT ... ON CONFLICT (icao24, start_ts) DO UPDATE. *)
Upsert(table_, new) == {r \in table_ : \A n \in new : Key(n) # Key(r)} \cup new

-----------------------------------------------------------------------------
Init ==
    /\ status = [d \in Days |-> "none"]
    /\ staging = [d \in Days |-> NoCarry]
    /\ flights = {}
    /\ stats = [d \in Days |-> [ac \in Aircraft |-> 0]]
    /\ next = 1
    /\ pc = [p \in Procs |-> "idle"]
    /\ day = [p \in Procs |-> 1]
    /\ carry = [p \in Procs |-> NoCarry]
    /\ existing = [p \in Procs |-> {}]
    /\ done = [p \in Procs |-> {}]
    /\ budget = [runs |-> MaxRuns, crashes |-> MaxCrashes, errors |-> MaxErrors]
    /\ sound = {}
    /\ good = {}
    /\ lost = {} /\ wrong = {} /\ miscounted = {}

Forget(p) ==
    /\ day' = [day EXCEPT ![p] = 1]
    /\ carry' = [carry EXCEPT ![p] = NoCarry]
    /\ existing' = [existing EXCEPT ![p] = {}]
    /\ done' = [done EXCEPT ![p] = {}]

(* What a write of p does to the history: the days after its own must be   *)
(* done again, and so must the other process's day if it is one of those.  *)
(* A write of a run on a wrong carry also spoils its own day, and the      *)
(* earlier days whose flights it takes over.                               *)
TakenFrom(new) == {r.batch : r \in {s \in flights : \E n \in new : Key(n) = Key(s)}}

Overrides(p, d, taken) == d > day[p] \/ (p \notin sound /\ (d = day[p] \/ d \in taken))

Disturb(p, taken) ==
    /\ good' = {d \in good : ~Overrides(p, d, taken)}
    /\ sound' = {q \in sound : q = p \/ ~Overrides(p, day[q], taken)}
    /\ wrong' = IF p \in sound THEN wrong ELSE wrong \cup {day[p]}

Goto(p, statement) == pc' = [pc EXCEPT ![p] = statement]

(* The row of ingest_batches becomes 'running', whatever it was. *)
Begin(p, d) ==
    /\ pc[p] = "idle"
    /\ budget.runs > 0
    /\ budget' = [budget EXCEPT !.runs = @ - 1]
    /\ status' = [status EXCEPT ![d] = "running"]
    /\ day' = [day EXCEPT ![p] = d]
    /\ Goto(p, "staging")
    /\ UNCHANGED <<staging, flights, stats, carry, existing, done, sound, good, marks>>

(* The queue of the scheduled import goes on to the next date whatever     *)
(* became of the last one.                                                 *)
BeginScheduled ==
    /\ "cron" \in Procs
    /\ next \in Days
    /\ Begin("cron", next)
    /\ next' = next + 1

(* A date that the import is asked to do is done whatever its status. *)
BeginManual(d) ==
    /\ "manual" \in Procs
    /\ Begin("manual", d)
    /\ UNCHANGED next

BugPollSkipsOne ==
    /\ "cron" \in Procs
    /\ pc["cron"] = "idle"
    /\ next' = Max({0} \cup {d \in Days : status[d] = "succeeded"}) + 2
    /\ next' # next
    /\ UNCHANGED <<status, staging, flights, stats, pc, day, carry, existing, done, budget, sound, good, marks>>

BugPollSkipsStarted ==
    /\ "cron" \in Procs
    /\ pc["cron"] = "idle"
    /\ next' = Max({0} \cup {d \in Days : status[d] # "none"}) + 1
    /\ next' # next
    /\ UNCHANGED <<status, staging, flights, stats, pc, day, carry, existing, done, budget, sound, good, marks>>

(* A scan queues the released dates after the newest that succeeded.  How  *)
(* far the releases go is open: a new scan may cut in anywhere.            *)
Poll ==
    /\ "cron" \in Procs
    /\ pc["cron"] = "idle"
    /\ next' = Max({0} \cup {d \in Days : status[d] = "succeeded"}) + 1
    /\ next' # next
    /\ UNCHANGED <<status, staging, flights, stats, pc, day, carry, existing, done, budget, sound, good, marks>>

LoadStaging(p) ==
    /\ pc[p] = "staging"
    /\ carry' = [carry EXCEPT ![p] = IF day[p] - 1 \in Days THEN staging[day[p] - 1] ELSE NoCarry]
    /\ sound' = IF day[p] = 1 \/ day[p] - 1 \in good \ lost THEN sound \cup {p} ELSE sound
    /\ Goto(p, "existing")
    /\ UNCHANGED <<status, staging, flights, stats, next, day, existing, done, budget, good, marks>>

ReadExisting(p) ==
    /\ pc[p] = "existing"
    /\ existing' = [existing EXCEPT ![p] = {Key(r) : r \in {s \in flights : s.batch = day[p]}}]
    /\ Goto(p, "flush")
    /\ UNCHANGED <<status, staging, flights, stats, next, day, carry, done, budget, sound, good, marks>>

(* A chunk of results is written by one executemany, which is atomic; the  *)
(* flights of an aircraft are in one chunk.  A chunk of several aircraft   *)
(* is several steps here, and an attempt that failed is none.              *)
Flush(p, ac) ==
    /\ pc[p] = "flush"
    /\ ac \in Aircraft \ done[p]
    /\ done' = [done EXCEPT ![p] = @ \cup {ac}]
    /\ IF done'[p] = Aircraft THEN Goto(p, "carry") ELSE UNCHANGED pc
    /\ LET new == Split[day[p]][ac][carry[p][ac]].flights
       IN  /\ flights' = Upsert(flights, new)
           /\ Disturb(p, TakenFrom(new))
    /\ UNCHANGED <<status, staging, stats, next, day, carry, existing, budget, lost, miscounted>>

CarryFound(p) == [ac \in Aircraft |-> Split[day[p]][ac][carry[p][ac]].carry]

(* A run that finds nothing in progress leaves the carry of an earlier one. *)
LeavesOldCarry(p) == CarryFound(p) = NoCarry /\ staging[day[p]] # NoCarry

BugKeepCarry(p) ==
    /\ pc[p] = "carry"
    /\ staging' = IF staging[day[p]] # NoCarry THEN staging
                  ELSE [staging EXCEPT ![day[p]] = CarryFound(p)]
    /\ lost' = IF LeavesOldCarry(p) THEN lost \cup {day[p]} ELSE lost \ {day[p]}
    /\ Goto(p, "stale")
    /\ Disturb(p, {})
    /\ UNCHANGED <<status, flights, stats, next, day, carry, existing, done, budget, miscounted>>

(* No statement is sent when nothing is in progress: a row that an earlier *)
(* run of the day wrote stays, and is lost as the carry of the day.        *)
WriteStaging(p) ==
    /\ pc[p] = "carry"
    /\ staging' = IF CarryFound(p) = NoCarry THEN staging
                  ELSE [staging EXCEPT ![day[p]] = CarryFound(p)]
    /\ lost' = IF LeavesOldCarry(p) THEN lost \cup {day[p]} ELSE lost \ {day[p]}
    /\ Goto(p, "stale")
    /\ Disturb(p, {})
    /\ UNCHANGED <<status, flights, stats, next, day, carry, existing, done, budget, miscounted>>

BugDeleteExisting(p) ==
    /\ pc[p] = "stale"
    /\ flights' = {r \in flights : ~(Key(r) \in existing[p] /\ r.batch = day[p])}
    /\ Goto(p, "stats")
    /\ Disturb(p, {})
    /\ UNCHANGED <<status, staging, stats, next, day, carry, existing, done, budget, lost, miscounted>>

BugKeepStale(p) ==
    /\ pc[p] = "stale"
    /\ Goto(p, "stats")
    /\ Disturb(p, {})
    /\ UNCHANGED <<status, staging, flights, stats, next, day, carry, existing, done, budget, lost, miscounted>>

DeleteStale(p) ==
    /\ pc[p] = "stale"
    /\ LET stale == existing[p] \ {Key(r) : r \in Upserted(p)}
       IN  flights' = {r \in flights : ~(Key(r) \in stale /\ r.batch = day[p])}
    /\ Goto(p, "stats")
    /\ Disturb(p, {})
    /\ UNCHANGED <<status, staging, stats, next, day, carry, existing, done, budget, lost, miscounted>>

(* Batches of the next two days write flights that start on the day too. *)
MarkCount(p) ==
    miscounted' = IF {day[p] + 1, day[p] + 2} \cap wrong # {} THEN miscounted \cup {day[p]}
                                                           ELSE miscounted \ {day[p]}

BugCountBatch(p) ==
    /\ pc[p] = "stats"
    /\ LET d == day[p]
           count(ac) == Cardinality({r \in flights : r.ac = ac /\ r.batch = d})
       IN  stats' = [stats EXCEPT ![d] =
                        [ac \in Aircraft |-> IF count(ac) > 0 THEN count(ac) ELSE @[ac]]]
    /\ MarkCount(p)
    /\ Goto(p, "succeed")
    /\ UNCHANGED <<status, staging, flights, next, day, carry, existing, done, budget, sound, good, lost, wrong>>

(* A type without a flight on the day gets no row, nor loses one. *)
UpsertStats(p) ==
    /\ pc[p] = "stats"
    /\ LET d == day[p]
           count(ac) == Cardinality({r \in flights : r.ac = ac /\ StartsOn(r, d)})
       IN  stats' = [stats EXCEPT ![d] =
                        [ac \in Aircraft |-> IF count(ac) > 0 THEN count(ac) ELSE @[ac]]]
    /\ MarkCount(p)
    /\ Goto(p, "succeed")
    /\ UNCHANGED <<status, staging, flights, next, day, carry, existing, done, budget, sound, good, lost, wrong>>

Finish(p, outcome, statement) ==
    /\ status' = [status EXCEPT ![day[p]] = IF @ = "none" THEN @ ELSE outcome]
    /\ Goto(p, statement)
    /\ Forget(p)
    /\ sound' = sound \ {p}

Succeed(p) ==
    /\ pc[p] = "succeed"
    /\ Finish(p, "succeeded", "purge")
    /\ good' = IF p \in sound THEN good \cup {day[p]} ELSE good
    /\ wrong' = IF p \in sound THEN wrong \ {day[p]} ELSE wrong
    /\ UNCHANGED <<staging, flights, stats, next, budget, lost, miscounted>>

(* The carries from before the retention window go, whichever day the run  *)
(* is of; how long ago the days were is open, and none go when the purge   *)
(* fails, which is passed over, or no window is set.                       *)
PurgeExpiredStaging(p) ==
    /\ pc[p] = "purge"
    /\ \E last \in 0..MaxExpired :
          /\ staging' = [d \in Days |-> IF d <= last THEN NoCarry ELSE staging[d]]
          /\ lost' = lost \cup 1..last
    /\ Goto(p, "idle")
    /\ UNCHANGED <<status, flights, stats, next, day, carry, existing, done, budget, sound, good, wrong, miscounted>>

(* A bound of the model. *)
MayGoWrong == MaxErrors - budget.errors + MaxCrashes - budget.crashes < MaxFaults

(* The MSLP data is missing, a write fails for the third time or another   *)
(* statement does: _process_downloaded_release records it.                 *)
Fail(p) ==
    /\ pc[p] \notin {"idle", "purge"}
    /\ budget.errors > 0 /\ MayGoWrong
    /\ budget' = [budget EXCEPT !.errors = @ - 1]
    /\ Finish(p, "errored", "idle")
    /\ UNCHANGED <<staging, flights, stats, next, good, marks>>

(* The process dies between two statements; the import that the scheduler  *)
(* starts next begins with a scan.                                         *)
Crash(p) ==
    /\ pc[p] # "idle"
    /\ budget.crashes > 0 /\ MayGoWrong
    /\ budget' = [budget EXCEPT !.crashes = @ - 1]
    /\ Goto(p, "idle")
    /\ Forget(p)
    /\ sound' = sound \ {p}
    /\ next' = IF p = "cron" THEN LastDay + 1 ELSE next
    /\ UNCHANGED <<status, staging, flights, stats, good, marks>>

(* The release of a date cannot be downloaded: the date loses its row.     *)
FetchFails(p, d) ==
    /\ pc[p] = "idle"
    /\ budget.errors > 0 /\ MayGoWrong
    /\ budget' = [budget EXCEPT !.errors = @ - 1]
    /\ status' = [status EXCEPT ![d] = "none"]
    /\ \/ p = "cron" /\ d = next /\ next' = next + 1
       \/ p = "manual" /\ UNCHANGED next
    /\ UNCHANGED <<staging, flights, stats, pc, day, carry, existing, done, sound, good, marks>>

(* The release of a date has no files: the queue goes on without it. *)
SkipRelease ==
    /\ "cron" \in Procs /\ pc["cron"] = "idle"
    /\ next \in Days
    /\ budget.errors > 0 /\ MayGoWrong
    /\ budget' = [budget EXCEPT !.errors = @ - 1]
    /\ next' = next + 1
    /\ UNCHANGED <<status, staging, flights, stats, pc, day, carry, existing, done, sound, good, marks>>

RunStep(p) ==
    \/ LoadStaging(p) \/ ReadExisting(p)
    \/ \E ac \in Aircraft : Flush(p, ac)
    \/ WriteStaging(p) \/ DeleteStale(p) \/ UpsertStats(p) \/ Succeed(p)
    \/ PurgeExpiredStaging(p)

Next ==
    \/ BeginScheduled
    \/ \E d \in Days : BeginManual(d)
    \/ Poll
    \/ SkipRelease
    \/ \E p \in Procs :
          \/ RunStep(p) \/ Fail(p) \/ Crash(p)
          \/ \E d \in Days : FetchFails(p, d)

Spec == Init /\ [][Next]_vars

(* The scheduler starts the import every 12 hours, and a run gets to its   *)
(* end, be it by success, failure or death (weak fairness of RunStep: its  *)
(* steps are enabled until it ends, and finitely many).  Nothing makes an  *)
(* operator act.                                                           *)
FairSpec ==
    /\ Spec
    /\ WF_vars(Poll) /\ WF_vars(BeginScheduled)
    /\ \A p \in Procs : []<>(pc[p] = "idle")

-----------------------------------------------------------------------------
(* What undisturbed ingestion of the days in order gives. *)

InOrderCarry[d \in 0..LastDay] ==
    [ac \in Aircraft |-> IF d = 0 THEN {} ELSE CarryOf(d, ac, InOrderCarry[d - 1][ac])]

InOrderFlights[d \in 0..LastDay] ==
    [ac \in Aircraft |->
        IF d = 0 THEN {}
        ELSE Upsert(InOrderFlights[d - 1][ac], FlightsOf(d, ac, InOrderCarry[d - 1][ac]))]

Carries   == [d \in 0..LastDay |-> InOrderCarry[d]]
Snapshots == [ac \in Aircraft |-> [d \in 0..LastDay |-> InOrderFlights[d][ac]]]

AllFlights == UNION {Snapshots[ac][LastDay] : ac \in Aircraft}

Quiet == \A p \in Procs : pc[p] = "idle"

-----------------------------------------------------------------------------
(* Properties. *)

(* However days were run, failed, crashed and overlapped before: once each *)
(* day in turn has been run on the good carry of the day before, the table *)
(* is the one of an undisturbed ingestion.  Neither another run may write  *)
(* an earlier day meanwhile, nor one on a wrong carry the same day or one  *)
(* of its flights: it keeps the row under its own day, whose next run      *)
(* deletes it as stale, and the day that lost it must be done again.       *)
(* Nothing else wrong outlives the repair, not even what a run without the *)
(* carry that retention had deleted did.  (A day whose carry is lost       *)
(* cannot be built on: when a wrong run staged a carry and nothing is in   *)
(* progress in truth, no rerun mends the days after it.)                   *)
GoodDaysComplete == good = Days => flights = AllFlights

(* The carry that a good day left is the one of an undisturbed run, until  *)
(* retention deletes it or a rerun that finds none leaves the old one.     *)
GoodCarry == \A d \in good \ lost : staging[d] = Carries[d]

(* The counts of a good day are those of an undisturbed ingestion of the   *)
(* days up to it, or with the day after, whose batch may add a flight that *)
(* starts late on this one; other runs of it or of earlier days, failures  *)
(* and crashes leave nothing wrong in them.  A run on a wrong carry of one *)
(* of the next two days may: it leaves or deletes flights that start on    *)
(* the day, and when it is repaired the day is not counted again.  (A type *)
(* whose flights are all gone keeps its row, see UpsertStats.)             *)
GoodCounts ==
    \A d \in good \ miscounted, ac \in Aircraft :
        LET n(e) == Cardinality({r \in Snapshots[ac][e] : StartsOn(r, d)})
        IN  n(d) > 0 => stats[d][ac] \in {n(d), n(Min({d + 1, LastDay}))}

(* A reader never sees an aircraft half-way through a day, or going back:  *)
(* the flights of each aircraft step from the state after one day to the   *)
(* state after a later one, although a run writes them in pieces, dies     *)
(* anywhere and starts over.                                               *)
Timeline == INSTANCE Timeline WITH
    visible <- [ac \in Aircraft |-> {r \in flights : r.ac = ac}]

ReadersSeeTimeline == Timeline!Spec

(* What docs/design-spec.md says and the code does not do; a run refutes it. *)

Spans(table) == {<<r.ac, r.start, r.end>> : r \in table}

(* The blob of a batch date replaces any prior row (design-spec.md line    *)
(* 156): what is staged after a run is what the run found in progress.     *)
CarryReplaced ==
    [][\A p \in Procs : pc[p] = "carry" /\ pc'[p] = "stale"
          => staging'[day[p]] = CarryFound(p)]_vars

(* Re-running a batch produces the same flights rows (design-spec.md       *)
(* line 161): when every day was ingested in order, no flight has become   *)
(* shorter or longer after a later run.                                    *)
RerunSameRows ==
    [](Quiet /\ good = Days => [](Quiet => Spans(flights) = Spans(AllFlights)))

-----------------------------------------------------------------------------
(* Every day is ingested in the end, with what belongs to it. *)
EventuallyComplete ==
    <>[](flights = AllFlights /\ \A d \in Days : status[d] = "succeeded")

=============================================================================
