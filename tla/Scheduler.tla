------------------------------ MODULE Scheduler ------------------------------
(***************************************************************************)
(* Which dates the import takes on, in what order, and on which files      *)
(* (ingestion/scheduler.py, started by ingestion/ingest.py): the listing   *)
(* of releases page by page, the download of a release's files next to the *)
(* batch of the date before, and what becomes of both when the process     *)
(* dies.                                                                   *)
(*                                                                         *)
(* A release of a date is known by a number, its tag; a date that is       *)
(* released again gets a higher one.  The files of a release are numbered  *)
(* and named after the date (as in tests/test_ingestion/test_scheduler.py),*)
(* so that those of two releases of a date have the same names.  What a    *)
(* batch does is module Ingest's.                                          *)
(*                                                                         *)
(* One import is followed through its listing and its queue.  Nothing      *)
(* keeps another from running beside it, in the same cache directory: an   *)
(* operator's beside the one of the clock (cli.py starts both).  Of that   *)
(* one the model has the dates it works on, in any order, the files it     *)
(* writes and removes, and the status of its batches.                      *)
(* The operators named Bug... are faulty variants, each a mistake the code *)
(* could have made: the properties are checked to notice them.             *)
(***************************************************************************)
EXTENDS Integers, SequencesExt, FiniteSetsExt

CONSTANTS
    LastDate,      \* dates are 1..LastDate
    NewYear,       \* the first date of the second year
    PageSize,      \* _GITHUB_RELEASES_PER_PAGE
    Lookback,      \* lookback_days, 0 for unlimited
    KeepTraces,    \* keep_traces
    Files,         \* Files[tag]: how many files a release has
    MaxReissues,   \* bounds of the model: dates released again,
    MaxReimports,  \* imports that an operator starts,
    MaxBeside,     \* dates that another import beside it works on,
    MaxErrors,     \* requests and batches that fail,
    MaxCrashes     \* processes that die

Dates == 1..LastDate
Years == {1, 2}
Tags  == DOMAIN Files
Parts == 1..Max({0} \cup {Files[t] : t \in Tags})

None == 0

ASSUME SchedulerConstants ==
    /\ LastDate \in Nat /\ NewYear \in Nat
    /\ PageSize \in Nat \ {0}
    /\ Lookback \in Nat /\ KeepTraces \in BOOLEAN
    /\ Files \in Seq(Nat)
    /\ {MaxReissues, MaxReimports, MaxBeside, MaxErrors, MaxCrashes} \subseteq Nat

VARIABLES
    releases,  \* per year, the releases on GitHub, newest first
    status,    \* ingest_batches.status, "none" without a row
    dirs,      \* the dates with a directory in the cache directory
    disk,      \* the files in it
    pc,        \* "idle", "list" or "work"
    job,       \* the import under way: see TypeOK
    queue,     \* dates still to be fetched, with the tag to fetch
    fetch,     \* prefetch_task: what is being fetched, and how far it is
    current,   \* the date whose batch is running
    otherFetch,    \* what another import is fetching
    otherCurrent,  \* the date whose batch it is running
    others,        \* history: the dates it has worked on during the scan
    overlapped,    \* history: the dates that both have worked on at once
    budget

beside == <<otherFetch, otherCurrent, others, overlapped>>

vars == <<releases, status, dirs, disk, pc, job, queue, fetch, current, beside, budget>>

Year(d) == IF d < NewYear THEN 1 ELSE 2

Absent  == [of |-> None, whole |-> FALSE, etag |-> None]
NoFetch == [date |-> None, tag |-> None, step |-> "none", part |-> 0]
NoTags  == [d \in Dates |-> None]
NoJob   == [reimport |-> FALSE, wanted |-> {}, years |-> <<>>, page |-> 1, scanFrom |-> 0,
            stop |-> FALSE, found |-> NoTags, known |-> {}, clean |-> TRUE, begun |-> {}]

FetchSteps == {"none", "release", "file", "open", "stream", "lost", "etag", "ready", "failed", "empty"}

FetchType == [date : Dates \cup {None}, tag : Tags \cup {None}, part : Parts \cup {0},
              step : FetchSteps]

(* job: the mode, the dates an operator asked for, the years still to be   *)
(* listed, the page, scan_from, stop, to_process; and as history the dates *)
(* that had been released when the import started, whether every request   *)
(* for a page was answered, and the dates whose batch was begun.           *)
TypeOK ==
    /\ releases \in [Years -> Seq([date : Dates, tag : Tags])]
    /\ status \in [Dates -> {"none", "running", "succeeded", "errored"}]
    /\ dirs \subseteq Dates
    /\ disk \in [Dates -> [Parts -> [of : Tags \cup {None}, whole : BOOLEAN,
                                     etag : Tags \cup {None}]]]
    /\ pc \in {"idle", "list", "work"}
    /\ job \in [reimport : BOOLEAN, wanted : SUBSET Dates, years : Seq(Years \cup {0}),
                page : Nat, scanFrom : Nat, stop : BOOLEAN, found : [Dates -> Tags \cup {None}],
                known : SUBSET Dates, clean : BOOLEAN, begun : SUBSET Dates]
    /\ queue \in [Dates -> Tags \cup {None}]
    /\ fetch \in FetchType
    /\ current \in Dates \cup {None}
    /\ otherFetch \in FetchType
    /\ otherCurrent \in Dates \cup {None}
    /\ others \subseteq Dates
    /\ overlapped \subseteq Dates
    /\ budget \in [reissues : 0..MaxReissues, reimports : 0..MaxReimports, beside : 0..MaxBeside,
                   errors : 0..MaxErrors, crashes : 0..MaxCrashes]

Init ==
    /\ releases = [y \in Years |-> <<>>]
    /\ status = [d \in Dates |-> "none"]
    /\ dirs = {}
    /\ disk = [d \in Dates |-> [k \in Parts |-> Absent]]
    /\ pc = "idle"
    /\ job = NoJob
    /\ queue = NoTags
    /\ fetch = NoFetch
    /\ current = None
    /\ otherFetch = NoFetch
    /\ otherCurrent = None
    /\ others = {}
    /\ overlapped = {}
    /\ budget = [reissues |-> MaxReissues, reimports |-> MaxReimports, beside |-> MaxBeside,
                 errors |-> MaxErrors, crashes |-> MaxCrashes]

-----------------------------------------------------------------------------
(* GitHub, where releases appear in the order of their dates, and an older *)
(* date may be released again.                                             *)

Released == {r.date : r \in UNION {ToSet(releases[y]) : y \in Years}}
TagsOf(d) == {r.tag : r \in {s \in ToSet(releases[Year(d)]) : s.date = d}}

Publish(d) ==
    LET tag == 1 + Max({0} \cup TagsOf(d))
    IN  /\ tag \in Tags
        /\ IF d \in Released
           THEN /\ budget.reissues > 0
                /\ budget' = [budget EXCEPT !.reissues = @ - 1]
           ELSE /\ d = 1 + Max({0} \cup Released)
                /\ UNCHANGED budget
        /\ releases' = [releases EXCEPT ![Year(d)] = <<[date |-> d, tag |-> tag]>> \o @]
        /\ UNCHANGED <<status, dirs, disk, pc, job, queue, fetch, current, beside>>

-----------------------------------------------------------------------------
(* Discovery. *)

LatestSuccess == Max({0} \cup {d \in Dates : status[d] = "succeeded"})

ScanFrom(today) ==
    IF Lookback > 0 THEN Max({LatestSuccess, today - Lookback}) ELSE LatestSuccess

(* check_and_run_new_batches looks at the year of today and the one before.*)
StartScan(today) ==
    /\ pc = "idle"
    /\ \A d \in Released : d <= today
    /\ pc' = "list"
    /\ job' = [NoJob EXCEPT !.years = <<Year(today), Year(today) - 1>>,
                            !.scanFrom = ScanFrom(today), !.known = Released]
    /\ others' = Dates \cap {otherFetch.date, otherCurrent}
    /\ UNCHANGED <<releases, status, dirs, disk, queue, fetch, current, otherFetch, otherCurrent,
                   overlapped, budget>>

(* reimport_specific_dates goes through the years upwards.  This is the    *)
(* import that is followed; what one beside it does is at OtherBegins.     *)
Upwards(years) == IF years = Years THEN <<1, 2>> ELSE <<CHOOSE y \in years : TRUE>>

StartReimport(dates) ==
    /\ pc = "idle"
    /\ dates # {}
    /\ budget.reimports > 0
    /\ budget' = [budget EXCEPT !.reimports = @ - 1]
    /\ pc' = "list"
    /\ job' = [NoJob EXCEPT !.reimport = TRUE, !.wanted = dates,
                            !.years = Upwards({Year(d) : d \in dates})]
    /\ UNCHANGED <<releases, status, dirs, disk, queue, fetch, current, beside>>

Page(y, n) ==
    IF y \in Years
    THEN SubSeq(releases[y], (n - 1) * PageSize + 1, Min({n * PageSize, Len(releases[y])}))
    ELSE <<>>

(* The scan reads a page down to the first date that is not above the scan *)
(* boundary, and a reimport all of it.                                     *)
ReadOf(page) ==
    {i \in DOMAIN page : job.reimport \/ \A j \in 1..i : page[j].date > job.scanFrom}

(* to_process.setdefault, entry after entry. *)
FoundAfter(page) ==
    [d \in Dates |->
        LET at == {i \in ReadOf(page) : page[i].date = d}
        IN  IF job.found[d] # None \/ at = {} \/ (~job.reimport /\ status[d] = "succeeded")
            THEN job.found[d]
            ELSE page[Min(at)].tag]

BugLastPage(page) == Len(page) <= PageSize

LastPage(page) == Len(page) < PageSize

Oldest(q) == Min({d \in Dates : q[d] # None})

BugNewest(q) == Max({d \in Dates : q[d] # None})

NextOf(q) == Oldest(q)

(* The fetch of the next date of q is started and the date leaves q. *)
FetchNext(q) ==
    /\ IF q = NoTags
       THEN fetch' = NoFetch /\ queue' = q
       ELSE LET d == NextOf(q)
            IN  /\ fetch' = [date |-> d, tag |-> q[d], step |-> "release", part |-> 0]
                /\ queue' = [q EXCEPT ![d] = None]
    /\ overlapped' = overlapped \cup (Dates \cap {fetch'.date} \cap {otherFetch.date, otherCurrent})
    /\ UNCHANGED <<otherFetch, otherCurrent, others>>

(* The listing of a year is over: _process_date_queue. *)
BeginQueue(found) ==
    /\ pc' = "work"
    /\ FetchNext([d \in Dates |-> IF job.reimport /\ d \notin job.wanted THEN None ELSE found[d]])

ListPage ==
    /\ pc = "list"
    /\ LET page  == Page(Head(job.years), job.page)
           found == FoundAfter(page)
           stop  == ReadOf(page) # DOMAIN page
       IN  IF stop \/ LastPage(page)
           THEN /\ job' = [job EXCEPT !.found = found, !.stop = stop]
                /\ BeginQueue(found)
           ELSE /\ job' = [job EXCEPT !.found = found, !.page = @ + 1]
                /\ UNCHANGED <<pc, queue, fetch, beside>>
    /\ UNCHANGED <<releases, status, dirs, disk, current, budget>>

(* _get_releases answers a failure with no releases. *)
ListPageFails ==
    /\ pc = "list"
    /\ budget.errors > 0
    /\ budget' = [budget EXCEPT !.errors = @ - 1]
    /\ job' = [job EXCEPT !.clean = FALSE]
    /\ BeginQueue(job.found)
    /\ UNCHANGED <<releases, status, dirs, disk, current>>

-----------------------------------------------------------------------------
(* The files of a release, as one import fetches them: f is its fetch and  *)
(* f2 the same after the step, g and g2 those of the import beside it.  A  *)
(* file that is gone, or of which a part is there, is one that is not      *)
(* whole; one that two write at once is of no release.                     *)

BugSizeOnly(file, tag) == file.whole

UpToDate(file, tag) == file.whole /\ file.etag = tag

File(f) == disk[f.date][f.part]

PutFile(f, file) == disk' = [disk EXCEPT ![f.date][f.part] = file]

(* What an import streams to a file that another removes is lost. *)
Lost(g, d, parts) ==
    IF g.step = "stream" /\ g.date = d /\ g.part \in parts THEN [g EXCEPT !.step = "lost"] ELSE g

BugOneFileMore(f) ==
    IF f.part > Files[f.tag] THEN [f EXCEPT !.step = "ready"]
                             ELSE [f EXCEPT !.step = "file", !.part = @ + 1]

NextFile(f) ==
    IF f.part = Files[f.tag] THEN [f EXCEPT !.step = "ready"]
                             ELSE [f EXCEPT !.step = "file", !.part = @ + 1]

ReadRelease(f, f2, g, g2) ==
    /\ f.step = "release"
    /\ f2 = IF Files[f.tag] = 0 THEN [f EXCEPT !.step = "empty"]
                                ELSE [f EXCEPT !.step = "file", !.part = 1]
    /\ g2 = g /\ UNCHANGED <<dirs, disk>>

KeepFile(f, f2, g, g2) ==
    /\ f.step = "file" /\ UpToDate(File(f), f.tag)
    /\ f2 = NextFile(f)
    /\ g2 = g /\ UNCHANGED <<dirs, disk>>

(* File and sidecar are removed before the download begins. *)
RemoveFile(f, f2, g, g2) ==
    /\ f.step = "file" /\ ~UpToDate(File(f), f.tag)
    /\ PutFile(f, Absent)
    /\ dirs' = dirs \cup {f.date}
    /\ f2 = [f EXCEPT !.step = "open"]
    /\ g2 = Lost(g, f.date, {f.part})

(* The answer is there: the file is opened, in a directory that may be     *)
(* gone by now.                                                            *)
OpenFile(f, f2, g, g2) ==
    /\ f.step = "open"
    /\ IF f.date \in dirs
       THEN /\ PutFile(f, [File(f) EXCEPT !.of = IF Lost(g, f.date, {f.part}) = g THEN f.tag ELSE None,
                                          !.whole = FALSE])
            /\ f2 = [f EXCEPT !.step = "stream"]
       ELSE /\ f2 = [f EXCEPT !.step = "failed"]
            /\ UNCHANGED disk
    /\ g2 = g /\ UNCHANGED dirs

FinishFile(f, f2, g, g2) ==
    /\ f.step \in {"stream", "lost"}
    /\ IF f.step = "stream" THEN PutFile(f, [File(f) EXCEPT !.whole = TRUE]) ELSE UNCHANGED disk
    /\ f2 = [f EXCEPT !.step = "etag"]
    /\ g2 = g /\ UNCHANGED dirs

WriteEtag(f, f2, g, g2) ==
    /\ f.step = "etag"
    /\ IF f.date \in dirs
       THEN /\ PutFile(f, [File(f) EXCEPT !.etag = f.tag])
            /\ f2 = NextFile(f)
       ELSE /\ f2 = [f EXCEPT !.step = "failed"]
            /\ UNCHANGED disk
    /\ g2 = g /\ UNCHANGED dirs

FetchStep(f, f2, g, g2) ==
    /\ \/ ReadRelease(f, f2, g, g2) \/ KeepFile(f, f2, g, g2) \/ RemoveFile(f, f2, g, g2)
       \/ OpenFile(f, f2, g, g2) \/ FinishFile(f, f2, g, g2) \/ WriteEtag(f, f2, g, g2)
    /\ UNCHANGED <<releases, status, pc, job, queue, current, otherCurrent, others, overlapped, budget>>

FetchFails(f, f2, g, g2) ==
    /\ f.step \in {"release", "file", "open", "stream", "lost", "etag"}
    /\ budget.errors > 0
    /\ budget' = [budget EXCEPT !.errors = @ - 1]
    /\ f2 = [f EXCEPT !.step = "failed"]
    /\ g2 = g
    /\ UNCHANGED <<releases, status, dirs, disk, pc, job, queue, current, otherCurrent, others, overlapped>>

-----------------------------------------------------------------------------
(* _process_date_queue: take what was fetched, start fetching the next     *)
(* date, then run the batch.                                               *)

TakeFetched ==
    /\ pc = "work" /\ current = None
    /\ FetchNext(queue)
    /\ \/ /\ fetch.step = "failed"
          /\ status' = [status EXCEPT ![fetch.date] = "none"]
          /\ UNCHANGED <<job, current>>
       \/ /\ fetch.step = "empty"
          /\ UNCHANGED <<status, job, current>>
       \/ /\ fetch.step = "ready"
          /\ status' = [status EXCEPT ![fetch.date] = "running"]
          /\ current' = fetch.date
          /\ job' = [job EXCEPT !.begun = @ \cup {fetch.date}]
    /\ UNCHANGED <<releases, dirs, disk, pc, budget>>

(* Without keep_traces the directory of a date goes once it is ingested.   *)
RemoveTraces(d, g, g2) ==
    IF KeepTraces
    THEN g2 = g /\ UNCHANGED <<dirs, disk>>
    ELSE /\ disk' = [disk EXCEPT ![d] = [k \in Parts |-> Absent]]
         /\ dirs' = dirs \ {d}
         /\ g2 = Lost(g, d, Parts)

BatchSucceeds ==
    /\ current # None
    /\ status' = [status EXCEPT ![current] = "succeeded"]
    /\ RemoveTraces(current, otherFetch, otherFetch')
    /\ current' = None
    /\ UNCHANGED <<releases, pc, job, queue, fetch, otherCurrent, others, overlapped, budget>>

(* The files stay for the next attempt. *)
BatchFails ==
    /\ current # None
    /\ budget.errors > 0
    /\ budget' = [budget EXCEPT !.errors = @ - 1]
    /\ status' = [status EXCEPT ![current] = "errored"]
    /\ current' = None
    /\ UNCHANGED <<releases, dirs, disk, pc, job, queue, fetch, beside>>

EndQueue ==
    /\ pc = "work" /\ current = None /\ fetch = NoFetch
    /\ IF job.stop \/ Len(job.years) = 1
       THEN /\ pc' = "idle"
            /\ job' = NoJob
       ELSE /\ pc' = "list"
            /\ job' = [job EXCEPT !.years = Tail(@), !.page = 1, !.found = NoTags]
    /\ UNCHANGED <<releases, status, dirs, disk, queue, fetch, current, beside, budget>>

Crash ==
    /\ pc # "idle"
    /\ budget.crashes > 0
    /\ budget' = [budget EXCEPT !.crashes = @ - 1]
    /\ pc' = "idle"
    /\ job' = NoJob
    /\ queue' = NoTags
    /\ fetch' = NoFetch
    /\ current' = None
    /\ UNCHANGED <<releases, status, dirs, disk, beside>>

-----------------------------------------------------------------------------
(* The import beside it takes dates in the order of a listing of its own,  *)
(* here in any, fetches one while the batch of another runs, and may die.  *)

OtherBegins(d, tag) ==
    /\ otherFetch = NoFetch /\ d # otherCurrent
    /\ budget.beside > 0
    /\ budget' = [budget EXCEPT !.beside = @ - 1]
    /\ tag \in TagsOf(d)
    /\ otherFetch' = [date |-> d, tag |-> tag, step |-> "release", part |-> 0]
    /\ others' = others \cup {d}
    /\ overlapped' = overlapped \cup ({d} \cap {fetch.date, current})
    /\ UNCHANGED <<releases, status, dirs, disk, pc, job, queue, fetch, current, otherCurrent>>

OtherTakes ==
    /\ otherCurrent = None
    /\ otherFetch' = NoFetch
    /\ \/ /\ otherFetch.step = "failed"
          /\ status' = [status EXCEPT ![otherFetch.date] = "none"]
          /\ UNCHANGED otherCurrent
       \/ /\ otherFetch.step = "empty"
          /\ UNCHANGED <<status, otherCurrent>>
       \/ /\ otherFetch.step = "ready"
          /\ status' = [status EXCEPT ![otherFetch.date] = "running"]
          /\ otherCurrent' = otherFetch.date
    /\ UNCHANGED <<releases, dirs, disk, pc, job, queue, fetch, current, others, overlapped, budget>>

OtherSucceeds ==
    /\ otherCurrent # None
    /\ status' = [status EXCEPT ![otherCurrent] = "succeeded"]
    /\ RemoveTraces(otherCurrent, fetch, fetch')
    /\ otherCurrent' = None
    /\ UNCHANGED <<releases, pc, job, queue, current, otherFetch, others, overlapped, budget>>

OtherFails ==
    /\ otherCurrent # None
    /\ budget.errors > 0
    /\ budget' = [budget EXCEPT !.errors = @ - 1]
    /\ status' = [status EXCEPT ![otherCurrent] = "errored"]
    /\ otherCurrent' = None
    /\ UNCHANGED <<releases, dirs, disk, pc, job, queue, fetch, current, otherFetch, others, overlapped>>

OtherDies ==
    /\ otherFetch # NoFetch \/ otherCurrent # None
    /\ budget.crashes > 0
    /\ budget' = [budget EXCEPT !.crashes = @ - 1]
    /\ otherFetch' = NoFetch
    /\ otherCurrent' = None
    /\ UNCHANGED <<releases, status, dirs, disk, pc, job, queue, fetch, current, others, overlapped>>

-----------------------------------------------------------------------------
ImportStep ==
    \/ \E today \in Dates : StartScan(today)
    \/ ListPage
    \/ FetchStep(fetch, fetch', otherFetch, otherFetch')
    \/ TakeFetched \/ BatchSucceeds \/ EndQueue

OtherStep ==
    \/ \E d \in Dates : \E tag \in TagsOf(d) : OtherBegins(d, tag)
    \/ FetchStep(otherFetch, otherFetch', fetch, fetch')
    \/ FetchFails(otherFetch, otherFetch', fetch, fetch')
    \/ OtherTakes \/ OtherSucceeds \/ OtherFails \/ OtherDies

Next ==
    \/ \E d \in Dates : Publish(d)
    \/ ImportStep
    \/ OtherStep
    \/ \E dates \in SUBSET Dates : StartReimport(dates)
    \/ FetchFails(fetch, fetch', otherFetch, otherFetch')
    \/ ListPageFails \/ BatchFails \/ Crash

Spec == Init /\ [][Next]_vars

(* A scan is started every 12 hours and comes to its end. *)
FairSpec == Spec /\ WF_vars(ImportStep)

-----------------------------------------------------------------------------
(* Properties. *)

(* A batch finds all the files of the release that was found for its date, *)
(* whole and of that release, whatever an earlier attempt, another release *)
(* of the date, a crash in the middle of a download or another import left *)
(* in the directory or does in those of other dates (_download_asset lines *)
(* 115-154).  Open is what becomes of a date that two imports have worked  *)
(* on at once, where BatchAlwaysReadsWholeRelease is wrong.  Files beyond  *)
(* them that a release with more files left there are read as well         *)
(* (parser.stream_tarball_raw chains all that it finds), which the         *)
(* property leaves open.                                                   *)
FilesAreWhole ==
    LET tag == job.found[current]
    IN  \A k \in 1..Files[tag] : disk[current][k].of = tag /\ disk[current][k].whole

BatchReadsWholeRelease == current # None /\ current \notin overlapped => FilesAreWhole

(* That it does so in any case is not so: another import of the same date  *)
(* removes a file (lines 140-143) or the directory (lines 254-255) that    *)
(* the batch is about to read.                                             *)
BatchAlwaysReadsWholeRelease == current # None => FilesAreWhole

(* The batches of an import are begun oldest first (scheduler.py:334): in  *)
(* the other order a day is run before the carry it needs is there.        *)
OldestFirst == current # None => \A d \in job.begun : d <= current

(* The dates above the scan boundary are candidates, all of them           *)
(* (scheduler.py:338-339), also when releases appear between two requests  *)
(* and move entries to the next page; but for those that another import    *)
(* works on meanwhile, which are done, or not, when the page is read and   *)
(* not, or done, afterwards.                                               *)
AllCandidatesFound ==
    pc = "work" /\ ~job.reimport /\ job.clean =>
        \A d \in job.known :
            Year(d) = Head(job.years) /\ d > job.scanFrom
                => job.found[d] # None \/ status[d] = "succeeded" \/ d \in others

(* Without failing requests or batches every release is ingested in the    *)
(* end, wherever the import dies.                                          *)
EventuallyIngested == \A d \in Dates : d \in Released ~> status[d] = "succeeded"
=============================================================================
