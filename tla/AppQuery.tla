------------------------------ MODULE AppQuery ------------------------------
(***************************************************************************)
(* The queries of the web application (web/src/App.tsx, lib/api.ts,        *)
(* lib/compileQuery.ts, components/results/ResultsPanel.tsx) over the      *)
(* filters of MapPickers: a run, from the button, the chip on the map or a *)
(* shared link, and "load earlier results", which goes on at the cursor of *)
(* the last page.  A new call aborts the one before, whose promise settles *)
(* at some later moment, while the user edits filters, dates and the map.  *)
(*                                                                         *)
(* The filters and the sending of calls are the application's; Page is     *)
(* what the server answers (QueryPaging, here with a table that does not   *)
(* change and with flights that start at different seconds).  An area is a *)
(* name, and Inside the flights that meet it.  A shared link brings dates; *)
(* the filters it brings are reached by editing, and the address bar that  *)
(* follows them, and the selected flight, are left out.                    *)
(***************************************************************************)
EXTENDS MapPickers, FiniteSetsExt, Sequences

CONSTANTS
    Flights,      \* the starts of the flights of the archive, in ticks
    Inside,       \* the flights that meet an area
    DayLen,       \* ticks in a day
    WindowDays,   \* window_days of postQuery
    Limit,        \* limit of postQuery
    Views,        \* what the map can show
    Ranges,       \* the dates the user can enter
    SharedRange,  \* those of a shared link
    MaxMoves,     \* bounds of the model: changes of map and dates,
    MaxCalls      \* calls of postQuery

Option(S) == {option \in SUBSET S : \A t, u \in option : t = u}

ASSUME AppConstants ==
    /\ Flights \subseteq Nat /\ Flights # {} /\ IsFiniteSet(Flights)
    /\ Ranges \cup {SharedRange} \subseteq [to : Option(Nat), from : Option(Nat)]
    /\ DayLen \in Nat \ {0} /\ WindowDays \in Nat \ {0} /\ Limit \in Nat \ {0}
    /\ MaxMoves \in Nat /\ MaxCalls \in Nat

VARIABLES
    shared,       \* initialShare is there
    autoRunDone,
    range,        \* globalDateRange: [to, from], options of days
    bounds,       \* mapBounds
    version,      \* viewportVersion
    dataRange,    \* first and last day of the archive, when they have been answered
    lastRun,      \* lastRunGroup and lastRunVersion
    shown,        \* queryFlights page by page, queryCursor, queryWindowFrom
    loading,      \* queryLoading
    error,        \* queryError is there
    calls,        \* calls of postQuery that have not settled
    newest,       \* the call of queryAbortRef
    asked,        \* history: the request of the last run
    moves

view   == <<range, bounds, version, moves>>
start  == <<shared, autoRunDone>>
panel  == <<lastRun, shown, loading, error, calls, newest, asked>>
query  == <<start, view, dataRange, panel>>
vars   == <<pickers, query>>

NothingShown == [pages |-> None, cursor |-> None, windowFrom |-> None]

Init ==
    /\ PickersInit
    /\ shared \in BOOLEAN /\ autoRunDone = FALSE
    /\ range = IF shared THEN SharedRange ELSE [to |-> None, from |-> None]
    /\ bounds = None /\ version = 0 /\ moves = 0
    /\ dataRange = None
    /\ lastRun = None
    /\ shown = NothingShown
    /\ loading = FALSE /\ error = FALSE
    /\ calls = {} /\ newest = 0
    /\ asked = None

-----------------------------------------------------------------------------
(* What is asked for. *)

IsDateRangeValid == range.to # None /\ \A t \in range.to, f \in range.from : f <= t

(* shapeToGeometry: a shape without its coordinates restricts nothing. *)
Geometry(f, b) ==
    CASE f.shape = "circle"   -> f.spot
      [] f.shape = "viewport" -> b
      [] OTHER                -> f.polygon

CompileGroup(b) == [p \in Ids |-> Geometry(group.filters[p], b)]

(* The day after "to" is the exclusive end. *)
Request(b, cursor) ==
    [match |-> CompileGroup(b),
     end   |-> Max({(t + 1) * DayLen : t \in range.to}),
     from  |-> {f * DayLen : f \in range.from},
     cursor |-> cursor]

Satisfies(f, match) == \A p \in DOMAIN match : \A area \in match[p] : f \in Inside[area]

Wanted(request) ==
    {f \in Flights : /\ Satisfies(f, request.match)
                     /\ f < request.end /\ \A t \in request.from : f >= t}

-----------------------------------------------------------------------------
(* What the server answers (server/adsb_server/api/main.py). *)

Floor(request) ==
    Max({Min({request.end} \cup request.cursor) - WindowDays * DayLen} \cup request.from)

Page(request) ==
    LET floor == Floor(request)
        rows  == {f \in Wanted(request) : f >= floor /\ \A c \in request.cursor : f < c}
        page  == {f \in rows : Cardinality({g \in rows : g > f}) < Limit}
        ends  == floor <= Min(Flights) \/ \E t \in request.from : floor <= t
    IN  [request |-> request, flights |-> page, windowFrom |-> floor,
         cursor |-> IF Cardinality(rows) > Limit THEN {Min(page)}
                    ELSE IF ends THEN None ELSE {floor}]

-----------------------------------------------------------------------------
(* What the page shows of it. *)

HasViewport == \E p \in Ids : group.filters[p].shape = "viewport"

BugFirstMoveIsNoChange(v) == version # v /\ v # 0

ViewportChanged(v) == version # v

ShowRerunChip ==
    /\ IsDateRangeValid /\ IsGroupValid
    /\ \E run \in lastRun :
          group.version # run.group \/ (HasViewport /\ ViewportChanged(run.view))

BugStopAtAnEmptyPage ==
    /\ shown.cursor # None
    /\ \A pages \in shown.pages : pages[Len(pages)].flights # {}
    /\ \A t \in shown.windowFrom, r \in dataRange : t > r.first * DayLen

HasMore ==
    /\ shown.cursor # None
    /\ \A t \in shown.windowFrom, r \in dataRange : t > r.first * DayLen

-----------------------------------------------------------------------------
(* The calls. *)

Send(more, request) ==
    /\ newest < MaxCalls
    /\ newest' = newest + 1
    /\ calls' = calls \cup {[n |-> newest + 1, more |-> more, request |-> request,
                             stage |-> "sent"]}

(* handleRun, with the bounds and the version that it is rendered with. *)
HandleRun(b, v) ==
    IF ~IsDateRangeValid THEN UNCHANGED panel
    ELSE /\ Send(FALSE, Request(b, None))
         /\ lastRun' = {[group |-> group.version, view |-> v]}
         /\ asked' = {Request(b, None)}
         /\ shown' = NothingShown
         /\ loading' = TRUE /\ error' = FALSE

(* The run button, or the chip on the map. *)
Run ==
    /\ IsDateRangeValid
    /\ (Ids # {} /\ IsGroupValid) \/ ShowRerunChip
    /\ HandleRun(bounds, version)
    /\ UNCHANGED <<pickers, start, view, dataRange>>

(* The button is there while there may be more and no error is shown.  The *)
(* request is that of the filters, dates and bounds of now.                *)
LoadMore ==
    /\ HasMore /\ ~loading /\ ~error
    /\ range.to # None
    /\ Send(TRUE, Request(bounds, shown.cursor))
    /\ loading' = TRUE /\ error' = FALSE
    /\ UNCHANGED <<pickers, start, view, dataRange, lastRun, shown, asked>>

BugNeverAborted(c) == FALSE

(* Every call aborts the one before it. *)
Aborted(c) == c.n # newest

Settle(c) == calls' = calls \ {c} /\ loading' = FALSE

Answers(c) ==
    /\ c.stage = "sent" /\ ~Aborted(c)
    /\ LET page == Page(c.request)
           before == IF c.more THEN shown.pages ELSE None
       IN  shown' = [pages |-> {Append(ps, page) : ps \in before}
                                  \cup (IF before = None THEN {<<page>>} ELSE {}),
                     cursor |-> page.cursor, windowFrom |-> {page.windowFrom}]
    /\ Settle(c)
    /\ UNCHANGED <<pickers, start, view, dataRange, lastRun, error, newest, asked>>

(* The head of a response that is not ok has come. *)
Refuses(c) ==
    /\ c.stage = "sent" /\ ~Aborted(c)
    /\ calls' = (calls \ {c}) \cup {[c EXCEPT !.stage = "refused"]}
    /\ UNCHANGED <<pickers, start, view, dataRange, lastRun, shown, loading, error, newest, asked>>

(* Its text has been read, or reading it has failed, be it by the abort:   *)
(* parseError throws in either case an error that is not an AbortError.    *)
RefusalRead(c) ==
    /\ c.stage = "refused"
    /\ error' = TRUE
    /\ Settle(c)
    /\ UNCHANGED <<pickers, start, view, dataRange, lastRun, shown, newest, asked>>

(* The network fails. *)
Fails(c) ==
    /\ c.stage = "sent" /\ ~Aborted(c)
    /\ error' = TRUE
    /\ Settle(c)
    /\ UNCHANGED <<pickers, start, view, dataRange, lastRun, shown, newest, asked>>

(* An AbortError is passed over, but for the loading state. *)
AbortSettles(c) ==
    /\ c.stage = "sent" /\ Aborted(c)
    /\ Settle(c)
    /\ UNCHANGED <<pickers, start, view, dataRange, lastRun, shown, error, newest, asked>>

-----------------------------------------------------------------------------
(* The dates and the map. *)

SetRange(r) ==
    /\ moves < MaxMoves /\ moves' = moves + 1
    /\ range # r
    /\ range' = r
    /\ UNCHANGED <<pickers, start, bounds, version, dataRange, panel>>

(* The answer of /data-range, which need not come, sets the date unless it *)
(* came with the link.                                                     *)
DataRangeAnswers ==
    /\ dataRange = None
    /\ LET last == Max(Flights) \div DayLen
       IN  /\ dataRange' = {[first |-> Min(Flights) \div DayLen, last |-> last]}
           /\ range' = IF shared THEN range ELSE [to |-> {last}, from |-> None]
    /\ UNCHANGED <<pickers, start, bounds, version, moves, panel>>

(* handleMoveEnd; with a shared link the first bounds run the query. *)
MoveEnd(b) ==
    /\ moves < MaxMoves /\ moves' = moves + 1
    /\ bounds' = {b}
    /\ version' = version + 1
    /\ IF shared /\ ~autoRunDone
       THEN autoRunDone' = TRUE /\ HandleRun({b}, version + 1)
       ELSE UNCHANGED <<autoRunDone, panel>>
    /\ UNCHANGED <<pickers, shared, range, dataRange>>

QueryNext ==
    \/ Run \/ LoadMore
    \/ \E c \in calls : \/ Answers(c) \/ Refuses(c) \/ RefusalRead(c)
                        \/ Fails(c) \/ AbortSettles(c)
    \/ \E r \in Ranges : SetRange(r)
    \/ DataRangeAnswers
    \/ \E b \in Views : MoveEnd(b)

Next == (PickersNext /\ UNCHANGED query) \/ QueryNext

Spec == Init /\ [][Next]_vars

-----------------------------------------------------------------------------
(* Properties. *)

Pages == UNION {{pages[k] : k \in DOMAIN pages} : pages \in shown.pages}

(* The pages in the panel are one walk: the first is the answer to the     *)
(* last run, each other one was asked for with the cursor of the one       *)
(* before, and the cursor that is kept is that of the last, whichever      *)
(* calls are aborted, refused or answered late (App.tsx lines 546-627).    *)
OneWalk ==
    \A pages \in shown.pages :
        /\ asked = {pages[1].request}
        /\ \A k \in DOMAIN pages : k > 1 => pages[k].request.cursor = pages[k - 1].cursor
        /\ shown.cursor = pages[Len(pages)].cursor

(* While results are shown and nothing offers to run the query again,      *)
(* though its inputs are valid, every page is of the filters and of the    *)
(* part of the map that are seen (App.tsx lines 638-659).                  *)
NoChipMeansCurrent ==
    IsDateRangeValid /\ IsGroupValid /\ ~ShowRerunChip =>
        \A page \in Pages : page.request.match = CompileGroup(bounds)

(* What makes OneWalk inductive: of the calls under way only the newest    *)
(* can still be answered, and it asks either for the first page of the     *)
(* last run or for the page below the cursor that is kept.                 *)
WalkInv ==
    /\ newest \in Nat
    /\ \A c \in calls : c.n \in 1..newest
    /\ \A c, d \in calls : c.n = d.n => c = d
    /\ \A c \in calls : ~Aborted(c) =>
          IF c.more THEN shown.pages # None /\ c.request.cursor = shown.cursor
                    ELSE shown.pages = None /\ asked = {c.request}
    /\ shown.cursor # None => shown.pages # None
    /\ \A pages \in shown.pages :
          pages # <<>> /\ pages \in Seq({pages[k] : k \in DOMAIN pages})
    /\ OneWalk

(* What makes NoChipMeansCurrent inductive: versions only grow, and while  *)
(* those of the last run still hold, what has been asked for, or is being  *)
(* asked for by the newest call, is what the filters say.                  *)
FreshMatch(request) ==
    (\A run \in lastRun : run.group = group.version /\ (HasViewport => run.view = version))
        => request.match = CompileGroup(bounds)

ChipInv ==
    /\ "version" \in DOMAIN group /\ group.version \in Nat /\ version \in Nat
    /\ \A run \in lastRun : run.group \in 0..group.version /\ run.view \in 0..version
    /\ lastRun = None => calls = {} /\ shown.pages = None
    /\ \A c \in calls : ~Aborted(c) => FreshMatch(c.request)
    /\ \A page \in Pages : FreshMatch(page.request)

Unseen(request) == Wanted(request) \ UNION {page.flights : page \in Pages}

SameQuery(page, request) == [page.request EXCEPT !.cursor = None] = request

(* When earlier results are no longer offered (hasMore) after a walk of    *)
(* one query, every flight that the query asks for is shown, or lies below *)
(* the cursor in a window that reaches the first day of the archive        *)
(* (comment at App.tsx lines 647-649).  An error hides the button also     *)
(* while they are (ResultsPanel.tsx line 534).                             *)
OfferedUntilFirstWindow ==
    \A request \in asked :
        /\ shown.pages # None /\ ~loading /\ ~HasMore
        /\ \A page \in Pages : SameQuery(page, request)
        => \A f \in Unseen(request) :
              /\ \E c \in shown.cursor : f < c
              /\ \E t \in shown.windowFrom, r \in dataRange : t <= r.first * DayLen /\ t <= f

-----------------------------------------------------------------------------
(* Refuted. *)

(* llms.txt line 305: "Repeat the identical request", adding the cursor.   *)
MoreOfTheSameQuery ==
    \A c \in calls : c.more /\ ~Aborted(c) => SameQuery(c, CHOOSE r \in asked : TRUE)

(* While the newest call is under way, the panel says so.  The finally of  *)
(* an aborted call clears it (App.tsx line 576).                           *)
LoadingWhileUnderWay == \A c \in calls : ~Aborted(c) => loading

(* An error that a call of before shows is not that of the newest.         *)
ErrorOfLastCall == error => \A c \in calls : Aborted(c)

(* design-spec.md line 337: the panel pages through large result sets.     *)
AllReachable ==
    \A request \in asked :
        /\ shown.pages # None /\ ~loading /\ ~HasMore
        /\ \A page \in Pages : SameQuery(page, request)
        => Unseen(request) = {}
=============================================================================
