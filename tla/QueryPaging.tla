----------------------------- MODULE QueryPaging -----------------------------
(***************************************************************************)
(* POST /api/v1/query (server/adsb_server/api/main.py): clients that page  *)
(* until the cursor is null, over a table that batches change meanwhile,   *)
(* with the cached bounds of the archive and the result cache of cache.py. *)
(*                                                                         *)
(* A row is a flight: its start, its aircraft (numbered in the order of    *)
(* icao24) and whether the outer part of the predicate accepts it; rows    *)
(* that the inner part rejects are left out.  Starts are finer than the    *)
(* seconds that a cursor keeps.  An option that may be missing (end_date,  *)
(* start_from, a cursor, the bounds of an empty archive) is a set of at    *)
(* most one value.                                                         *)
(*                                                                         *)
(* A request takes no time against the lifetimes of the caches, which are  *)
(* minutes and hours; other requests and batches may come between any two  *)
(* of its awaits.  One server process.                                     *)
(* The operators named Bug... are faulty variants, each a mistake the code *)
(* could have made: the properties are checked to notice them.             *)
(***************************************************************************)
EXTENDS Integers, FiniteSets, FiniteSetsExt

CONSTANTS
    Rows,        \* the flights there can be
    Tables,      \* those that can be there when the server starts
    Clients,
    Asks,        \* the end_date and start_from that a client gives, {} for none
    SecondLen,   \* ticks of start_ts in a second
    Now,         \* datetime.now(UTC) when the clock is 0: after every flight
    Window,      \* window_days
    Limit,       \* limit
    InnerLimit,  \* INNER_SUBQUERY_LIMIT
    BoundsTTL,   \* _DATA_BOUNDS_TTL_S
    QueryTTL,    \* cache.QUERY_TTL
    MaxTime,     \* bounds of the model: the clock,
    MaxWalks,    \* walks,
    MaxEvents    \* rows that batches insert or delete, and calls that fail

None == {}

Option(S) == {option \in SUBSET S : \A t, u \in option : t = u}

ASSUME PagingConstants ==
    /\ Rows \subseteq [ts : Nat, ac : Nat \ {0}, hit : BOOLEAN]
    /\ \A rows \in Tables : rows \subseteq Rows
    /\ \A ask \in Asks :
          /\ ask.end \in Option(Nat) /\ ask.from \in Option(Nat)
          /\ \A t \in ask.end, u \in ask.from : u < t        \* _validate_dates
    /\ Now \in Nat /\ \A r \in Rows : r.ts < Now
    /\ SecondLen \in Nat \ {0} /\ Window \in Nat \ {0}
    /\ Limit \in Nat \ {0} /\ InnerLimit \in Nat \ {0}
    /\ BoundsTTL \in Nat \ {0} /\ QueryTTL \in Nat
    /\ MaxTime \in Nat /\ MaxWalks \in Nat /\ MaxEvents \in Nat

VARIABLES
    table,   \* flights
    since,   \* history: when a row was inserted
    clock,
    bounds,  \* app.state.data_bounds, missing at first
    cache,   \* result cache: entries [key, answer, until]
    pc,      \* per client: "idle", the await its request is at, or "answer"
    request, \* what the client asks: [end, from, cursor]
    call,    \* locals of the handler: [first, key]
    answer,  \* the response: [page, cursor], and as history its end and its uncut cursor
    walk,    \* history of the walk: rows got, positions cut, when begun, whether it is over
    budget

vars == <<table, since, clock, bounds, cache, pc, request, call, answer, walk, budget>>

Cursors == [ts : Int, ac : Nat]
Requests == [end : Option(Nat), from : Option(Nat), cursor : Option(Cursors)]
Keys     == [end : Nat, from : Option(Nat), cursor : Option(Cursors)]
Answers  == [page : SUBSET Rows, cursor : Option(Cursors), end : Nat, cut : Option(Cursors)]

NoRequest == [end |-> None, from |-> None, cursor |-> None]
NoCall    == [first |-> None, key |-> [end |-> 0, from |-> None, cursor |-> None]]
NoAnswer  == [page |-> {}, cursor |-> None, end |-> 0, cut |-> None]
NoWalk    == [got |-> {}, cut |-> {}, begun |-> 0, over |-> TRUE]

TypeOK ==
    /\ table \subseteq Rows
    /\ since \in [Rows -> Int]
    /\ clock \in Nat
    /\ bounds \subseteq [at : Nat, first : Option(Nat), last : Option(Nat)]
    /\ cache \subseteq [key : Keys, answer : Answers, until : Nat]
    /\ pc \in [Clients -> {"idle", "bounds", "lookup", "fetch", "store", "answer"}]
    /\ request \in [Clients -> Requests]
    /\ call \in [Clients -> [first : Option(Nat), key : Keys]]
    /\ answer \in [Clients -> Answers]
    /\ walk \in [Clients -> [got : SUBSET Rows, cut : SUBSET Cursors, begun : Nat, over : BOOLEAN]]
    /\ budget \in [walks : Nat, events : Nat]

-----------------------------------------------------------------------------
(* ORDER BY start_ts DESC, icao24 DESC. *)
Before(r, s) == r.ts > s.ts \/ (r.ts = s.ts /\ r.ac > s.ac)

First(n, S) == {r \in S : Cardinality({s \in S : Before(s, r)}) < n}

BugRoundUp(ts) == (ts + SecondLen) - (ts % SecondLen)

(* strftime("%Y-%m-%dT%H:%M:%SZ") of encode_cursor. *)
Truncate(ts) == ts - (ts % SecondLen)

Cursor(ts, ac) == [ts |-> Truncate(ts), ac |-> ac]

BugLastRowAgain(r, cursors) == \A c \in cursors : ~Before(r, c)

(* f.start_ts < cursor_ts OR (f.start_ts = cursor_ts AND f.icao24 < ...) *)
Beyond(r, cursors) == \A c \in cursors : Before(c, r)

BugIgnoreCursor(key) == key.end

(* min(end_date, cursor_ts), so that each page slides back. *)
EffectiveEnd(key) == Min({key.end} \cup {c.ts : c \in key.cursor})

WindowFloor(key) == Max({EffectiveEnd(key) - Window} \cup key.from)

BugFloorExcluded(key) == {r \in table : r.ts > WindowFloor(key) /\ r.ts < key.end}

InWindow(key) == {r \in table : r.ts >= WindowFloor(key) /\ r.ts < key.end}

Candidates(key) == First(InnerLimit, {r \in InWindow(key) : Beyond(r, key.cursor)})

Matching(key) == {r \in Candidates(key) : r.hit}

LastOf(page) == {r \in page : \A s \in page : s = r \/ Before(s, r)}

(* floored_by_start or exhausted_archive. *)
WalkEnds(key, first) ==
    \/ \E t \in key.from : WindowFloor(key) <= t
    \/ first = None \/ \E t \in first : WindowFloor(key) <= t

(* A page that is full leaves a cursor at its last row, one that is not a  *)
(* cursor at the floor of the window, unless the walk ends there.          *)
PageOf(key, first) ==
    LET page    == First(Limit, Matching(key))
        hasMore == Cardinality(Matching(key)) > Limit
        next    == IF hasMore THEN {[ts |-> r.ts, ac |-> r.ac] : r \in LastOf(page)}
                   ELSE IF WalkEnds(key, first) THEN None
                   ELSE {[ts |-> WindowFloor(key), ac |-> 0]}
    IN  [page |-> page, cursor |-> {Cursor(c.ts, c.ac) : c \in next},
         end |-> key.end, cut |-> next]

-----------------------------------------------------------------------------
(* The rows that are in the table when the server starts have been there   *)
(* for longer than anything is cached.                                     *)
Init ==
    /\ table \in Tables
    /\ since = [r \in Rows |-> -(QueryTTL + BoundsTTL)]
    /\ clock = 0
    /\ bounds = None
    /\ cache = {}
    /\ pc = [c \in Clients |-> "idle"]
    /\ request = [c \in Clients |-> NoRequest]
    /\ call = [c \in Clients |-> NoCall]
    /\ answer = [c \in Clients |-> NoAnswer]
    /\ walk = [c \in Clients |-> NoWalk]
    /\ budget = [walks |-> MaxWalks, events |-> MaxEvents]

data  == <<table, since, clock>>
state == <<bounds, cache>>

Goto(c, await) == pc' = [pc EXCEPT ![c] = await]

Tick ==
    /\ clock < MaxTime
    /\ \A c \in Clients : pc[c] = "idle"
    /\ clock' = clock + 1
    /\ UNCHANGED <<table, since, state, pc, request, call, answer, walk, budget>>

(* Batches insert and delete flights; one that is replaced is deleted and  *)
(* inserted.                                                               *)
BatchInserts(r) ==
    /\ r \notin table
    /\ budget.events > 0
    /\ budget' = [budget EXCEPT !.events = @ - 1]
    /\ table' = table \cup {r}
    /\ since' = [since EXCEPT ![r] = clock]
    /\ UNCHANGED <<clock, state, pc, request, call, answer, walk>>

BatchDeletes(r) ==
    /\ r \in table
    /\ budget.events > 0
    /\ budget' = [budget EXCEPT !.events = @ - 1]
    /\ table' = table \ {r}
    /\ UNCHANGED <<since, clock, state, pc, request, call, answer, walk>>

-----------------------------------------------------------------------------
(* A client pages until the cursor is null, repeating the request with the *)
(* cursor of the last response (main.py lines 545-547).                    *)

StartWalk(c, ask) ==
    /\ pc[c] = "idle" /\ walk[c].over
    /\ budget.walks > 0
    /\ budget' = [budget EXCEPT !.walks = @ - 1]
    /\ request' = [request EXCEPT ![c] = [end |-> ask.end, from |-> ask.from, cursor |-> None]]
    /\ walk' = [walk EXCEPT ![c] = [got |-> {}, cut |-> {}, begun |-> clock, over |-> FALSE]]
    /\ UNCHANGED <<data, state, pc, call, answer>>

BugEndAtNewest(last) == IF last = None THEN {Now + clock} ELSE last

(* The end of the walk's window: just past the newest flight, or now.     *)
DefaultEnd(last) == IF last = None THEN {Now + clock} ELSE {t + 1 : t \in last}

(* The key names the window that is searched. *)
KeyOf(asked, last) ==
    [asked EXCEPT !.end = CHOOSE t \in (IF @ = None THEN DefaultEnd(last) ELSE @) : TRUE]

UseBounds(c, b) ==
    /\ call' = [call EXCEPT ![c] = [first |-> b.first, key |-> KeyOf(request[c], b.last)]]
    /\ Goto(c, "lookup")

BoundsFresh == \E b \in bounds : clock - b.at < BoundsTTL

(* A page is asked for, and the cached bounds are used. *)
AskPage(c) ==
    /\ pc[c] = "idle" /\ ~walk[c].over
    /\ BoundsFresh
    /\ \E b \in bounds : UseBounds(c, b)
    /\ UNCHANGED <<data, state, request, answer, walk, budget>>

(* The cached bounds are missing or old. *)
AskPageAndBounds(c) ==
    /\ pc[c] = "idle" /\ ~walk[c].over
    /\ ~BoundsFresh
    /\ Goto(c, "bounds")
    /\ UNCHANGED <<data, state, request, call, answer, walk, budget>>

ReadBounds(c) ==
    /\ pc[c] = "bounds"
    /\ LET starts == {r.ts : r \in table}
           b == [at |-> clock,
                 first |-> {t \in starts : \A s \in starts : t <= s},
                 last  |-> {t \in starts : \A s \in starts : t >= s}]
       IN  bounds' = {b} /\ UseBounds(c, b)
    /\ UNCHANGED <<data, cache, request, answer, walk, budget>>

Cached(key) == {e \in cache : e.key = key /\ clock < e.until}

(* An answer that was cached under this key is given again. *)
CacheHit(c) ==
    /\ pc[c] = "lookup"
    /\ \E e \in Cached(call[c].key) : answer' = [answer EXCEPT ![c] = e.answer]
    /\ Goto(c, "answer")
    /\ UNCHANGED <<data, state, request, call, walk, budget>>

CacheMiss(c) ==
    /\ pc[c] = "lookup"
    /\ Cached(call[c].key) = {}
    /\ Goto(c, "fetch")
    /\ UNCHANGED <<data, state, request, call, answer, walk, budget>>

(* Redis does not answer, or does not take a page, and an older one stays. *)
CacheFails(c) ==
    /\ pc[c] \in {"lookup", "store"}
    /\ budget.events > 0
    /\ budget' = [budget EXCEPT !.events = @ - 1]
    /\ Goto(c, IF pc[c] = "lookup" THEN "fetch" ELSE "answer")
    /\ UNCHANGED <<data, state, request, call, answer, walk>>

FetchPage(c) ==
    /\ pc[c] = "fetch"
    /\ answer' = [answer EXCEPT ![c] = PageOf(call[c].key, call[c].first)]
    /\ Goto(c, "store")
    /\ UNCHANGED <<data, state, request, call, walk, budget>>

(* statement_timeout: the client gets an error, and may ask again. *)
FetchTimesOut(c) ==
    /\ pc[c] = "fetch"
    /\ budget.events > 0
    /\ budget' = [budget EXCEPT !.events = @ - 1]
    /\ call' = [call EXCEPT ![c] = NoCall]
    /\ Goto(c, "idle")
    /\ UNCHANGED <<data, state, request, answer, walk>>

StorePage(c) ==
    /\ pc[c] = "store"
    /\ cache' = {e \in cache : e.key # call[c].key}
                    \cup {[key |-> call[c].key, answer |-> answer[c], until |-> clock + QueryTTL]}
    /\ Goto(c, "answer")
    /\ UNCHANGED <<data, bounds, request, call, answer, walk, budget>>

Receive(c) ==
    /\ pc[c] = "answer"
    /\ walk' = [walk EXCEPT ![c].got = @ \cup answer[c].page,
                            ![c].cut = @ \cup answer[c].cut,
                            ![c].over = answer[c].cursor = None]
    /\ request' = [request EXCEPT ![c].cursor = answer[c].cursor]
    /\ call' = [call EXCEPT ![c] = NoCall]
    /\ answer' = [answer EXCEPT ![c] = NoAnswer]
    /\ Goto(c, "idle")
    /\ UNCHANGED <<data, state, budget>>

RequestStep(c) ==
    \/ AskPage(c) \/ AskPageAndBounds(c) \/ ReadBounds(c) \/ CacheHit(c) \/ CacheMiss(c)
    \/ FetchPage(c) \/ StorePage(c) \/ Receive(c)

Next ==
    \/ Tick
    \/ \E r \in Rows : BatchInserts(r) \/ BatchDeletes(r)
    \/ \E c \in Clients :
          \/ \E ask \in Asks : StartWalk(c, ask)
          \/ RequestStep(c)
          \/ CacheFails(c) \/ FetchTimesOut(c)

Spec == Init /\ [][Next]_vars

(* The server answers, and a client that has begun to page goes on. *)
FairSpec == Spec /\ \A c \in Clients : WF_vars(RequestStep(c))

-----------------------------------------------------------------------------
(* Properties. *)

(* A page lies below everything that the walk has returned before: nothing *)
(* comes twice or out of order, whatever batches, other clients and the    *)
(* caches do between two pages.                                            *)
PagesDescend ==
    \A c \in Clients : pc[c] = "answer" =>
        \A r \in walk[c].got, s \in answer[c].page : Before(r, s)

(* A row counts for a walk when it has been in the table, unchanged, for   *)
(* longer than anything the walk was told could have been cached.          *)
Settled(c) == {r \in table : r.hit /\ since[r] + QueryTTL + BoundsTTL <= walk[c].begun}

Asked(c) ==
    {r \in Settled(c) : /\ \A t \in request[c].end : r.ts < t
                        /\ \A t \in request[c].from : r.ts >= t}

(* When the cursor is null, every flight that was asked for has been       *)
(* returned, except those that lie below the place where a page or window  *)
(* was cut, but not below that place in whole seconds.                     *)
WalkCovers ==
    \A c \in Clients : pc[c] = "idle" /\ walk[c].over /\ walk[c] # NoWalk =>
        \A r \in Asked(c) \ walk[c].got :
            \E cut \in walk[c].cut : Before(cut, r) /\ ~Before(Cursor(cut.ts, cut.ac), r)

(* Paging until the cursor is null ends, at the start of the archive or at *)
(* start_from (tests/test_api/test_query.py lines 1026-1030).              *)
WalkTerminates == \A c \in Clients : []<>(walk[c].over)

(* Who asks without an end_date is answered for a window that reaches past *)
(* every flight that is not newer than the cached bounds, also when the    *)
(* answer itself comes from the result cache (main.py lines 649-651).      *)
DefaultReachesNewest ==
    \A c \in Clients : pc[c] = "answer" /\ request[c].end = None =>
        \A r \in table : since[r] + BoundsTTL <= clock => r.ts < answer[c].end

(* What makes PagesDescend inductive: an answer, cached or not, lies below *)
(* the cursor it was computed for and not below its own, which is no       *)
(* higher; what a walk has got is not below its cursor.                    *)
Fits(asked, a) ==
    /\ \A s \in a.page : Beyond(s, asked.cursor)
    /\ \A n \in a.cursor : /\ \A s \in a.page : ~Before(n, s)
                          /\ \A c \in asked.cursor : ~Before(n, c)

WalkInv(c) ==
    /\ pc[c] # "idle" => ~walk[c].over
    /\ ~walk[c].over /\ request[c].cursor = None => walk[c].got = {}
    /\ \A g \in walk[c].got, at \in request[c].cursor : ~Before(at, g)
    /\ pc[c] \in {"lookup", "fetch", "store"} => call[c].key.cursor = request[c].cursor
    /\ pc[c] \in {"store", "answer"} => Fits(request[c], answer[c])

PagingInv ==
    /\ TypeOK
    /\ \A e \in cache : Fits(e.key, e.answer)
    /\ \A c \in Clients : WalkInv(c)

(* models.py lines 296-303: the cursor covers both kinds of continuation,  *)
(* and null means that there is nothing further back to read.              *)
WalkComplete ==
    \A c \in Clients : pc[c] = "idle" /\ walk[c].over /\ walk[c] # NoWalk =>
        Asked(c) \subseteq walk[c].got
=============================================================================
