-------------------------- MODULE QueryPagingProofs --------------------------
(***************************************************************************)
(* Pages never repeat and never go back, the default end reaches the       *)
(* newest flights, and a walk that ends has covered its window: for every  *)
(* archive, every number of clients and every value of the limits and of   *)
(* the cache lifetimes.  Only the last is about how much a page holds.     *)
(***************************************************************************)
EXTENDS QueryPaging, FiniteSetTheorems, WellFoundedInduction, TLAPS

(* The order of ORDER BY, on rows and cursors. *)
LEMMA BelowCursor ==
    ASSUME NEW g, NEW at, NEW s,
           g.ts \in Int, g.ac \in Int, at.ts \in Int, at.ac \in Int, s.ts \in Int, s.ac \in Int,
           ~Before(at, g), Before(at, s)
    PROVE  Before(g, s)
BY DEF Before

LEMMA NotBelowLowerCursor ==
    ASSUME NEW n, NEW at, NEW g,
           g.ts \in Int, g.ac \in Int, at.ts \in Int, at.ac \in Int, n.ts \in Int, n.ac \in Int,
           ~Before(n, at), ~Before(at, g)
    PROVE  ~Before(n, g)
BY DEF Before

(* A cursor keeps whole seconds, rounded down. *)
LEMMA TruncateDown ==
    ASSUME NEW ts \in Int
    PROVE  Truncate(ts) \in Int /\ Truncate(ts) <= ts
<1>1. SecondLen \in Nat \ {0}
    BY PagingConstants
<1>2. ts % SecondLen \in Int /\ ts % SecondLen >= 0
    BY <1>1, SMT
<1> QED
    BY <1>2 DEF Truncate

LEMMA RowFacts ==
    ASSUME NEW r \in Rows
    PROVE  r.ts \in Int /\ r.ac \in Int /\ r.ac > 0 /\ r.ts >= 0
BY PagingConstants

(* The window ends at the cursor at the latest, and its floor is a         *)
(* window's length below, unless start_from is above that.                 *)
LEMMA WindowBounds ==
    ASSUME NEW key \in Keys
    PROVE  /\ EffectiveEnd(key) \in Int
           /\ \A c \in key.cursor : EffectiveEnd(key) <= c.ts
           /\ EffectiveEnd(key) = key.end \/ \E c \in key.cursor : EffectiveEnd(key) = c.ts
           /\ EffectiveEnd(key) - Window <= WindowFloor(key)
           /\ WindowFloor(key) \in Int
           /\ WindowFloor(key) \in {EffectiveEnd(key) - Window} \cup key.from
<1> DEFINE E == EffectiveEnd(key)
<1>1. /\ key.end \in Int
      /\ key.cursor \in SUBSET Cursors /\ \A t, u \in key.cursor : t = u
      /\ key.from \in SUBSET Nat /\ \A t, u \in key.from : t = u
    BY DEF Keys, Option
<1>2. Window \in Int
    BY PagingConstants
<1>3. /\ E \in Int
      /\ \A c \in key.cursor : E <= c.ts
      /\ E = key.end \/ \E c \in key.cursor : E = c.ts
  <2> DEFINE S == {key.end} \cup {c.ts : c \in key.cursor}
  <2>1. \E x \in S : \A y \in S : x <= y
    <3>1. CASE key.cursor = {}
        BY <1>1, <3>1
    <3>2. CASE key.cursor # {}
      <4>1. PICK c \in key.cursor : TRUE
          BY <3>2
      <4>2. S = {key.end, c.ts} /\ c.ts \in Int
          BY <1>1, <4>1 DEF Cursors
      <4> QED
          BY <1>1, <4>2
    <3> QED
        BY <3>1, <3>2
  <2>2. E \in S /\ \A y \in S : E <= y
      BY <2>1 DEF EffectiveEnd, Min
  <2>3. S \subseteq Int
      BY <1>1 DEF Cursors
  <2> QED
      BY <2>2, <2>3
<1>4. /\ WindowFloor(key) \in Int
      /\ WindowFloor(key) \in {E - Window} \cup key.from
      /\ E - Window <= WindowFloor(key)
  <2> HIDE DEF E
  <2> DEFINE S == {E - Window} \cup key.from
  <2>1. \E x \in S : \A y \in S : x >= y
    <3>1. CASE key.from = {}
        BY <1>2, <1>3, <3>1
    <3>2. CASE key.from # {}
      <4>1. PICK t \in key.from : TRUE
          BY <3>2
      <4>2. S = {E - Window, t} /\ t \in Int
          BY <1>1, <4>1
      <4> QED
          BY <1>2, <1>3, <4>2
    <3> QED
        BY <3>1, <3>2
  <2>2. WindowFloor(key) \in S /\ \A y \in S : WindowFloor(key) >= y
      BY <2>1 DEF WindowFloor, Max, E
  <2>3. S \subseteq Int
      BY <1>1, <1>2, <1>3
  <2> QED
      BY <2>2, <2>3
<1> QED
    BY <1>3, <1>4

(* A page lies below the cursor it was asked for, and above its own: the   *)
(* last row's when the page is full, the window's floor when it is not.    *)
LEMMA PageFits ==
    ASSUME table \subseteq Rows, NEW key \in Keys, NEW first
    PROVE  PageOf(key, first) \in Answers /\ Fits(key, PageOf(key, first))
<1> DEFINE page  == First(Limit, Matching(key))
           floor == [ts |-> WindowFloor(key), ac |-> 0]
           last  == {[ts |-> r.ts, ac |-> r.ac] : r \in LastOf(page)}
           full  == Cardinality(Matching(key)) > Limit
           next  == IF full THEN last ELSE IF WalkEnds(key, first) THEN None ELSE {floor}
<1>1. /\ page \subseteq Rows
      /\ \A s \in page : Beyond(s, key.cursor) /\ s.ts >= WindowFloor(key)
    BY DEF First, Matching, Candidates, InWindow
<1>2. key.cursor \in SUBSET Cursors
    BY DEF Keys, Option
<1>3. next \in Option(Cursors)
  <2>1. \A r, s \in LastOf(page) : r = s
    <3> SUFFICES ASSUME NEW r \in LastOf(page), NEW s \in LastOf(page), r # s
                 PROVE  FALSE
        OBVIOUS
    <3>1. r \in page /\ s \in page /\ Before(s, r) /\ Before(r, s)
        BY DEF LastOf
    <3>2. r \in Rows /\ s \in Rows
        BY <1>1, <3>1
    <3> QED
        BY <3>1, <3>2, RowFacts DEF Before
  <2>2. last \subseteq Cursors
    <3>1. LastOf(page) \subseteq Rows
        BY <1>1 DEF LastOf
    <3> QED
        BY <3>1, PagingConstants DEF Cursors
  <2>3. floor \in Cursors
      BY WindowBounds DEF Cursors
  <2> HIDE DEF page, floor
  <2> QED
      BY <2>1, <2>2, <2>3 DEF Option, None
<1>4. \A n \in next : /\ \A s \in page : ~Before(n, s)
                      /\ \A c \in key.cursor : ~Before(n, c)
  <2>1. CASE full
    <3> SUFFICES ASSUME NEW r \in LastOf(page)
                 PROVE  /\ \A s \in page : ~Before(r, s)
                        /\ \A c \in key.cursor : ~Before(r, c)
        BY <2>1 DEF Before
    <3>1. r \in page /\ r \in Rows /\ Beyond(r, key.cursor)
        BY <1>1 DEF LastOf
    <3>2. \A s \in page : s = r \/ Before(s, r)
        BY DEF LastOf
    <3>3. \A s \in page : ~Before(r, s)
        BY <1>1, <3>1, <3>2, RowFacts DEF Before
    <3>4. \A c \in key.cursor : ~Before(r, c)
        BY <1>2, <3>1, RowFacts DEF Before, Beyond, Cursors
    <3> QED
        BY <3>3, <3>4
  <2>2. CASE ~full /\ ~WalkEnds(key, first)
    <3>1. next = {floor}
        BY <2>2
    <3>2. WindowFloor(key) = EffectiveEnd(key) - Window
      <4>1. ~\E t \in key.from : WindowFloor(key) <= t
          BY <2>2 DEF WalkEnds
      <4>2. WindowFloor(key) \notin key.from
          BY <4>1, WindowBounds
      <4> QED
          BY <4>2, WindowBounds
    <3>3. Window \in Int /\ Window > 0
        BY PagingConstants
    <3>4. \A s \in page : ~Before(floor, s)
        BY <1>1, WindowBounds, RowFacts DEF Before
    <3>5. \A c \in key.cursor : WindowFloor(key) < c.ts
        BY <1>2, <3>2, <3>3, WindowBounds DEF Cursors
    <3>6. \A c \in key.cursor : ~Before(floor, c)
        BY <1>2, <3>5, WindowBounds DEF Before, Cursors
    <3> QED
        BY <3>1, <3>4, <3>6
  <2>3. CASE ~full /\ WalkEnds(key, first)
      BY <2>3 DEF None
  <2> QED
      BY <2>1, <2>2, <2>3
<1> HIDE DEF page, next
<1> DEFINE cursor == {Cursor(c.ts, c.ac) : c \in next}
<1>5. PageOf(key, first) = [page |-> page, cursor |-> cursor, end |-> key.end, cut |-> next]
    BY DEF PageOf, page, next
<1>6. cursor \in Option(Cursors)
  <2>1. \A c \in next : Cursor(c.ts, c.ac) \in Cursors
      BY <1>3, TruncateDown DEF Option, Cursors, Cursor
  <2>2. cursor \subseteq Cursors
      BY <2>1
  <2>3. \A t, u \in next : t = u
      BY <1>3 DEF Option
  <2> QED
      BY <2>2, <2>3 DEF Option
<1>7. \A m \in cursor : /\ \A s \in page : ~Before(m, s)
                        /\ \A c \in key.cursor : ~Before(m, c)
  <2> SUFFICES ASSUME NEW n \in next
               PROVE  /\ \A s \in page : ~Before(Cursor(n.ts, n.ac), s)
                      /\ \A c \in key.cursor : ~Before(Cursor(n.ts, n.ac), c)
      OBVIOUS
  <2>1. n.ts \in Int /\ n.ac \in Int
      BY <1>3 DEF Option, Cursors
  <2>2. /\ Cursor(n.ts, n.ac).ts \in Int /\ Cursor(n.ts, n.ac).ts <= n.ts
        /\ Cursor(n.ts, n.ac).ac = n.ac
      BY <2>1, TruncateDown DEF Cursor
  <2>3. \A s \in page : s.ts \in Int /\ s.ac \in Int
      BY <1>1, RowFacts
  <2>4. \A c \in key.cursor : c.ts \in Int /\ c.ac \in Int
      BY <1>2 DEF Cursors
  <2> QED
      BY <1>4, <2>1, <2>2, <2>3, <2>4 DEF Before
<1>8. key.end \in Nat
    BY DEF Keys
<1> QED
    BY <1>1, <1>3, <1>5, <1>6, <1>7, <1>8 DEF Answers, Fits

-----------------------------------------------------------------------------
(* Nothing of a client's walk changes in another's step. *)
LEMMA WalkInvKept ==
    ASSUME NEW c \in Clients, WalkInv(c),
           pc'[c] = pc[c], walk'[c] = walk[c], request'[c] = request[c],
           call'[c] = call[c], answer'[c] = answer[c]
    PROVE  WalkInv(c)'
BY DEF WalkInv, Fits, Beyond, Before, None

LEMMA InitPagingInv == Init => PagingInv
<1> SUFFICES ASSUME Init PROVE PagingInv
    OBVIOUS
<1>1. None \in Option(Nat) /\ None \in Option(Cursors)
    BY DEF None, Option
<1>2. NoRequest \in Requests /\ NoCall.key \in Keys /\ NoCall \in [first : Option(Nat), key : Keys]
    BY <1>1 DEF NoRequest, NoCall, Requests, Keys
<1>3. NoAnswer \in Answers
    BY <1>1 DEF NoAnswer, Answers
<1>4. TypeOK
    BY <1>1, <1>2, <1>3, PagingConstants DEF TypeOK, Init, NoWalk, None
<1>5. \A c \in Clients : WalkInv(c)
    BY DEF Init, WalkInv, NoWalk, NoRequest, None
<1> QED
    BY <1>4, <1>5 DEF PagingInv, Init

(* The clock and the batches touch no walk and no cached answer. *)
LEMMA WorldKeepsInv ==
    ASSUME PagingInv,
           Tick \/ \E r \in Rows : BatchInserts(r) \/ BatchDeletes(r)
    PROVE  PagingInv'
<1> USE DEF PagingInv
<1>1. UNCHANGED <<cache, pc, request, call, answer, walk>>
    BY DEF Tick, BatchInserts, BatchDeletes, state
<1>2. \A c \in Clients : WalkInv(c)'
    BY <1>1, WalkInvKept
<1>3. \A e \in cache' : Fits(e.key, e.answer)'
    BY <1>1 DEF Fits
<1>4. TypeOK'
  <2>1. CASE Tick
      BY <2>1 DEF TypeOK, Tick, state
  <2>2. ASSUME NEW r \in Rows, BatchInserts(r) PROVE TypeOK'
      BY <2>2 DEF TypeOK, BatchInserts, state
  <2>3. ASSUME NEW r \in Rows, BatchDeletes(r) PROVE TypeOK'
      BY <2>3 DEF TypeOK, BatchDeletes, state
  <2> QED
      BY <2>1, <2>2, <2>3
<1> QED
    BY <1>2, <1>3, <1>4

(* What is left to show of a step of one client: its types and its walk.   *)
LEMMA OneClientMoves ==
    ASSUME PagingInv, NEW c \in Clients,
           \A d \in Clients \ {c} : /\ pc'[d] = pc[d] /\ walk'[d] = walk[d]
                                   /\ request'[d] = request[d] /\ call'[d] = call[d]
                                   /\ answer'[d] = answer[d],
           TypeOK', WalkInv(c)', \A e \in cache' : Fits(e.key, e.answer)
    PROVE  PagingInv'
<1>1. \A d \in Clients \ {c} : WalkInv(d)'
    BY WalkInvKept DEF PagingInv
<1>2. \A e \in cache' : Fits(e.key, e.answer)'
    BY DEF Fits
<1> QED
    BY <1>1, <1>2 DEF PagingInv

LEMMA StartWalkKeepsInv ==
    ASSUME PagingInv, NEW c \in Clients, NEW ask \in Asks, StartWalk(c, ask)
    PROVE  PagingInv'
<1> USE DEF PagingInv, StartWalk
<1>1. None \in Option(Cursors)
    BY DEF None, Option
<1>2. [end |-> ask.end, from |-> ask.from, cursor |-> None] \in Requests
    BY <1>1, PagingConstants DEF Requests
<1>3. TypeOK'
    BY <1>2 DEF TypeOK, data, state
<1>4. WalkInv(c)'
    BY DEF TypeOK, WalkInv, None
<1> QED
    BY <1>3, <1>4, OneClientMoves DEF TypeOK, state

(* A key that names an end_date of its own keeps the request's cursor. *)
LEMMA KeyFacts ==
    ASSUME NEW asked \in Requests, NEW last \in Option(Nat), clock \in Nat
    PROVE  KeyOf(asked, last) \in Keys /\ KeyOf(asked, last).cursor = asked.cursor
<1> DEFINE ends == IF asked.end = None THEN DefaultEnd(last) ELSE asked.end
<1>1. DefaultEnd(last) # {} /\ DefaultEnd(last) \subseteq Nat
  <2>1. CASE last = None
      BY <2>1, PagingConstants DEF DefaultEnd
  <2>2. CASE last # None
    <3>1. DefaultEnd(last) = {t + 1 : t \in last} /\ last \subseteq Nat
        BY <2>2 DEF DefaultEnd, Option
    <3>2. PICK t \in last : TRUE
        BY <2>2 DEF None
    <3>3. t + 1 \in DefaultEnd(last)
        BY <3>1, <3>2
    <3> QED
        BY <3>1, <3>3
  <2> QED
      BY <2>1, <2>2
<1>2. ends # {} /\ ends \subseteq Nat
    BY <1>1 DEF Requests, Option, None
<1>3. (CHOOSE t \in ends : TRUE) \in Nat
    BY <1>2
<1>4. KeyOf(asked, last) = [asked EXCEPT !.end = CHOOSE t \in ends : TRUE]
    BY DEF KeyOf
<1> HIDE DEF ends
<1> QED
    BY <1>3, <1>4 DEF Requests, Keys

LEMMA UseBoundsKeepsInv ==
    ASSUME PagingInv, NEW c \in Clients, ~walk[c].over,
           NEW b \in [at : Nat, first : Option(Nat), last : Option(Nat)],
           UseBounds(c, b), bounds' \subseteq bounds \cup {b},
           UNCHANGED <<data, cache, request, answer, walk, budget>>
    PROVE  PagingInv'
<1> USE DEF PagingInv, UseBounds, Goto, data
<1>1. KeyOf(request[c], b.last) \in Keys /\ KeyOf(request[c], b.last).cursor = request[c].cursor
    BY KeyFacts DEF TypeOK
<1>2. TypeOK'
    BY <1>1 DEF TypeOK
<1>3. WalkInv(c)'
    BY <1>1 DEF TypeOK, WalkInv
<1> QED
    BY <1>2, <1>3, OneClientMoves DEF TypeOK

LEMMA AskPageKeepsInv ==
    ASSUME PagingInv, NEW c \in Clients,
           AskPage(c) \/ AskPageAndBounds(c) \/ ReadBounds(c)
    PROVE  PagingInv'
<1>1. CASE AskPage(c)
    BY <1>1, UseBoundsKeepsInv DEF AskPage, PagingInv, TypeOK, state
<1>2. CASE AskPageAndBounds(c)
  <2> USE <1>2 DEF AskPageAndBounds, Goto, PagingInv
  <2>1. TypeOK'
      BY DEF TypeOK, data, state
  <2>2. WalkInv(c)'
      BY DEF TypeOK, WalkInv, Fits, Beyond, Before, None
  <2> QED
      BY <2>1, <2>2, OneClientMoves DEF TypeOK, state
<1>3. CASE ReadBounds(c)
  <2> DEFINE starts == {r.ts : r \in table}
             b == [at |-> clock,
                   first |-> {t \in starts : \A s \in starts : t <= s},
                   last  |-> {t \in starts : \A s \in starts : t >= s}]
  <2>1. starts \subseteq Nat
      BY PagingConstants DEF PagingInv, TypeOK
  <2>2. b.first \in Option(Nat) /\ b.last \in Option(Nat)
      BY <2>1 DEF Option
  <2>3. b \in [at : Nat, first : Option(Nat), last : Option(Nat)]
      BY <2>2 DEF PagingInv, TypeOK
  <2>4. bounds' = {b} /\ UseBounds(c, b)
      BY <1>3 DEF ReadBounds
  <2>5. ~walk[c].over /\ UNCHANGED <<data, cache, request, answer, walk, budget>>
      BY <1>3 DEF ReadBounds, PagingInv, WalkInv
  <2> HIDE DEF b
  <2> QED
      BY <2>3, <2>4, <2>5, UseBoundsKeepsInv
<1> QED
    BY <1>1, <1>2, <1>3

LEMMA AnswerKeepsInv ==
    ASSUME PagingInv, NEW c \in Clients,
           CacheHit(c) \/ CacheMiss(c) \/ FetchPage(c) \/ FetchTimesOut(c) \/ StorePage(c)
           \/ CacheFails(c)
    PROVE  PagingInv'
<1> USE DEF PagingInv, Goto
<1>1. CASE CacheHit(c)
  <2>1. PICK e \in cache : /\ e.key = call[c].key
                          /\ answer' = [answer EXCEPT ![c] = e.answer]
      BY <1>1 DEF CacheHit, Cached
  <2>2. e.answer \in Answers
      BY DEF TypeOK
  <2>3. TypeOK'
      BY <1>1, <2>1, <2>2 DEF CacheHit, TypeOK, data, state
  <2>4. call[c].key.cursor = request[c].cursor
      BY <1>1 DEF CacheHit, WalkInv
  <2>5. Fits(request[c], e.answer)
      BY <2>1, <2>4 DEF Fits
  <2>6. answer'[c] = e.answer /\ request' = request /\ walk' = walk /\ pc'[c] = "answer"
      BY <1>1, <2>1 DEF CacheHit, TypeOK
  <2>7. Fits(request[c], answer[c])'
      BY <2>5, <2>6 DEF Fits
  <2>8. WalkInv(c)'
      BY <1>1, <2>6, <2>7 DEF CacheHit, WalkInv
  <2> QED
      BY <1>1, <2>1, <2>3, <2>8, OneClientMoves DEF CacheHit, TypeOK, state
<1>2. CASE CacheMiss(c)
  <2>1. TypeOK'
      BY <1>2 DEF CacheMiss, TypeOK, data, state
  <2>2. WalkInv(c)'
      BY <1>2 DEF CacheMiss, TypeOK, WalkInv
  <2> QED
      BY <1>2, <2>1, <2>2, OneClientMoves DEF CacheMiss, TypeOK, state
<1>3. CASE FetchPage(c)
  <2> DEFINE page == PageOf(call[c].key, call[c].first)
  <2>1. page \in Answers /\ Fits(call[c].key, page)
      BY PageFits DEF TypeOK
  <2>2. answer' = [answer EXCEPT ![c] = page]
      BY <1>3 DEF FetchPage
  <2> HIDE DEF page
  <2>3. pc' = [pc EXCEPT ![c] = "store"] /\ pc[c] = "fetch"
        /\ UNCHANGED <<data, state, request, call, walk, budget>>
      BY <1>3 DEF FetchPage
  <2>4. TypeOK'
      BY <2>1, <2>2, <2>3 DEF TypeOK, data, state
  <2>5. Fits(request[c], page)
      BY <2>1, <2>3 DEF Fits, WalkInv
  <2>6. answer'[c] = page /\ request' = request /\ walk' = walk /\ call' = call /\ pc'[c] = "store"
      BY <2>2, <2>3 DEF TypeOK
  <2>7. Fits(request[c], answer[c])'
      BY <2>5, <2>6 DEF Fits
  <2>8. WalkInv(c)'
      BY <2>3, <2>6, <2>7 DEF WalkInv
  <2> QED
      BY <2>2, <2>3, <2>4, <2>8, OneClientMoves DEF TypeOK, state
<1>4. CASE FetchTimesOut(c)
  <2>1. NoCall \in [first : Option(Nat), key : Keys]
      BY DEF NoCall, Keys, Option, None
  <2>2. TypeOK'
      BY <1>4, <2>1 DEF FetchTimesOut, TypeOK, data, state
  <2>3. WalkInv(c)'
      BY <1>4 DEF FetchTimesOut, TypeOK, WalkInv
  <2> QED
      BY <1>4, <2>2, <2>3, OneClientMoves DEF FetchTimesOut, TypeOK, state
<1>5. CASE StorePage(c)
  <2> DEFINE e == [key |-> call[c].key, answer |-> answer[c], until |-> clock + QueryTTL]
  <2>1. cache' \subseteq cache \cup {e}
      BY <1>5 DEF StorePage
  <2>2. e \in [key : Keys, answer : Answers, until : Nat]
      BY PagingConstants DEF TypeOK
  <2>3. Fits(e.key, e.answer)
      BY <1>5 DEF StorePage, WalkInv, Fits
  <2> HIDE DEF e
  <2>4. TypeOK'
      BY <1>5, <2>1, <2>2 DEF StorePage, TypeOK, data
  <2>5. WalkInv(c)'
      BY <1>5 DEF StorePage, TypeOK, WalkInv, Fits, Beyond
  <2> QED
      BY <1>5, <2>1, <2>3, <2>4, <2>5, OneClientMoves DEF StorePage, TypeOK
<1>6. CASE CacheFails(c)
  <2>1. TypeOK'
      BY <1>6 DEF CacheFails, TypeOK, data, state
  <2>2. WalkInv(c)'
      BY <1>6 DEF CacheFails, TypeOK, WalkInv, Fits, Beyond
  <2> QED
      BY <1>6, <2>1, <2>2, OneClientMoves DEF CacheFails, TypeOK, state
<1> QED
    BY <1>1, <1>2, <1>3, <1>4, <1>5, <1>6

(* The rows that a client receives are not below the cursor it receives    *)
(* with them, and what it had got is not either.                           *)
LEMMA ReceiveKeepsInv ==
    ASSUME PagingInv, NEW c \in Clients, Receive(c)
    PROVE  PagingInv'
<1> USE DEF PagingInv, Receive, Goto
<1> DEFINE a == answer[c]
<1>1. a \in Answers /\ NoAnswer \in Answers
      /\ NoCall \in [first : Option(Nat), key : Keys]
    BY DEF TypeOK, NoAnswer, NoCall, Answers, Keys, Option, None
<1>2. a.page \in SUBSET Rows /\ a.cursor \in Option(Cursors) /\ a.cut \in SUBSET Cursors
    BY <1>1 DEF Answers, Option
<1>3. [request[c] EXCEPT !.cursor = a.cursor] \in Requests
  <2>1. request[c] \in Requests
      BY DEF TypeOK
  <2> QED
      BY <1>2, <2>1 DEF Requests
<1>4. TypeOK'
  <2>1. request' \in [Clients -> Requests]
      BY <1>3 DEF TypeOK
  <2>2. walk' \in [Clients -> [got : SUBSET Rows, cut : SUBSET Cursors,
                             begun : Nat, over : BOOLEAN]]
    <3>1. walk[c] \in [got : SUBSET Rows, cut : SUBSET Cursors, begun : Nat, over : BOOLEAN]
        BY DEF TypeOK
    <3>2. (a.cursor = None) \in BOOLEAN
        OBVIOUS
    <3>3. walk'[c] \in [got : SUBSET Rows, cut : SUBSET Cursors, begun : Nat, over : BOOLEAN]
        BY <1>2, <3>1, <3>2 DEF TypeOK
    <3> QED
        BY <3>3 DEF TypeOK
  <2>3. call' \in [Clients -> [first : Option(Nat), key : Keys]] /\ answer' \in [Clients -> Answers]
      BY <1>1 DEF TypeOK
  <2> QED
      BY <2>1, <2>2, <2>3 DEF TypeOK, data, state
<1>5. WalkInv(c)'
  <2>1. /\ walk'[c].got = walk[c].got \cup a.page
        /\ walk'[c].over = (a.cursor = None)
        /\ request'[c].cursor = a.cursor
        /\ pc'[c] = "idle"
      BY DEF TypeOK, Requests
  <2>2. Fits(request[c], a)
      BY DEF WalkInv
  <2>3. \A g \in walk'[c].got, at \in a.cursor : ~Before(at, g)
    <3> SUFFICES ASSUME NEW g \in walk[c].got, NEW n \in a.cursor
                 PROVE  ~Before(n, g)
        BY <2>1, <2>2 DEF Fits
    <3>1. PICK at \in request[c].cursor : TRUE
        BY DEF WalkInv, None
    <3>2. ~Before(at, g) /\ ~Before(n, at)
        BY <2>2, <3>1 DEF WalkInv, Fits
    <3>3. g \in Rows /\ at \in Cursors /\ n \in Cursors
        BY <1>2 DEF TypeOK, Requests, Option
    <3> QED
        BY <3>2, <3>3, RowFacts, NotBelowLowerCursor DEF Cursors
  <2> QED
      BY <2>1, <2>3 DEF WalkInv
<1> QED
    BY <1>4, <1>5, OneClientMoves DEF TypeOK, state

LEMMA NextPagingInv == PagingInv /\ [Next]_vars => PagingInv'
<1> SUFFICES ASSUME PagingInv, [Next]_vars PROVE PagingInv'
    OBVIOUS
<1>1. CASE UNCHANGED vars
    BY <1>1 DEF vars, PagingInv, TypeOK, WalkInv, Fits, Beyond, Before
<1>2. CASE Next
    BY <1>2, WorldKeepsInv, StartWalkKeepsInv, AskPageKeepsInv, AnswerKeepsInv, ReceiveKeepsInv
       DEF Next, RequestStep
<1> QED
    BY <1>1, <1>2

(* Every reachable state has the types of TypeOK, and cursors that fit. *)
THEOREM PagingInvariant == Spec => []PagingInv
<1> QED
    BY InitPagingInv, NextPagingInv, PTL DEF Spec

(* A client that pages is never given a flight twice, or out of order,     *)
(* whatever batches, other clients and the caches do between two pages.    *)
THEOREM PagesNeverRepeat == Spec => []PagesDescend
<1>1. PagingInv => PagesDescend
  <2> SUFFICES ASSUME PagingInv, NEW c \in Clients, pc[c] = "answer",
                      NEW g \in walk[c].got, NEW s \in answer[c].page
               PROVE  Before(g, s)
      BY DEF PagesDescend
  <2>1. PICK at \in request[c].cursor : TRUE
      BY DEF PagingInv, WalkInv, None
  <2>2. Before(at, s) /\ ~Before(at, g)
      BY <2>1 DEF PagingInv, WalkInv, Fits, Beyond
  <2>3. g \in Rows /\ s \in Rows /\ at \in Cursors
      BY DEF PagingInv, TypeOK, Requests, Answers, Option
  <2> QED
      BY <2>2, <2>3, RowFacts, BelowCursor DEF Cursors
<1> QED
    BY <1>1, PagingInvariant, PTL

-----------------------------------------------------------------------------
(* The end of the window.                                                  *)

(* What was in the table long enough before the time at, for the bounds    *)
(* that were cached then to know of it.                                    *)
Old(r, at) == since[r] + BoundsTTL <= at

Knows(first, last, r) ==
    /\ first # None /\ \A t \in first : t <= r.ts
    /\ last # None /\ \A t \in last : r.ts <= t

(* The cursor that is answered is the place of the cut in whole seconds.   *)
Ended(key, a) == a.end = key.end /\ a.cursor = {Cursor(n.ts, n.ac) : n \in a.cut}

(* The key of a request is the request, with an end that lies after every  *)
(* flight that is old enough; so does the answer's.                        *)
EndInv(c) ==
    /\ walk[c].begun <= clock
    /\ pc[c] \in {"lookup", "fetch", "store", "answer"} =>
          /\ call[c].key.from = request[c].from /\ call[c].key.cursor = request[c].cursor
          /\ \A t \in request[c].end : call[c].key.end = t
          /\ request[c].end = None => \A r \in table : Old(r, clock) => r.ts < call[c].key.end
    /\ pc[c] \in {"lookup", "fetch"} =>
          \A r \in table : Old(r, clock) => call[c].first # None /\ \A t \in call[c].first : t <= r.ts
    /\ pc[c] \in {"store", "answer"} => Ended(call[c].key, answer[c])

BoundsInv ==
    /\ \A b, d \in bounds : b = d
    /\ \A b \in bounds : b.at <= clock /\ \A r \in table : since[r] < b.at => Knows(b.first, b.last, r)
    /\ \A e \in cache : Ended(e.key, e.answer) /\ e.until <= clock + QueryTTL
    /\ \A c \in Clients : EndInv(c)

(* What a key takes from its request, and where it ends when the request   *)
(* names no end.                                                           *)
LEMMA KeyParts ==
    ASSUME NEW asked \in Requests, NEW last \in Option(Nat), clock \in Nat
    PROVE  /\ KeyOf(asked, last).from = asked.from /\ KeyOf(asked, last).cursor = asked.cursor
           /\ \A t \in asked.end : KeyOf(asked, last).end = t
           /\ asked.end = None /\ last # None => \E t \in last : KeyOf(asked, last).end = t + 1
<1> DEFINE ends == IF asked.end = None THEN DefaultEnd(last) ELSE asked.end
           end == CHOOSE t \in ends : TRUE
<1>1. KeyOf(asked, last) = [asked EXCEPT !.end = end]
    BY DEF KeyOf
<1>2. asked = [end |-> asked.end, from |-> asked.from, cursor |-> asked.cursor]
    BY DEF Requests
<1>3. asked.end # None => end \in asked.end
    BY DEF None
<1>4. \A t \in asked.end : end = t
    BY <1>3 DEF Requests, Option, None
<1>5. ASSUME asked.end = None, last # None PROVE \E t \in last : end = t + 1
  <2>1. ends = {t + 1 : t \in last}
      BY <1>5 DEF DefaultEnd
  <2>2. PICK t \in last : TRUE
      BY <1>5 DEF None
  <2>3. t + 1 \in ends
      BY <2>1, <2>2
  <2> QED
      BY <2>1, <2>3
<1> HIDE DEF end
<1>6. /\ KeyOf(asked, last).from = asked.from /\ KeyOf(asked, last).cursor = asked.cursor
      /\ KeyOf(asked, last).end = end
    BY <1>1, <1>2
<1> QED
    BY <1>4, <1>5, <1>6

(* A set of times that has a bound has an end, at either side. *)
LEMMA OldestExists ==
    ASSUME NEW S \in SUBSET Nat, S # {}
    PROVE  \E t \in S : \A u \in S : t <= u
<1> DEFINE less == {e \in Nat \X Nat : e[1] < e[2]}
<1>1. IsWellFoundedOn(less, Nat)
    BY NatLessThanWellFounded DEF OpToRel
<1>2. PICK t \in S : \A u \in S : ~(<<u, t>> \in less)
  <2> HIDE DEF less
  <2> QED
      BY <1>1, WFMin
<1>3. ASSUME NEW u \in S PROVE t <= u
  <2>1. u \in Nat /\ t \in Nat
      OBVIOUS
  <2>2. ~(u < t)
      BY <1>2, <2>1
  <2> QED
      BY <2>1, <2>2
<1> QED
    BY <1>3

LEMMA NewestExists ==
    ASSUME NEW S \in SUBSET Nat, S # {}, NEW top \in Nat, \A t \in S : t < top
    PROVE  \E t \in S : \A u \in S : u <= t
<1> DEFINE downs == {top - t : t \in S}
<1>1. downs \in SUBSET Nat /\ downs # {}
  <2>1. \A t \in S : t \in Nat /\ t < top /\ top - t \in Nat
      OBVIOUS
  <2> QED
      BY <2>1
<1>2. PICK d \in downs : \A e \in downs : d <= e
  <2> HIDE DEF downs
  <2> QED
      BY <1>1, OldestExists
<1>3. PICK t \in S : d = top - t
    OBVIOUS
<1>4. ASSUME NEW u \in S PROVE u <= t
  <2>1. top - u \in downs /\ u \in Nat /\ t \in Nat
      OBVIOUS
  <2>2. top - t <= top - u
      BY <1>2, <1>3, <2>1
  <2> QED
      BY <2>1, <2>2
<1> QED
    BY <1>4

(* What a read of the bounds knows of every row of the table. *)
LEMMA BoundsKnow ==
    ASSUME table \subseteq Rows, NEW r \in table,
           NEW starts, \A t : t \in starts <=> \E s \in table : t = s.ts,
           NEW first, \A t : t \in first <=> t \in starts /\ \A s \in starts : t <= s,
           NEW last, \A t : t \in last <=> t \in starts /\ \A s \in starts : t >= s
    PROVE  Knows(first, last, r)
<1>1. starts \in SUBSET Nat /\ r.ts \in starts
    BY PagingConstants
<1>2. \A t \in starts : t < Now
    BY PagingConstants
<1>3. \E t \in starts : \A u \in starts : t <= u
    BY <1>1, OldestExists
<1>4. \E t \in starts : \A u \in starts : u <= t
    BY <1>1, <1>2, NewestExists, PagingConstants
<1>5. first # {} /\ last # {}
    BY <1>1, <1>3, <1>4
<1>6. /\ \A t \in first : t <= r.ts
      /\ \A t \in last : r.ts <= t
    BY <1>1
<1> QED
    BY <1>5, <1>6 DEF Knows, None

(* What a step that leaves the table alone has to show. *)
LEMMA EndKept ==
    ASSUME NEW c \in Clients, EndInv(c), UNCHANGED <<table, since, clock>>,
           pc'[c] = pc[c], walk'[c] = walk[c], request'[c] = request[c],
           call'[c] = call[c], answer'[c] = answer[c]
    PROVE  EndInv(c)'
BY DEF EndInv, Old, Ended

LEMMA OneEndMoves ==
    ASSUME BoundsInv, NEW c \in Clients, UNCHANGED <<table, since, clock>>,
           \A d \in Clients \ {c} : /\ pc'[d] = pc[d] /\ walk'[d] = walk[d]
                                   /\ request'[d] = request[d] /\ call'[d] = call[d]
                                   /\ answer'[d] = answer[d],
           \A b, d \in bounds' : b = d,
           \A b \in bounds' : /\ b.at <= clock
                              /\ \A r \in table : since[r] < b.at => Knows(b.first, b.last, r),
           \A e \in cache' : Ended(e.key, e.answer) /\ e.until <= clock + QueryTTL,
           EndInv(c)'
    PROVE  BoundsInv'
<1>1. \A d \in Clients \ {c} : EndInv(d)'
    BY EndKept DEF BoundsInv
<1>2. \A b \in bounds' : /\ b.at <= clock
                        /\ \A r \in table : since[r] < b.at => Knows(b.first, b.last, r)
    OBVIOUS
<1>3. \A b \in bounds' : /\ b.at <= clock'
                        /\ \A r \in table' : since'[r] < b.at => Knows(b.first, b.last, r)'
    BY <1>2 DEF Knows
<1>4. \A e \in cache' : Ended(e.key, e.answer)' /\ e.until <= clock' + QueryTTL
    BY DEF Ended
<1> QED
    BY <1>1, <1>3, <1>4 DEF BoundsInv

(* Every row of the table was there before, or comes now. *)
LEMMA TableGrows ==
    ASSUME PagingInv,
           Tick \/ \E r \in Rows : BatchInserts(r) \/ BatchDeletes(r)
    PROVE  \A r \in table' : since'[r] = clock \/ (r \in table /\ since'[r] = since[r])
<1>1. CASE Tick
    BY <1>1 DEF Tick
<1>2. ASSUME NEW s \in Rows, BatchInserts(s)
      PROVE  \A r \in table' : since'[r] = clock \/ (r \in table /\ since'[r] = since[r])
  <2>1. since \in [Rows -> Int] /\ table \subseteq Rows
      BY DEF PagingInv, TypeOK
  <2>2. table' = table \cup {s} /\ since' = [since EXCEPT ![s] = clock]
      BY <1>2 DEF BatchInserts
  <2> QED
      BY <2>1, <2>2
<1>3. ASSUME NEW s \in Rows, BatchDeletes(s)
      PROVE  \A r \in table' : since'[r] = clock \/ (r \in table /\ since'[r] = since[r])
  <2>1. table' = table \ {s} /\ since' = since
      BY <1>3 DEF BatchDeletes
  <2> QED
      BY <2>1
<1> QED
    BY <1>1, <1>2, <1>3

LEMMA WorldKeepsEnds ==
    ASSUME PagingInv, BoundsInv,
           Tick \/ \E r \in Rows : BatchInserts(r) \/ BatchDeletes(r)
    PROVE  BoundsInv'
<1>1. UNCHANGED <<bounds, cache, pc, request, call, answer, walk>>
    BY DEF Tick, BatchInserts, BatchDeletes, state
<1>2. clock \in Nat /\ clock' \in Nat /\ clock <= clock'
    BY DEF PagingInv, TypeOK, Tick, BatchInserts, BatchDeletes
<1>3. \A b \in bounds : b.at \in Nat
    BY DEF PagingInv, TypeOK
<1>4. \A r \in table' : since'[r] = clock \/ (r \in table /\ since'[r] = since[r])
    BY TableGrows
<1>5. \A e \in cache : e.until \in Nat /\ Ended(e.key, e.answer)' /\ e.until <= clock' + QueryTTL
    BY <1>2, PagingConstants DEF BoundsInv, Ended, PagingInv, TypeOK
<1>6. \A b \in bounds : /\ b.at <= clock'
                       /\ \A r \in table' : since'[r] < b.at => Knows(b.first, b.last, r)'
    BY <1>2, <1>3, <1>4 DEF BoundsInv, Knows
<1>7. ASSUME NEW c \in Clients PROVE EndInv(c)'
  <2>1. walk[c].begun \in Nat /\ walk[c].begun <= clock'
      BY <1>2 DEF BoundsInv, EndInv, PagingInv, TypeOK
  <2>2. CASE pc[c] = "idle"
      BY <1>1, <2>1, <2>2 DEF EndInv
  <2>3. CASE pc[c] # "idle"
    <3>1. clock' = clock
        BY <2>3 DEF Tick, BatchInserts, BatchDeletes
    <3>2. \A r \in table' : Old(r, clock)' => r \in table /\ Old(r, clock)
        BY <1>2, <1>4, <3>1, PagingConstants DEF Old
    <3>3. EndInv(c)
        BY DEF BoundsInv
    <3>4. pc[c] \in {"lookup", "fetch", "store", "answer"} =>
             /\ call[c].key.from = request[c].from /\ call[c].key.cursor = request[c].cursor
             /\ \A t \in request[c].end : call[c].key.end = t
             /\ request[c].end = None =>
                   \A r \in table' : Old(r, clock)' => r.ts < call[c].key.end
        BY <3>2, <3>3 DEF EndInv
    <3>5. pc[c] \in {"lookup", "fetch"} =>
             \A r \in table' : Old(r, clock)' =>
                call[c].first # None /\ \A t \in call[c].first : t <= r.ts
        BY <3>2, <3>3 DEF EndInv
    <3>6. pc[c] \in {"store", "answer"} => Ended(call[c].key, answer[c])'
        BY <1>1, <3>3 DEF EndInv, Ended
    <3> QED
        BY <1>1, <2>1, <3>4, <3>5, <3>6 DEF EndInv
  <2> QED
      BY <2>2, <2>3
<1> QED
    BY <1>1, <1>5, <1>6, <1>7 DEF BoundsInv

(* The bounds that a request uses, cached or just read, know of every row  *)
(* that is old enough; so the end of its window lies after it.             *)
LEMMA UseBoundsEnds ==
    ASSUME PagingInv, BoundsInv, NEW c \in Clients,
           NEW b \in [at : Nat, first : Option(Nat), last : Option(Nat)],
           \A r \in table : Old(r, clock) => Knows(b.first, b.last, r),
           UseBounds(c, b), UNCHANGED <<table, since, clock, walk, request, answer>>
    PROVE  EndInv(c)'
<1> DEFINE key == KeyOf(request[c], b.last)
<1>1. pc'[c] = "lookup" /\ call'[c].first = b.first /\ call'[c].key = key
    BY DEF UseBounds, Goto, PagingInv, TypeOK
<1>2. /\ key.from = request[c].from /\ key.cursor = request[c].cursor
      /\ \A t \in request[c].end : key.end = t
      /\ request[c].end = None /\ b.last # None => \E t \in b.last : key.end = t + 1
    BY KeyParts DEF PagingInv, TypeOK
<1> HIDE DEF key
<1>3. ASSUME request[c].end = None, NEW r \in table, Old(r, clock) PROVE r.ts < key.end
  <2>1. b.last # None /\ \A t \in b.last : r.ts <= t
      BY <1>3 DEF Knows
  <2>2. PICK t \in b.last : key.end = t + 1
      BY <1>2, <1>3, <2>1
  <2>3. t \in Nat /\ r.ts \in Int /\ r.ts <= t
      BY <2>1, RowFacts DEF Option, PagingInv, TypeOK
  <2> QED
      BY <2>2, <2>3
<1>4. \A r \in table : Old(r, clock) => b.first # None /\ \A t \in b.first : t <= r.ts
    BY DEF Knows
<1>5. walk[c].begun <= clock
    BY DEF BoundsInv, EndInv
<1>6. /\ walk'[c].begun <= clock'
      /\ call'[c].key.from = request'[c].from /\ call'[c].key.cursor = request'[c].cursor
      /\ \A t \in request'[c].end : call'[c].key.end = t
    BY <1>1, <1>2, <1>5
<1>7. request'[c].end = None => \A r \in table' : Old(r, clock)' => r.ts < call'[c].key.end
    BY <1>1, <1>3 DEF Old
<1>8. \A r \in table' : Old(r, clock)' =>
         call'[c].first # None /\ \A t \in call'[c].first : t <= r.ts
    BY <1>1, <1>4 DEF Old
<1> QED
    BY <1>1, <1>6, <1>7, <1>8 DEF EndInv

LEMMA AskPageEnds ==
    ASSUME PagingInv, BoundsInv, NEW c \in Clients,
           AskPage(c) \/ AskPageAndBounds(c) \/ ReadBounds(c)
    PROVE  BoundsInv'
<1>1. CASE AskPage(c)
  <2>1. PICK b \in bounds : clock - b.at < BoundsTTL /\ UseBounds(c, b)
      BY <1>1 DEF AskPage, BoundsFresh, BoundsInv
  <2>2. UNCHANGED <<table, since, clock, bounds, cache, request, answer, walk>>
      BY <1>1 DEF AskPage, data, state
  <2>3. b \in [at : Nat, first : Option(Nat), last : Option(Nat)]
      BY DEF PagingInv, TypeOK
  <2>4. \A r \in table : Old(r, clock) => since[r] < b.at
      BY <2>1, <2>3, PagingConstants DEF Old, PagingInv, TypeOK
  <2>5. \A r \in table : Old(r, clock) => Knows(b.first, b.last, r)
      BY <2>4 DEF BoundsInv
  <2>6. EndInv(c)'
      BY <2>1, <2>2, <2>3, <2>5, UseBoundsEnds
  <2> QED
      BY <2>1, <2>2, <2>6, OneEndMoves DEF UseBounds, Goto, BoundsInv, PagingInv, TypeOK
<1>2. CASE AskPageAndBounds(c)
  <2>1. UNCHANGED <<table, since, clock, bounds, cache, request, call, answer, walk>>
      BY <1>2 DEF AskPageAndBounds, data, state
  <2>2. pc' = [pc EXCEPT ![c] = "bounds"]
      BY <1>2 DEF AskPageAndBounds, Goto
  <2>3. EndInv(c)'
      BY <2>1, <2>2 DEF BoundsInv, EndInv, PagingInv, TypeOK
  <2> QED
      BY <2>1, <2>2, <2>3, OneEndMoves DEF BoundsInv, PagingInv, TypeOK
<1>3. CASE ReadBounds(c)
  <2> DEFINE starts == {r.ts : r \in table}
             b == [at |-> clock,
                   first |-> {t \in starts : \A s \in starts : t <= s},
                   last  |-> {t \in starts : \A s \in starts : t >= s}]
  <2>1. starts \subseteq Nat
      BY PagingConstants DEF PagingInv, TypeOK
  <2>2. b \in [at : Nat, first : Option(Nat), last : Option(Nat)]
    <3> HIDE DEF starts
    <3>1. b.first \in Option(Nat) /\ b.last \in Option(Nat)
      <4>1. b.first \subseteq starts /\ b.last \subseteq starts
          OBVIOUS
      <4>2. \A t, u \in b.first : t <= u /\ u <= t
          OBVIOUS
      <4>3. \A t, u \in b.last : t <= u /\ u <= t
          OBVIOUS
      <4> HIDE DEF b
      <4>4. \A t \in Nat, u \in Nat : t <= u /\ u <= t => t = u
          OBVIOUS
      <4> QED
          BY <2>1, <4>1, <4>2, <4>3, <4>4 DEF Option
    <3> QED
        BY <3>1 DEF PagingInv, TypeOK
  <2>3. \A r \in table : Knows(b.first, b.last, r)
    <3>1. \A t : t \in starts <=> \E s \in table : t = s.ts
        OBVIOUS
    <3>2. table \subseteq Rows
        BY DEF PagingInv, TypeOK
    <3> HIDE DEF starts
    <3>3. /\ \A t : t \in b.first <=> t \in starts /\ \A s \in starts : t <= s
          /\ \A t : t \in b.last <=> t \in starts /\ \A s \in starts : t >= s
        OBVIOUS
    <3> HIDE DEF b
    <3> QED
        BY <3>1, <3>2, <3>3, BoundsKnow
  <2>4. bounds' = {b} /\ UseBounds(c, b)
      BY <1>3 DEF ReadBounds
  <2>5. UNCHANGED <<table, since, clock, cache, request, answer, walk>>
      BY <1>3 DEF ReadBounds, data
  <2>6. b.at = clock
      OBVIOUS
  <2> HIDE DEF b
  <2>7. EndInv(c)'
      BY <2>2, <2>3, <2>4, <2>5, UseBoundsEnds
  <2>8. clock \in Nat /\ \A e \in bounds' : e = b
      BY <2>4 DEF PagingInv, TypeOK
  <2> QED
      BY <2>3, <2>4, <2>5, <2>6, <2>7, <2>8, OneEndMoves
         DEF UseBounds, Goto, BoundsInv, PagingInv, TypeOK
<1> QED
    BY <1>1, <1>2, <1>3

LEMMA PageEnded ==
    ASSUME NEW key, NEW first
    PROVE  Ended(key, PageOf(key, first))
BY DEF PageOf, Ended

LEMMA AnswerEnds ==
    ASSUME PagingInv, BoundsInv, NEW c \in Clients,
           CacheHit(c) \/ CacheMiss(c) \/ FetchPage(c) \/ FetchTimesOut(c) \/ StorePage(c)
           \/ CacheFails(c)
    PROVE  BoundsInv'
<1>1. EndInv(c) /\ walk[c].begun <= clock /\ c \in DOMAIN pc /\ c \in DOMAIN answer
    BY DEF BoundsInv, EndInv, PagingInv, TypeOK
<1>2. UNCHANGED <<table, since, clock, bounds, request, walk>>
    BY DEF CacheHit, CacheMiss, FetchPage, FetchTimesOut, StorePage, CacheFails, data, state
<1>3. \A d \in Clients \ {c} : /\ pc'[d] = pc[d] /\ call'[d] = call[d] /\ answer'[d] = answer[d]
  <2>1. /\ pc \in [Clients -> {"idle", "bounds", "lookup", "fetch", "store", "answer"}]
        /\ call \in [Clients -> [first : Option(Nat), key : Keys]]
        /\ answer \in [Clients -> Answers]
      BY DEF PagingInv, TypeOK
  <2> QED
      BY <2>1 DEF CacheHit, CacheMiss, FetchPage, FetchTimesOut, StorePage, CacheFails, Goto
<1>4. \A e \in cache' : Ended(e.key, e.answer) /\ e.until <= clock + QueryTTL
  <2>1. CASE StorePage(c)
    <3> DEFINE e == [key |-> call[c].key, answer |-> answer[c], until |-> clock + QueryTTL]
    <3>1. cache' \subseteq cache \cup {e}
        BY <2>1 DEF StorePage
    <3>2. e.key = call[c].key /\ e.answer = answer[c] /\ e.until = clock + QueryTTL
        OBVIOUS
    <3> HIDE DEF e
    <3>3. Ended(e.key, e.answer) /\ e.until <= clock + QueryTTL
      <4>1. clock + QueryTTL \in Nat
          BY PagingConstants DEF PagingInv, TypeOK
      <4> QED
          BY <1>1, <2>1, <3>2, <4>1 DEF StorePage, EndInv
    <3> QED
        BY <3>1, <3>3 DEF BoundsInv
  <2>2. CASE ~StorePage(c)
    <3>1. cache' = cache
        BY <2>2 DEF CacheHit, CacheMiss, FetchPage, FetchTimesOut, CacheFails, state
    <3> QED
        BY <3>1 DEF BoundsInv
  <2> QED
      BY <2>1, <2>2
<1>5. EndInv(c)'
  <2>1. CASE FetchTimesOut(c)
    <3>1. pc'[c] = "idle"
        BY <1>1, <2>1 DEF FetchTimesOut, Goto
    <3> QED
        BY <1>1, <1>2, <3>1 DEF EndInv
  <2>2. CASE CacheHit(c)
    <3>1. PICK e \in cache : e.key = call[c].key /\ answer' = [answer EXCEPT ![c] = e.answer]
        BY <2>2 DEF CacheHit, Cached
    <3>2. answer'[c] = e.answer
        BY <1>1, <3>1
    <3>3. pc[c] = "lookup" /\ pc'[c] = "answer" /\ call' = call
        BY <1>1, <2>2 DEF CacheHit, Goto
    <3>4. Ended(call[c].key, answer[c])'
        BY <3>1, <3>2, <3>3 DEF BoundsInv, Ended
    <3> QED
        BY <1>1, <1>2, <3>3, <3>4 DEF EndInv, Old
  <2>3. CASE FetchPage(c)
    <3> DEFINE page == PageOf(call[c].key, call[c].first)
    <3>1. answer' = [answer EXCEPT ![c] = page]
        BY <2>3 DEF FetchPage
    <3>2. Ended(call[c].key, page)
        BY PageEnded
    <3> HIDE DEF page
    <3>3. answer'[c] = page
        BY <1>1, <3>1
    <3>4. pc[c] = "fetch" /\ pc'[c] = "store" /\ call' = call
        BY <1>1, <2>3 DEF FetchPage, Goto
    <3>5. Ended(call[c].key, answer[c])'
        BY <3>2, <3>3, <3>4 DEF Ended
    <3> QED
        BY <1>1, <1>2, <3>4, <3>5 DEF EndInv, Old
  <2>4. CASE CacheMiss(c) \/ StorePage(c) \/ CacheFails(c)
    <3>1. call' = call /\ answer' = answer
        BY <2>4 DEF CacheMiss, StorePage, CacheFails
    <3>2. \/ pc[c] = "lookup" /\ pc'[c] = "fetch"
          \/ pc[c] = "store" /\ pc'[c] = "answer"
        BY <1>1, <2>4 DEF CacheMiss, StorePage, CacheFails, Goto
    <3> QED
        BY <1>1, <1>2, <3>1, <3>2 DEF EndInv, Old, Ended
  <2> QED
      BY <2>1, <2>2, <2>3, <2>4
<1> QED
    BY <1>2, <1>3, <1>4, <1>5, OneEndMoves DEF BoundsInv

LEMMA WalkEndsKept ==
    ASSUME PagingInv, BoundsInv, NEW c \in Clients,
           Receive(c) \/ \E ask \in Asks : StartWalk(c, ask)
    PROVE  BoundsInv'
<1>1. UNCHANGED <<table, since, clock, bounds, cache>>
    BY DEF Receive, StartWalk, data, state
<1>2. /\ pc \in [Clients -> {"idle", "bounds", "lookup", "fetch", "store", "answer"}]
      /\ call \in [Clients -> [first : Option(Nat), key : Keys]]
      /\ answer \in [Clients -> Answers] /\ request \in [Clients -> Requests]
      /\ walk \in [Clients -> [got : SUBSET Rows, cut : SUBSET Cursors, begun : Nat, over : BOOLEAN]]
      /\ clock \in Nat
    BY DEF PagingInv, TypeOK
<1>3. \A d \in Clients \ {c} : /\ pc'[d] = pc[d] /\ walk'[d] = walk[d]
                              /\ request'[d] = request[d] /\ call'[d] = call[d]
                              /\ answer'[d] = answer[d]
    BY <1>2 DEF Receive, StartWalk, Goto
<1>4. pc'[c] = "idle"
    BY <1>2 DEF Receive, StartWalk, Goto
<1>5. walk'[c].begun <= clock
  <2>1. walk[c].begun <= clock
      BY DEF BoundsInv, EndInv
  <2>2. CASE Receive(c)
    <3>1. walk'[c].begun = walk[c].begun
        BY <1>2, <2>2 DEF Receive
    <3> QED
        BY <2>1, <3>1
  <2>3. CASE \E ask \in Asks : StartWalk(c, ask)
      BY <1>2, <2>3 DEF StartWalk
  <2> QED
      BY <2>2, <2>3
<1>6. EndInv(c)'
    BY <1>1, <1>4, <1>5 DEF EndInv
<1> QED
    BY <1>1, <1>3, <1>6, OneEndMoves DEF BoundsInv

LEMMA BoundsInvStep == PagingInv /\ BoundsInv /\ [Next]_vars => BoundsInv'
<1> SUFFICES ASSUME PagingInv, BoundsInv, [Next]_vars PROVE BoundsInv'
    OBVIOUS
<1>1. CASE UNCHANGED vars
    BY <1>1 DEF vars, BoundsInv, EndInv, Ended, Knows, Old
<1>2. CASE Next
    BY <1>2, WorldKeepsEnds, AskPageEnds, AnswerEnds, WalkEndsKept DEF Next, RequestStep
<1> QED
    BY <1>1, <1>2

LEMMA BoundsInvHolds == Spec => []BoundsInv
<1>1. Init => BoundsInv
  <2> SUFFICES ASSUME Init PROVE BoundsInv
      OBVIOUS
  <2>1. bounds = {} /\ cache = {}
      BY DEF Init, None
  <2>2. \A c \in Clients : pc[c] = "idle" /\ walk[c].begun = 0 /\ clock = 0
      BY DEF Init, NoWalk
  <2> QED
      BY <2>1, <2>2 DEF BoundsInv, EndInv
<1> QED
    BY <1>1, BoundsInvStep, PagingInvariant, PTL DEF Spec

(* A client that asks without an end_date is answered for a window that    *)
(* reaches past every flight that is older than the cached bounds can be,  *)
(* also when the answer is a cached one: the key of the result cache has   *)
(* the end that the bounds gave, so that new bounds miss what was cached   *)
(* under old ones.                                                         *)
THEOREM DefaultReachesAll == Spec => []DefaultReachesNewest
<1>1. PagingInv /\ BoundsInv => DefaultReachesNewest
  <2> SUFFICES ASSUME PagingInv, BoundsInv, NEW c \in Clients, pc[c] = "answer",
                      request[c].end = None, NEW r \in table, since[r] + BoundsTTL <= clock
               PROVE  r.ts < answer[c].end
      BY DEF DefaultReachesNewest
  <2>1. EndInv(c)
      BY DEF BoundsInv
  <2>2. r.ts < call[c].key.end /\ answer[c].end = call[c].key.end
      BY <2>1 DEF EndInv, Ended, Old
  <2> QED
      BY <2>2
<1> QED
    BY <1>1, PagingInvariant, BoundsInvHolds, PTL

-----------------------------------------------------------------------------
(* What a walk returns.                                                    *)

(* An answer has the row, if it is one for its request, or its cursor is   *)
(* above the row.                                                          *)
Covered(key, a, r) ==
    r.hit /\ r.ts < key.end /\ (\A t \in key.from : t <= r.ts) /\ Beyond(r, key.cursor) =>
        r \in a.page \/ \E n \in a.cut : Before(n, r)

(* A walk has got the row, or has not come to it, or a cursor has lost it. *)
Reached(c, r) ==
    \/ r \in walk[c].got
    \/ ~walk[c].over /\ Beyond(r, request[c].cursor)
    \/ \E cut \in walk[c].cut : Before(cut, r) /\ ~Before(Cursor(cut.ts, cut.ac), r)

CoverInv(c) ==
    /\ pc[c] = "store" => \A r \in table : Old(r, clock) => Covered(call[c].key, answer[c], r)
    /\ pc[c] \in {"store", "answer"} => \A r \in Asked(c) : Covered(call[c].key, answer[c], r)
    /\ walk[c] # NoWalk => \A r \in Asked(c) : Reached(c, r)

CoversInv ==
    /\ \A e \in cache, r \in table : Old(r, e.until - QueryTTL) => Covered(e.key, e.answer, r)
    /\ \A c \in Clients : CoverInv(c)

(* How many rows of a set come before a row. *)
Rank(r, S) == Cardinality({s \in S : Before(s, r)})

(* No window holds more rows than the inner query reads: a row beyond that *)
(* limit is on no page (INNER_SUBQUERY_LIMIT, query/compiler.py).          *)
RowsFit ==
    /\ IsFiniteSet(Rows)
    /\ \A t \in Int : Cardinality({r \in Rows : t <= r.ts /\ r.ts <= t + Window}) <= InnerLimit

LEMMA RankGrows ==
    ASSUME NEW S \in SUBSET Rows, IsFiniteSet(S), NEW r \in S, NEW s \in S, Before(r, s)
    PROVE  Rank(r, S) \in Nat /\ Rank(s, S) \in Nat /\ Rank(r, S) < Rank(s, S)
<1> DEFINE aboveR == {u \in S : Before(u, r)}
           aboveS == {u \in S : Before(u, s)}
<1>1. IsFiniteSet(aboveR) /\ IsFiniteSet(aboveS)
    BY FS_Subset
<1>2. Cardinality(aboveR) \in Nat /\ Cardinality(aboveS) \in Nat
    BY <1>1, FS_CardinalityType
<1>3. aboveR \in SUBSET aboveS
  <2>1. ASSUME NEW u \in S, Before(u, r) PROVE Before(u, s)
      BY <2>1, RowFacts DEF Before
  <2> QED
      BY <2>1
<1>4. r \in aboveS /\ r \notin aboveR
    BY RowFacts DEF Before
<1>5. Cardinality(aboveR) <= Cardinality(aboveS) /\ Cardinality(aboveR) # Cardinality(aboveS)
  <2> HIDE DEF aboveR, aboveS
  <2> QED
      BY <1>1, <1>3, <1>4, FS_Subset
<1> HIDE DEF aboveR, aboveS
<1>6. Cardinality(aboveR) < Cardinality(aboveS)
    BY <1>2, <1>5
<1> QED
    BY <1>2, <1>6 DEF Rank, aboveR, aboveS

(* LIMIT leaves a set alone that is not larger. *)
LEMMA FirstOfFew ==
    ASSUME NEW S \in SUBSET Rows, IsFiniteSet(S), NEW n \in Nat, Cardinality(S) <= n
    PROVE  First(n, S) = S
<1>1. SUFFICES ASSUME NEW r \in S PROVE Cardinality({s \in S : Before(s, r)}) < n
    BY DEF First
<1> DEFINE above == {s \in S : Before(s, r)}
<1>2. above \in SUBSET (S \ {r})
    BY RowFacts DEF Before
<1>3. IsFiniteSet(S \ {r}) /\ Cardinality(S \ {r}) = Cardinality(S) - 1 /\ Cardinality(S) \in Nat
    BY FS_RemoveElement, FS_CardinalityType
<1> HIDE DEF above
<1>4. IsFiniteSet(above) /\ Cardinality(above) <= Cardinality(S \ {r})
    BY <1>2, <1>3, FS_Subset
<1>5. Cardinality(above) \in Nat
    BY <1>4, FS_CardinalityType
<1>6. Cardinality(above) < n
    BY <1>3, <1>4, <1>5
<1> QED
    BY <1>6 DEF above

(* Rows that the outer predicate accepts differ in their start or aircraft. *)
LEMMA HitsAreOrdered ==
    ASSUME NEW r \in Rows, NEW s \in Rows, r.hit, s.hit, r # s
    PROVE  Before(r, s) \/ Before(s, r)
<1>1. r.hit = TRUE /\ s.hit = TRUE
    BY PagingConstants
<1>2. r = [ts |-> r.ts, ac |-> r.ac, hit |-> r.hit] /\ s = [ts |-> s.ts, ac |-> s.ac, hit |-> s.hit]
    BY PagingConstants
<1>3. r.ts # s.ts \/ r.ac # s.ac
    BY <1>1, <1>2
<1> QED
    BY <1>3, RowFacts DEF Before

(* A page of at least one row has a last row, *)
LEMMA LastExists ==
    ASSUME NEW S \in SUBSET Rows, IsFiniteSet(S), S # {}, \A s \in S : s.hit,
           NEW n \in Nat \ {0}
    PROVE  LastOf(First(n, S)) # {}
<1> DEFINE page == First(n, S)
           ranks == {Rank(s, S) : s \in page}
<1>1. \A s \in S : Rank(s, S) \in Nat
  <2> SUFFICES ASSUME NEW s \in S PROVE Rank(s, S) \in Nat
      OBVIOUS
  <2>1. IsFiniteSet({u \in S : Before(u, s)})
      BY FS_Subset
  <2> QED
      BY <2>1, FS_CardinalityType DEF Rank
<1>2. \A s \in S : s \in page <=> Rank(s, S) < n
    BY DEF First, Rank
<1>3. page \subseteq S
    BY DEF First
<1>4. page # {}
  <2> DEFINE all == {Rank(s, S) : s \in S}
  <2>1. all \in SUBSET Nat /\ all # {}
      BY <1>1
  <2>2. PICK k \in all : \A j \in all : k <= j
    <3> HIDE DEF all
    <3> QED
        BY <2>1, OldestExists
  <2>3. PICK s \in S : k = Rank(s, S)
      OBVIOUS
  <2>4. ASSUME NEW u \in S, Before(u, s) PROVE FALSE
    <3>1. Rank(u, S) \in Nat /\ Rank(s, S) \in Nat /\ Rank(u, S) < Rank(s, S)
        BY <2>4, RankGrows
    <3>2. Rank(s, S) <= Rank(u, S)
        BY <2>2, <2>3
    <3> QED
        BY <3>1, <3>2
  <2>5. {u \in S : Before(u, s)} = {}
      BY <2>4
  <2>6. Rank(s, S) = 0
      BY <2>5, FS_EmptySet DEF Rank
  <2> QED
      BY <1>2, <2>6
<1> HIDE DEF page
<1>5. ranks \in SUBSET Nat /\ ranks # {} /\ \A k \in ranks : k < n
    BY <1>1, <1>2, <1>3, <1>4
<1>6. PICK k \in ranks : \A j \in ranks : j <= k
  <2> HIDE DEF ranks
  <2> QED
      BY <1>5, NewestExists
<1>7. PICK l \in page : k = Rank(l, S)
    OBVIOUS
<1>8. ASSUME NEW s \in page, s # l PROVE Before(s, l)
  <2>1. s \in S /\ l \in S /\ s \in Rows /\ l \in Rows
      BY <1>3
  <2>2. ASSUME Before(l, s) PROVE FALSE
    <3>1. Rank(l, S) \in Nat /\ Rank(s, S) \in Nat /\ Rank(l, S) < Rank(s, S)
        BY <2>1, <2>2, RankGrows
    <3>2. Rank(s, S) <= Rank(l, S)
        BY <1>6, <1>7
    <3> QED
        BY <3>1, <3>2
  <2> QED
      BY <1>8, <2>1, <2>2, HitsAreOrdered
<1>9. l \in LastOf(page)
    BY <1>8 DEF LastOf
<1> QED
    BY <1>9 DEF page

(* and what is cut off comes after every row of it. *)
LEMMA CutOffIsBelow ==
    ASSUME NEW S \in SUBSET Rows, IsFiniteSet(S), \A s \in S : s.hit, NEW n \in Nat,
           NEW r \in S, r \notin First(n, S), NEW p \in First(n, S)
    PROVE  Before(p, r)
<1>1. p \in S /\ p \in Rows /\ r \in Rows /\ p # r
    BY DEF First
<1>2. Rank(p, S) < n /\ ~(Rank(r, S) < n)
    BY DEF First, Rank
<1>3. ASSUME Before(r, p) PROVE FALSE
  <2>1. Rank(r, S) \in Nat /\ Rank(p, S) \in Nat /\ Rank(r, S) < Rank(p, S)
      BY <1>1, <1>3, RankGrows
  <2> QED
      BY <1>2, <2>1
<1> QED
    BY <1>1, <1>3, HitsAreOrdered

(* Everything in the window is a candidate. *)
LEMMA WindowRead ==
    ASSUME RowsFit, table \subseteq Rows, NEW key \in Keys
    PROVE  /\ IsFiniteSet(Candidates(key))
           /\ Candidates(key) = {r \in InWindow(key) : Beyond(r, key.cursor)}
<1> DEFINE asked == {r \in InWindow(key) : Beyond(r, key.cursor)}
           E     == EffectiveEnd(key)
           low   == E - Window
           held  == {r \in Rows : low <= r.ts /\ r.ts <= low + Window}
<1>1. E \in Int /\ Window \in Int /\ low \in Int /\ low <= WindowFloor(key) /\ WindowFloor(key) \in Int
    BY WindowBounds, PagingConstants
<1>2. asked \subseteq held
  <2> SUFFICES ASSUME NEW r \in asked PROVE r \in held
      OBVIOUS
  <2>1. r \in Rows /\ WindowFloor(key) <= r.ts /\ r.ts < key.end /\ r.ts \in Int
      BY RowFacts DEF InWindow
  <2>2. key.end \in Int /\ \A c \in key.cursor : c.ts \in Int /\ c.ac \in Int
      BY DEF Keys, Option, Cursors
  <2>3. \A c \in key.cursor : r.ts <= c.ts
      BY <2>1, <2>2, RowFacts DEF Beyond, Before
  <2>4. r.ts <= E
      BY <2>1, <2>2, <2>3, WindowBounds
  <2>5. low <= r.ts /\ r.ts <= low + Window
      BY <1>1, <2>1, <2>4
  <2> QED
      BY <2>1, <2>5
<1>3. IsFiniteSet(held) /\ Cardinality(held) <= InnerLimit
  <2>1. held \in SUBSET Rows
      OBVIOUS
  <2>2. IsFiniteSet(held)
      BY <2>1, FS_Subset DEF RowsFit
  <2>3. \A t \in Int : Cardinality({r \in Rows : t <= r.ts /\ r.ts <= t + Window}) <= InnerLimit
      BY DEF RowsFit
  <2> QED
      BY <1>1, <2>2, <2>3
<1> HIDE DEF held, low
<1>4. IsFiniteSet(asked) /\ Cardinality(asked) <= Cardinality(held)
    BY <1>2, <1>3, FS_Subset
<1>5. Cardinality(asked) <= InnerLimit /\ InnerLimit \in Nat
    BY <1>3, <1>4, FS_CardinalityType, PagingConstants
<1>6. asked \in SUBSET Rows
    BY DEF InWindow
<1> HIDE DEF asked
<1>7. First(InnerLimit, asked) = asked
    BY <1>4, <1>5, <1>6, FirstOfFew
<1> QED
    BY <1>4, <1>7 DEF Candidates, asked

(* A page that is computed while the first row of the archive is known to  *)
(* be as old as the row covers it: a row of the window is on the page or   *)
(* below its last row; for one below the window the walk goes on.          *)
LEMMA PageCovers ==
    ASSUME RowsFit, table \subseteq Rows, NEW key \in Keys, NEW first \in Option(Nat),
           NEW r \in table, first # None, \A t \in first : t <= r.ts
    PROVE  Covered(key, PageOf(key, first), r)
<1> DEFINE M     == Matching(key)
           page  == First(Limit, M)
           full  == Cardinality(M) > Limit
           floor == [ts |-> WindowFloor(key), ac |-> 0]
           next  == IF full THEN {[ts |-> l.ts, ac |-> l.ac] : l \in LastOf(page)}
                    ELSE IF WalkEnds(key, first) THEN None ELSE {floor}
<1>1. PageOf(key, first).page = page /\ PageOf(key, first).cut = next
    BY DEF PageOf
<1>2. SUFFICES ASSUME r.hit, r.ts < key.end, \A t \in key.from : t <= r.ts, Beyond(r, key.cursor)
               PROVE  r \in page \/ \E n \in next : Before(n, r)
    BY <1>1 DEF Covered
<1>3. r \in Rows /\ r.ts \in Int /\ r.ac \in Int /\ WindowFloor(key) \in Int
    BY RowFacts, WindowBounds
<1>4. /\ M \in SUBSET Rows /\ IsFiniteSet(M) /\ Cardinality(M) \in Nat
      /\ \A s \in M : s.hit /\ s.ts >= WindowFloor(key)
  <2>1. M \in SUBSET Candidates(key) /\ \A s \in M : s.hit
      BY DEF Matching
  <2>2. IsFiniteSet(M)
      BY <2>1, WindowRead, FS_Subset
  <2>3. \A s \in Candidates(key) : s \in Rows /\ s.ts >= WindowFloor(key)
      BY WindowRead DEF InWindow
  <2> QED
      BY <2>1, <2>2, <2>3, FS_CardinalityType
<1>5. Limit \in Nat \ {0}
    BY PagingConstants
<1>6. ASSUME full PROVE \E l \in LastOf(page) : l \in page /\ l \in M /\ [ts |-> l.ts, ac |-> l.ac] \in next
  <2>1. M # {}
      BY <1>5, <1>6, FS_EmptySet
  <2>2. LastOf(page) # {}
      BY <1>4, <1>5, <2>1, LastExists
  <2>3. LastOf(page) \subseteq page /\ page \subseteq M
      BY DEF LastOf, First
  <2> QED
      BY <1>6, <2>2, <2>3
<1>7. CASE r.ts < WindowFloor(key)
  <2>1. CASE full
    <3>1. PICK l \in LastOf(page) : l \in M /\ [ts |-> l.ts, ac |-> l.ac] \in next
        BY <1>6, <2>1
    <3>2. l.ts > r.ts
        BY <1>3, <1>4, <1>7, <3>1, RowFacts
    <3> QED
        BY <3>1, <3>2 DEF Before
  <2>2. CASE ~full
    <3>1. \A t \in key.from : t \in Int
        BY DEF Keys, Option
    <3>2. \A t \in first : t \in Int
        BY DEF Option
    <3>3. ~WalkEnds(key, first)
        BY <1>2, <1>3, <1>7, <3>1, <3>2 DEF WalkEnds
    <3>4. floor \in next /\ floor.ts > r.ts
        BY <1>3, <1>7, <2>2, <3>3
    <3> QED
        BY <3>4 DEF Before
  <2> QED
      BY <2>1, <2>2
<1>8. CASE r.ts >= WindowFloor(key)
  <2>1. r \in M
    <3>1. r \in InWindow(key)
        BY <1>2, <1>8 DEF InWindow
    <3> QED
        BY <1>2, <3>1, WindowRead DEF Matching
  <2>2. CASE ~full
    <3>1. Cardinality(M) <= Limit /\ Limit \in Nat
        BY <1>4, <1>5, <2>2
    <3>2. page = M
        BY <1>4, <3>1, FirstOfFew
    <3> QED
        BY <2>1, <3>2
  <2>3. CASE full /\ r \notin page
    <3>1. PICK l \in LastOf(page) : l \in page /\ l \in M /\ [ts |-> l.ts, ac |-> l.ac] \in next
        BY <1>6, <2>3
    <3>2. Before(l, r)
        BY <1>4, <1>5, <2>1, <2>3, <3>1, CutOffIsBelow
    <3> QED
        BY <3>1, <3>2 DEF Before
  <2> QED
      BY <2>2, <2>3
<1> QED
    BY <1>3, <1>7, <1>8

LEMMA CoverKept ==
    ASSUME NEW c \in Clients, CoverInv(c), UNCHANGED <<table, since, clock>>,
           pc'[c] = pc[c], walk'[c] = walk[c], request'[c] = request[c],
           call'[c] = call[c], answer'[c] = answer[c]
    PROVE  CoverInv(c)'
<1>1. Asked(c)' = Asked(c)
    BY DEF Asked, Settled
<1>2. \A r : Reached(c, r)' = Reached(c, r)
    BY DEF Reached, Beyond, Before, Cursor, Truncate
<1>3. \A r : Covered(call[c].key, answer[c], r)' = Covered(call[c].key, answer[c], r)
    BY DEF Covered, Beyond, Before
<1> QED
    BY <1>1, <1>2, <1>3 DEF CoverInv, Old

LEMMA OneCoverMoves ==
    ASSUME CoversInv, NEW c \in Clients, UNCHANGED <<table, since, clock>>,
           \A d \in Clients \ {c} : /\ pc'[d] = pc[d] /\ walk'[d] = walk[d]
                                   /\ request'[d] = request[d] /\ call'[d] = call[d]
                                   /\ answer'[d] = answer[d],
           \A e \in cache', r \in table : Old(r, e.until - QueryTTL) => Covered(e.key, e.answer, r),
           CoverInv(c)'
    PROVE  CoversInv'
<1>1. \A d \in Clients \ {c} : CoverInv(d)'
    BY CoverKept DEF CoversInv
<1>2. \A e \in cache', r \in table' :
         Old(r, e.until - QueryTTL)' => Covered(e.key, e.answer, r)'
    BY DEF Covered, Old, Beyond, Before
<1> QED
    BY <1>1, <1>2 DEF CoversInv

(* What is asked for is as old as anything cached may be. *)
LEMMA AskedIsOld ==
    ASSUME PagingInv, BoundsInv, NEW c \in Clients, NEW r \in Asked(c)
    PROVE  /\ r \in table /\ r \in Rows /\ r.hit /\ Old(r, clock)
           /\ \A until \in Nat : clock < until => Old(r, until - QueryTTL)
<1>1. r \in table /\ r.hit /\ since[r] + QueryTTL + BoundsTTL <= walk[c].begun
    BY DEF Asked, Settled
<1>2. r \in Rows /\ since[r] \in Int /\ walk[c].begun \in Nat /\ clock \in Nat
    BY <1>1 DEF PagingInv, TypeOK
<1>3. walk[c].begun <= clock
    BY DEF BoundsInv, EndInv
<1>4. BoundsTTL \in Nat /\ QueryTTL \in Nat
    BY PagingConstants
<1> QED
    BY <1>1, <1>2, <1>3, <1>4 DEF Old

(* A row that comes is in no walk's account, and in no page's. *)
LEMMA WorldKeepsCovers ==
    ASSUME PagingInv, BoundsInv, CoversInv,
           Tick \/ \E r \in Rows : BatchInserts(r) \/ BatchDeletes(r)
    PROVE  CoversInv'
<1>1. UNCHANGED <<bounds, cache, pc, request, call, answer, walk>>
    BY DEF Tick, BatchInserts, BatchDeletes, state
<1>2. clock \in Nat /\ clock' \in Nat /\ BoundsTTL \in Nat \ {0} /\ QueryTTL \in Nat
    BY PagingConstants DEF PagingInv, TypeOK, Tick, BatchInserts, BatchDeletes
<1>3. \A r \in table' : since'[r] = clock \/ (r \in table /\ since'[r] = since[r])
    BY TableGrows
<1>4. \A e \in cache', r \in table' :
         Old(r, e.until - QueryTTL)' => Covered(e.key, e.answer, r)'
  <2> SUFFICES ASSUME NEW e \in cache, NEW r \in table', Old(r, e.until - QueryTTL)'
               PROVE  Covered(e.key, e.answer, r)'
      BY <1>1
  <2>1. e.until \in Nat /\ e.until <= clock + QueryTTL
      BY DEF BoundsInv, PagingInv, TypeOK
  <2>2. since'[r] + BoundsTTL <= e.until - QueryTTL
      BY DEF Old
  <2>3. since'[r] # clock
      BY <1>2, <2>1, <2>2
  <2>4. r \in table /\ Old(r, e.until - QueryTTL)
      BY <1>3, <2>2, <2>3 DEF Old
  <2> QED
      BY <2>4 DEF CoversInv, Covered, Beyond, Before
<1>5. ASSUME NEW c \in Clients PROVE CoverInv(c)'
  <2>1. walk[c].begun \in Nat /\ walk[c].begun <= clock
      BY DEF BoundsInv, EndInv, PagingInv, TypeOK
  <2>2. ASSUME NEW r \in Asked(c)' PROVE r \in Asked(c)
    <3>1. /\ r \in table' /\ r.hit /\ since'[r] + QueryTTL + BoundsTTL <= walk[c].begun
          /\ \A t \in request[c].end : r.ts < t
          /\ \A t \in request[c].from : r.ts >= t
        BY <1>1 DEF Asked, Settled
    <3>2. since'[r] # clock
        BY <1>2, <2>1, <3>1
    <3> QED
        BY <1>3, <3>1, <3>2 DEF Asked, Settled
  <2>3. \A r : Reached(c, r) => Reached(c, r)'
      BY <1>1 DEF Reached, Beyond, Before, Cursor, Truncate
  <2>4. \A r : Covered(call[c].key, answer[c], r) => Covered(call[c].key, answer[c], r)'
      BY <1>1 DEF Covered, Beyond, Before
  <2>5. CoverInv(c)
      BY DEF CoversInv
  <2>6. walk[c] # NoWalk => \A r \in Asked(c)' : Reached(c, r)'
      BY <2>2, <2>3, <2>5 DEF CoverInv
  <2>7. pc[c] \in {"store", "answer"} => \A r \in Asked(c)' : Covered(call[c].key, answer[c], r)'
      BY <2>2, <2>4, <2>5 DEF CoverInv
  <2>8. ASSUME pc[c] = "store", NEW r \in table', Old(r, clock)'
        PROVE  Covered(call[c].key, answer[c], r)'
    <3>1. clock' = clock
        BY <2>8 DEF Tick, BatchInserts, BatchDeletes
    <3>2. since'[r] + BoundsTTL <= clock
        BY <2>8, <3>1 DEF Old
    <3>3. since'[r] # clock
        BY <1>2, <3>2
    <3>4. r \in table /\ Old(r, clock)
        BY <1>3, <3>2, <3>3 DEF Old
    <3> QED
        BY <2>4, <2>5, <2>8, <3>4 DEF CoverInv
  <2> QED
      BY <1>1, <2>6, <2>7, <2>8 DEF CoverInv, NoWalk
<1> QED
    BY <1>4, <1>5 DEF CoversInv

LEMMA AskPageCovers ==
    ASSUME PagingInv, CoversInv, NEW c \in Clients,
           AskPage(c) \/ AskPageAndBounds(c) \/ ReadBounds(c)
    PROVE  CoversInv'
<1>1. UNCHANGED <<table, since, clock, cache, request, answer, walk>>
    BY DEF AskPage, AskPageAndBounds, ReadBounds, data, state
<1>2. /\ \A d \in Clients \ {c} : pc'[d] = pc[d] /\ call'[d] = call[d]
      /\ pc'[c] \in {"bounds", "lookup"}
    BY DEF AskPage, AskPageAndBounds, ReadBounds, UseBounds, Goto, PagingInv, TypeOK
<1>3. CoverInv(c)'
  <2>1. Asked(c)' = Asked(c) /\ \A r : Reached(c, r)' = Reached(c, r)
      BY <1>1 DEF Asked, Settled, Reached, Beyond, Before, Cursor, Truncate
  <2>2. walk[c] # NoWalk => \A r \in Asked(c) : Reached(c, r)
      BY DEF CoversInv, CoverInv
  <2> QED
      BY <1>1, <1>2, <2>1, <2>2 DEF CoverInv, NoWalk
<1> QED
    BY <1>1, <1>2, <1>3, OneCoverMoves DEF CoversInv

LEMMA AnswerCovers ==
    ASSUME RowsFit, PagingInv, BoundsInv, CoversInv, NEW c \in Clients,
           CacheHit(c) \/ CacheMiss(c) \/ FetchPage(c) \/ FetchTimesOut(c) \/ StorePage(c)
           \/ CacheFails(c)
    PROVE  CoversInv'
<1>1. CoverInv(c) /\ c \in DOMAIN pc /\ c \in DOMAIN answer
    BY DEF CoversInv, PagingInv, TypeOK
<1>2. UNCHANGED <<table, since, clock, bounds, request, walk>>
    BY DEF CacheHit, CacheMiss, FetchPage, FetchTimesOut, StorePage, CacheFails, data, state
<1>3. \A d \in Clients \ {c} : /\ pc'[d] = pc[d] /\ call'[d] = call[d] /\ answer'[d] = answer[d]
  <2>1. /\ pc \in [Clients -> {"idle", "bounds", "lookup", "fetch", "store", "answer"}]
        /\ call \in [Clients -> [first : Option(Nat), key : Keys]]
        /\ answer \in [Clients -> Answers]
      BY DEF PagingInv, TypeOK
  <2> QED
      BY <2>1 DEF CacheHit, CacheMiss, FetchPage, FetchTimesOut, StorePage, CacheFails, Goto
<1>4. \A e \in cache', r \in table : Old(r, e.until - QueryTTL) => Covered(e.key, e.answer, r)
  <2>1. CASE StorePage(c)
    <3> DEFINE n == [key |-> call[c].key, answer |-> answer[c], until |-> clock + QueryTTL]
    <3>1. cache' \subseteq cache \cup {n}
        BY <2>1 DEF StorePage
    <3>2. n.key = call[c].key /\ n.answer = answer[c] /\ n.until = clock + QueryTTL
        OBVIOUS
    <3> HIDE DEF n
    <3>3. n.until - QueryTTL = clock
        BY <3>2, PagingConstants DEF PagingInv, TypeOK
    <3>4. \A r \in table : Old(r, n.until - QueryTTL) => Covered(n.key, n.answer, r)
        BY <1>1, <2>1, <3>2, <3>3 DEF StorePage, CoverInv
    <3> QED
        BY <3>1, <3>4 DEF CoversInv
  <2>2. CASE ~StorePage(c)
    <3>1. cache' = cache
        BY <2>2 DEF CacheHit, CacheMiss, FetchPage, FetchTimesOut, CacheFails, state
    <3> QED
        BY <3>1 DEF CoversInv
  <2> QED
      BY <2>1, <2>2
<1>5. \A r : Reached(c, r)' = Reached(c, r)
    BY <1>2 DEF Reached, Beyond, Before, Cursor, Truncate
<1>6. Asked(c)' = Asked(c)
    BY <1>2 DEF Asked, Settled
<1>7. walk'[c] # NoWalk => \A r \in Asked(c)' : Reached(c, r)'
    BY <1>1, <1>2, <1>5, <1>6 DEF CoverInv
<1>8. /\ pc'[c] = "store" => \A r \in table : Old(r, clock) => Covered(call[c].key, answer[c], r)'
      /\ pc'[c] \in {"store", "answer"} => \A r \in Asked(c) : Covered(call[c].key, answer[c], r)'
  <2>1. CASE FetchTimesOut(c)
      BY <1>1, <2>1 DEF FetchTimesOut, Goto
  <2>2. CASE CacheHit(c)
    <3>1. PICK e \in cache : /\ e.key = call[c].key /\ clock < e.until
                            /\ answer' = [answer EXCEPT ![c] = e.answer]
        BY <2>2 DEF CacheHit, Cached
    <3>2. answer'[c] = e.answer
        BY <1>1, <3>1
    <3>3. pc'[c] = "answer" /\ call' = call
        BY <1>1, <2>2 DEF CacheHit, Goto
    <3>4. e.until \in Nat
        BY DEF PagingInv, TypeOK
    <3>5. ASSUME NEW r \in Asked(c) PROVE Covered(call[c].key, e.answer, r)
      <4>1. r \in table /\ Old(r, e.until - QueryTTL)
          BY <3>1, <3>4, AskedIsOld
      <4> QED
          BY <3>1, <4>1 DEF CoversInv
    <3> QED
        BY <3>2, <3>3, <3>5 DEF Covered, Beyond, Before
  <2>3. CASE FetchPage(c)
    <3> DEFINE page == PageOf(call[c].key, call[c].first)
    <3>1. answer' = [answer EXCEPT ![c] = page]
        BY <2>3 DEF FetchPage
    <3>2. pc[c] = "fetch" /\ pc'[c] = "store" /\ call' = call
        BY <1>1, <2>3 DEF FetchPage, Goto
    <3>3. ASSUME NEW r \in table, Old(r, clock) PROVE Covered(call[c].key, page, r)
      <4>1. call[c].first # None /\ \A t \in call[c].first : t <= r.ts
          BY <3>2, <3>3 DEF BoundsInv, EndInv
      <4>2. call[c].key \in Keys /\ call[c].first \in Option(Nat) /\ table \subseteq Rows
          BY DEF PagingInv, TypeOK
      <4> QED
          BY <4>1, <4>2, PageCovers
    <3> HIDE DEF page
    <3>4. answer'[c] = page
        BY <1>1, <3>1
    <3>5. \A r \in table : Old(r, clock) => Covered(call[c].key, answer[c], r)'
        BY <3>2, <3>3, <3>4 DEF Covered, Beyond, Before
    <3> QED
        BY <3>5, AskedIsOld
  <2>4. CASE CacheMiss(c) \/ StorePage(c) \/ CacheFails(c)
    <3>1. call' = call /\ answer' = answer
        BY <2>4 DEF CacheMiss, StorePage, CacheFails
    <3>2. \/ pc[c] = "lookup" /\ pc'[c] = "fetch"
          \/ pc[c] = "store" /\ pc'[c] = "answer"
        BY <1>1, <2>4 DEF CacheMiss, StorePage, CacheFails, Goto
    <3>3. \A r : Covered(call[c].key, answer[c], r)' = Covered(call[c].key, answer[c], r)
        BY <3>1 DEF Covered, Beyond, Before
    <3> QED
        BY <1>1, <3>2, <3>3 DEF CoverInv
  <2> QED
      BY <2>1, <2>2, <2>3, <2>4
<1>9. CoverInv(c)'
  <2>1. \A r : Old(r, clock)' = Old(r, clock)
      BY <1>2 DEF Old
  <2> QED
      BY <1>2, <1>6, <1>7, <1>8, <2>1 DEF CoverInv
<1> QED
    BY <1>2, <1>3, <1>4, <1>9, OneCoverMoves DEF CoversInv

LEMMA StartCovers ==
    ASSUME PagingInv, CoversInv, NEW c \in Clients, NEW ask \in Asks, StartWalk(c, ask)
    PROVE  CoversInv'
<1>1. UNCHANGED <<table, since, clock, cache, pc, call, answer>>
    BY DEF StartWalk, data, state
<1>2. /\ request \in [Clients -> Requests]
      /\ walk \in [Clients -> [got : SUBSET Rows, cut : SUBSET Cursors, begun : Nat, over : BOOLEAN]]
    BY DEF PagingInv, TypeOK
<1>3. \A d \in Clients \ {c} : walk'[d] = walk[d] /\ request'[d] = request[d]
    BY <1>2 DEF StartWalk
<1>4. pc[c] = "idle" /\ ~walk'[c].over /\ request'[c].cursor = None
    BY <1>2 DEF StartWalk
<1>5. \A r : Reached(c, r)'
    BY <1>4 DEF Reached, Beyond, None
<1>6. CoverInv(c)'
    BY <1>1, <1>4, <1>5 DEF CoverInv
<1> QED
    BY <1>1, <1>3, <1>6, OneCoverMoves DEF CoversInv

(* A client that receives a page has got the row, or goes on above it, or  *)
(* its cursor is at a row of the second in which the page was cut.         *)
LEMMA ReceiveCovers ==
    ASSUME PagingInv, BoundsInv, CoversInv, NEW c \in Clients, Receive(c)
    PROVE  CoversInv'
<1> DEFINE a == answer[c]
<1>1. /\ pc \in [Clients -> {"idle", "bounds", "lookup", "fetch", "store", "answer"}]
      /\ call \in [Clients -> [first : Option(Nat), key : Keys]]
      /\ answer \in [Clients -> Answers] /\ request \in [Clients -> Requests]
      /\ walk \in [Clients -> [got : SUBSET Rows, cut : SUBSET Cursors, begun : Nat, over : BOOLEAN]]
    BY DEF PagingInv, TypeOK
<1>2. UNCHANGED <<table, since, clock, cache>> /\ pc[c] = "answer"
    BY DEF Receive, data, state
<1>3. \A d \in Clients \ {c} : /\ pc'[d] = pc[d] /\ walk'[d] = walk[d]
                              /\ request'[d] = request[d] /\ call'[d] = call[d]
                              /\ answer'[d] = answer[d]
    BY <1>1 DEF Receive, Goto
<1>4. pc'[c] = "idle"
    BY <1>1 DEF Receive, Goto
<1>5. /\ walk'[c].got = walk[c].got \cup a.page
      /\ walk'[c].cut = walk[c].cut \cup a.cut
      /\ walk'[c].begun = walk[c].begun
      /\ walk'[c].over = (a.cursor = None)
    BY <1>1 DEF Receive
<1>6. request'[c].cursor = a.cursor /\ request'[c].end = request[c].end /\ request'[c].from = request[c].from
    BY <1>1 DEF Receive, Requests
<1>7. Asked(c)' = Asked(c)
    BY <1>2, <1>5, <1>6 DEF Asked, Settled
<1>8. ~walk[c].over /\ walk[c] # NoWalk
    BY <1>2 DEF PagingInv, WalkInv, NoWalk
<1>9. ASSUME NEW r \in Asked(c) PROVE Reached(c, r)'
  <2>1. CASE r \in walk[c].got
      BY <1>5, <2>1 DEF Reached
  <2>2. CASE \E cut \in walk[c].cut : Before(cut, r) /\ ~Before(Cursor(cut.ts, cut.ac), r)
      BY <1>5, <2>2 DEF Reached, Before, Cursor, Truncate
  <2>3. CASE Beyond(r, request[c].cursor)
    <3>1. EndInv(c)
        BY DEF BoundsInv
    <3>2. r \in table /\ r.hit /\ Old(r, clock)
        BY AskedIsOld
    <3>3. r.ts < call[c].key.end
      <4>1. CASE request[c].end = None
          BY <1>2, <3>1, <3>2, <4>1 DEF EndInv
      <4>2. CASE request[c].end # None
        <5>1. PICK t \in request[c].end : TRUE
            BY <4>2 DEF None
        <5> QED
            BY <1>2, <3>1, <5>1 DEF EndInv, Asked
      <4> QED
          BY <4>1, <4>2
    <3>4. \A t \in request[c].from : t \in Nat
        BY <1>1 DEF Requests, Option
    <3>5. \A t \in call[c].key.from : t <= r.ts
      <4>1. \A t \in request[c].from : r.ts >= t
          BY DEF Asked
      <4>2. r.ts \in Int
          BY <3>2, RowFacts DEF PagingInv, TypeOK
      <4> QED
          BY <1>2, <3>1, <3>4, <4>1, <4>2 DEF EndInv
    <3>6. Beyond(r, call[c].key.cursor)
        BY <1>2, <2>3, <3>1 DEF EndInv
    <3>7. Covered(call[c].key, a, r)
        BY <1>2 DEF CoversInv, CoverInv
    <3>8. r \in a.page \/ \E n \in a.cut : Before(n, r)
        BY <3>2, <3>3, <3>5, <3>6, <3>7 DEF Covered
    <3>9. CASE r \in a.page
        BY <1>5, <3>9 DEF Reached
    <3>10. ASSUME NEW n \in a.cut, Before(n, r) PROVE Reached(c, r)'
      <4>1. a.cursor = {Cursor(m.ts, m.ac) : m \in a.cut}
          BY <1>2, <3>1 DEF EndInv, Ended
      <4>2. a.cut \in Option(Cursors)
          BY <1>1 DEF Answers
      <4>3. \A m \in a.cut : m = n
          BY <4>2 DEF Option
      <4>4. a.cursor = {Cursor(n.ts, n.ac)}
          BY <4>1, <4>3
      <4>5. CASE Before(Cursor(n.ts, n.ac), r)
        <5>1. \A m \in request'[c].cursor : Before(m, r)
            BY <1>6, <4>4, <4>5
        <5>2. ~walk'[c].over
            BY <1>5, <4>4 DEF None
        <5> QED
            BY <5>1, <5>2 DEF Reached, Beyond, Before
      <4>6. CASE ~Before(Cursor(n.ts, n.ac), r)
          BY <1>5, <3>10, <4>6 DEF Reached, Before, Cursor, Truncate
      <4> QED
          BY <4>5, <4>6
    <3> QED
        BY <3>8, <3>9, <3>10
  <2> QED
      BY <1>8, <2>1, <2>2, <2>3 DEF CoversInv, CoverInv, Reached
<1>10. CoverInv(c)'
    BY <1>4, <1>7, <1>9 DEF CoverInv
<1> QED
    BY <1>2, <1>3, <1>10, OneCoverMoves DEF CoversInv

LEMMA CoversInvStep ==
    ASSUME RowsFit
    PROVE  PagingInv /\ BoundsInv /\ CoversInv /\ [Next]_vars => CoversInv'
<1> SUFFICES ASSUME PagingInv, BoundsInv, CoversInv, [Next]_vars PROVE CoversInv'
    OBVIOUS
<1>1. CASE UNCHANGED vars
  <2>1. \A c \in Clients : CoverInv(c)'
      BY <1>1, CoverKept DEF vars, CoversInv
  <2>2. \A e \in cache', r \in table' :
           Old(r, e.until - QueryTTL)' => Covered(e.key, e.answer, r)'
      BY <1>1 DEF vars, CoversInv, Covered, Old, Beyond, Before
  <2> QED
      BY <2>1, <2>2 DEF CoversInv
<1>2. CASE Next
    BY <1>2, WorldKeepsCovers, AskPageCovers, AnswerCovers, StartCovers, ReceiveCovers
       DEF Next, RequestStep
<1> QED
    BY <1>1, <1>2

(* A walk that has come to its end has returned every flight that was      *)
(* asked for and had been in the table for longer than the caches last,    *)
(* except those of the second in which a page or window was cut; provided  *)
(* that no window holds more rows than the inner query reads.              *)
THEOREM WalksCoverTheirWindow ==
    ASSUME RowsFit
    PROVE  Spec => []WalkCovers
<1>1. Init => CoversInv
  <2> SUFFICES ASSUME Init PROVE CoversInv
      OBVIOUS
  <2>1. cache = {} /\ \A c \in Clients : pc[c] = "idle" /\ walk[c] = NoWalk
      BY DEF Init
  <2> QED
      BY <2>1 DEF CoversInv, CoverInv
<1>2. CoversInv => WalkCovers
    BY DEF CoversInv, CoverInv, WalkCovers, Reached
<1>3. PagingInv /\ BoundsInv /\ CoversInv /\ [Next]_vars => CoversInv'
    BY CoversInvStep
<1> QED
    BY <1>1, <1>2, <1>3, PagingInvariant, BoundsInvHolds, PTL DEF Spec

=============================================================================
