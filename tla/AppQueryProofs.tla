--------------------------- MODULE AppQueryProofs ---------------------------
(***************************************************************************)
(* What the panel shows is one walk, which offers earlier results until    *)
(* its end, and a click on the map has one meaning: for every archive,     *)
(* every set of filters, and however many calls and lookups overlap.       *)
(***************************************************************************)
EXTENDS AppQuery, SequenceTheorems, FiniteSetTheorems, WellFoundedInduction, TLAPS

(* A sequence over what it holds stays one when an element is appended.    *)
LEMMA AppendKeepsPages ==
    ASSUME NEW s, NEW e, s \in Seq({s[k] : k \in DOMAIN s})
    PROVE  LET t == Append(s, e)
           IN  /\ t # <<>> /\ t \in Seq({t[k] : k \in DOMAIN t})
               /\ Len(t) = Len(s) + 1 /\ DOMAIN t = 1..(Len(s) + 1)
               /\ \A k \in 1..Len(s) : t[k] = s[k]
               /\ t[Len(s) + 1] = e
<1> DEFINE S == {s[k] : k \in DOMAIN s} \cup {e}
           t == Append(s, e)
<1>1. Len(s) \in Nat /\ DOMAIN s = 1..Len(s) /\ \A k \in 1..Len(s) : s[k] \in S
    OBVIOUS
<1>2. s \in Seq(S) /\ e \in S
    BY <1>1
<1>3. /\ t \in Seq(S) /\ Len(t) = Len(s) + 1 /\ DOMAIN t = 1..(Len(s) + 1)
      /\ \A k \in 1..Len(s) : t[k] = s[k]
      /\ t[Len(s) + 1] = e
    BY <1>1, <1>2
<1>4. t \in Seq({t[k] : k \in DOMAIN t})
    BY <1>1, <1>3
<1>5. t # <<>>
    BY <1>1, <1>3
<1> QED
    BY <1>3, <1>4, <1>5

LEMMA OnePageIsASequence ==
    ASSUME NEW e
    PROVE  LET t == <<e>>
           IN  /\ t # <<>> /\ t \in Seq({t[k] : k \in DOMAIN t})
               /\ Len(t) = 1 /\ DOMAIN t = 1..1 /\ t[1] = e
OBVIOUS

LEMMA PageFacts ==
    ASSUME NEW request
    PROVE  Page(request).request = request
BY DEF Page

LEMMA RequestFacts ==
    ASSUME NEW b, NEW cursor
    PROVE  Request(b, cursor).cursor = cursor
BY DEF Request

(* A step that neither changes what is shown nor sends a call may only     *)
(* take calls away or mark one as refused.                                 *)
LEMMA FewerCalls ==
    ASSUME WalkInv, UNCHANGED <<shown, newest, asked>>,
           \A d \in calls' : \E c \in calls :
              c.n = d.n /\ c.more = d.more /\ c.request = d.request,
           \A d, e \in calls' : d.n = e.n => d = e
    PROVE  WalkInv'
BY DEF WalkInv, OneWalk, Aborted

LEMMA RunKeepsWalk ==
    ASSUME WalkInv, NEW b, NEW v, HandleRun(b, v)
    PROVE  WalkInv'
<1>1. CASE UNCHANGED panel
    BY <1>1 DEF WalkInv, OneWalk, Aborted, panel
<1>2. CASE IsDateRangeValid
  <2> DEFINE new == [n |-> newest + 1, more |-> FALSE, request |-> Request(b, None),
                     stage |-> "sent"]
  <2>1. /\ newest' = newest + 1 /\ calls' = calls \cup {new}
        /\ asked' = {new.request}
        /\ shown' = NothingShown
      BY <1>2 DEF HandleRun, Send
  <2>2. /\ newest \in Nat
        /\ \A c \in calls : c.n \in 1..newest
        /\ \A c, d \in calls : c.n = d.n => c = d
      BY DEF WalkInv
  <2>3. /\ shown'.pages = None /\ shown'.cursor = None
      BY <2>1 DEF NothingShown
  <2>4. new.n = newest + 1 /\ new.more = FALSE
      OBVIOUS
  <2> HIDE DEF new
  <2>5. /\ newest' \in Nat
        /\ \A c \in calls' : c.n \in 1..newest'
        /\ \A c, d \in calls' : c.n = d.n => c = d
      BY <2>1, <2>2, <2>4
  <2>6. \A c \in calls' : ~Aborted(c)' => c = new
      BY <2>1, <2>2 DEF Aborted
  <2>7. OneWalk'
      BY <2>3 DEF OneWalk, None
  <2> QED
      BY <2>1, <2>3, <2>4, <2>5, <2>6, <2>7 DEF WalkInv, None
<1> QED
    BY <1>1, <1>2 DEF HandleRun

LEMMA LoadMoreKeepsWalk ==
    ASSUME WalkInv, LoadMore
    PROVE  WalkInv'
<1> DEFINE new == [n |-> newest + 1, more |-> TRUE, request |-> Request(bounds, shown.cursor),
                   stage |-> "sent"]
<1>1. /\ newest' = newest + 1 /\ calls' = calls \cup {new}
      /\ UNCHANGED <<asked, shown>>
      /\ shown.cursor # None
    BY DEF LoadMore, Send, HasMore
<1>2. /\ newest \in Nat
      /\ \A c \in calls : c.n \in 1..newest
      /\ \A c, d \in calls : c.n = d.n => c = d
      /\ shown.pages # None
    BY <1>1 DEF WalkInv
<1>3. new.n = newest + 1 /\ new.more = TRUE /\ new.request.cursor = shown.cursor
    BY RequestFacts
<1> HIDE DEF new
<1>4. /\ newest' \in Nat
      /\ \A c \in calls' : c.n \in 1..newest'
      /\ \A c, d \in calls' : c.n = d.n => c = d
    BY <1>1, <1>2, <1>3
<1>5. \A c \in calls' : ~Aborted(c)' => c = new
    BY <1>1, <1>2 DEF Aborted
<1>6. OneWalk'
    BY <1>1 DEF WalkInv, OneWalk
<1> QED
    BY <1>1, <1>2, <1>3, <1>4, <1>5, <1>6 DEF WalkInv

(* The newest call is answered: with the first page, or with one that goes *)
(* on where the last one ended.                                            *)
LEMMA AnswerKeepsWalk ==
    ASSUME WalkInv, NEW c \in calls, Answers(c)
    PROVE  WalkInv'
<1> DEFINE page == Page(c.request)
<1>1. /\ calls' = calls \ {c} /\ UNCHANGED <<newest, asked>>
      /\ ~Aborted(c)
    BY DEF Answers, Settle
<1>2. /\ newest' \in Nat
      /\ \A d \in calls' : d.n \in 1..newest'
      /\ \A d, e \in calls' : d.n = e.n => d = e
      /\ \A d \in calls' : Aborted(d)'
    BY <1>1 DEF WalkInv, Aborted
<1>3. page.request = c.request
    BY PageFacts
<1>4. shown'.cursor = page.cursor
    BY DEF Answers
<1>5. CASE ~c.more
  <2>1. asked = {c.request} /\ shown.pages = None
      BY <1>1, <1>5 DEF WalkInv
  <2>2. shown'.pages = {<<page>>}
      BY <1>5 DEF Answers, None
  <2> HIDE DEF page
  <2> DEFINE t == <<page>>
  <2>3. /\ t # <<>> /\ t \in Seq({t[k] : k \in DOMAIN t})
        /\ Len(t) = 1 /\ DOMAIN t = 1..1 /\ t[1] = page
      BY OnePageIsASequence
  <2>4. shown'.pages = {t}
      BY <2>2
  <2> HIDE DEF t
  <2>5. /\ asked' = {t[1].request}
        /\ \A k \in DOMAIN t : ~(k > 1)
        /\ shown'.cursor = t[Len(t)].cursor
      BY <1>1, <1>3, <1>4, <2>1, <2>3
  <2>6. OneWalk'
      BY <2>4, <2>5 DEF OneWalk
  <2>7. shown'.pages # None
      BY <2>4 DEF None
  <2> QED
      BY <1>2, <2>3, <2>4, <2>6, <2>7 DEF WalkInv
<1>6. CASE c.more
  <2>1. shown.pages # None /\ c.request.cursor = shown.cursor
      BY <1>1, <1>6 DEF WalkInv
  <2>2. shown'.pages = {Append(pages, page) : pages \in shown.pages}
      BY <1>6, <2>1 DEF Answers
  <2> HIDE DEF page
  <2>3. ASSUME NEW pages \in shown.pages
        PROVE  LET t == Append(pages, page)
               IN  /\ t # <<>> /\ t \in Seq({t[k] : k \in DOMAIN t})
                   /\ asked = {t[1].request}
                   /\ \A k \in DOMAIN t : k > 1 => t[k].request.cursor = t[k - 1].cursor
                   /\ page.cursor = t[Len(t)].cursor
    <3> DEFINE t == Append(pages, page)
               n == Len(pages)
    <3>1. /\ pages \in Seq({pages[k] : k \in DOMAIN pages}) /\ pages # <<>>
          /\ asked = {pages[1].request}
          /\ \A k \in DOMAIN pages : k > 1 => pages[k].request.cursor = pages[k - 1].cursor
          /\ shown.cursor = pages[n].cursor
        BY DEF WalkInv, OneWalk
    <3>2. n \in Nat /\ n >= 1 /\ DOMAIN pages = 1..n
        BY <3>1
    <3>3. /\ t # <<>> /\ t \in Seq({t[k] : k \in DOMAIN t})
          /\ Len(t) = n + 1 /\ DOMAIN t = 1..(n + 1)
          /\ \A k \in 1..n : t[k] = pages[k]
          /\ t[n + 1] = page
        BY <3>1, AppendKeepsPages
    <3> HIDE DEF t, n
    <3>4. t[n + 1].request.cursor = t[n].cursor
        BY <1>3, <2>1, <3>1, <3>2, <3>3
    <3>5. ASSUME NEW k \in DOMAIN t, k > 1
          PROVE  t[k].request.cursor = t[k - 1].cursor
      <4>1. CASE k = n + 1
          BY <3>2, <3>4, <4>1
      <4>2. CASE k \in 1..n
          BY <3>1, <3>2, <3>3, <3>5, <4>2
      <4> QED
          BY <3>2, <3>3, <4>1, <4>2
    <3> QED
        BY <3>1, <3>2, <3>3, <3>5 DEF t
  <2>4. OneWalk'
      BY <1>1, <1>4, <2>2, <2>3 DEF OneWalk
  <2>5. shown'.pages # None
      BY <2>1, <2>2 DEF None
  <2>6. \A t \in shown'.pages : t # <<>> /\ t \in Seq({t[k] : k \in DOMAIN t})
      BY <2>2, <2>3
  <2> QED
      BY <1>2, <2>4, <2>5, <2>6 DEF WalkInv
<1> QED
    BY <1>5, <1>6

LEMMA WalkStep ==
    ASSUME WalkInv, [Next]_vars
    PROVE  WalkInv'
<1>1. CASE UNCHANGED panel
    BY <1>1 DEF panel, WalkInv, OneWalk, Aborted
<1>2. CASE Run
    BY <1>2, RunKeepsWalk DEF Run
<1>3. CASE LoadMore
    BY <1>3, LoadMoreKeepsWalk
<1>4. ASSUME NEW c \in calls, Answers(c)
      PROVE  WalkInv'
    BY <1>4, AnswerKeepsWalk
<1>5. ASSUME NEW c \in calls, Refuses(c)
      PROVE  WalkInv'
  <2> DEFINE refused == [c EXCEPT !.stage = "refused"]
  <2>1. calls' = (calls \ {c}) \cup {refused} /\ UNCHANGED <<shown, newest, asked>>
      BY <1>5 DEF Refuses
  <2>2. refused.n = c.n /\ refused.more = c.more /\ refused.request = c.request
      OBVIOUS
  <2> HIDE DEF refused
  <2>3. \A d, e \in calls' : d.n = e.n => d = e
      BY <2>1, <2>2 DEF WalkInv
  <2> QED
      BY <2>1, <2>2, <2>3, FewerCalls
<1>6. ASSUME NEW c \in calls, RefusalRead(c) \/ Fails(c) \/ AbortSettles(c)
      PROVE  WalkInv'
  <2>1. calls' \subseteq calls /\ UNCHANGED <<shown, newest, asked>>
      BY <1>6 DEF RefusalRead, Fails, AbortSettles, Settle
  <2>2. \A d, e \in calls' : d.n = e.n => d = e
      BY <2>1 DEF WalkInv
  <2> QED
      BY <2>1, <2>2, FewerCalls
<1>7. ASSUME NEW r \in Ranges, SetRange(r)
      PROVE  WalkInv'
    BY <1>1, <1>7 DEF SetRange
<1>8. CASE DataRangeAnswers
    BY <1>1, <1>8 DEF DataRangeAnswers
<1>9. ASSUME NEW b \in Views, MoveEnd(b)
      PROVE  WalkInv'
    BY <1>1, <1>9, RunKeepsWalk DEF MoveEnd, panel
<1>10. CASE UNCHANGED query
    BY <1>1, <1>10 DEF query
<1>11. CASE UNCHANGED vars
    BY <1>10, <1>11 DEF vars
<1> QED
    BY <1>2, <1>3, <1>4, <1>5, <1>6, <1>7, <1>8, <1>9, <1>10, <1>11 DEF Next, QueryNext

(* The pages in the panel are one walk of the last run, whatever calls are *)
(* aborted, refused, lost or answered late.                                *)
THEOREM PanelIsOneWalk == Spec => []OneWalk
<1>1. Init => WalkInv
    BY DEF Init, WalkInv, OneWalk, NothingShown, None
<1>2. WalkInv /\ [Next]_vars => WalkInv'
    BY WalkStep
<1>3. WalkInv => OneWalk
    BY DEF WalkInv
<1> QED
    BY <1>1, <1>2, <1>3, PTL DEF Spec

(* The pages after an answer: the one that came, and those it goes on from. *)
LEMMA AnsweredPages ==
    ASSUME WalkInv, NEW c \in calls, Answers(c)
    PROVE  /\ \A p \in Pages' : p \in Pages \/ p = Page(c.request)
           /\ Page(c.request) \in Pages' /\ shown'.pages # None
           /\ c.more => Pages \subseteq Pages'
<1> DEFINE page == Page(c.request)
<1>1. CASE c.more
  <2>1. shown.pages # None
      BY <1>1 DEF WalkInv, Answers
  <2>2. shown'.pages = {Append(pages, page) : pages \in shown.pages}
      BY <1>1, <2>1 DEF Answers
  <2> HIDE DEF page
  <2>3. ASSUME NEW pages \in shown.pages
        PROVE  /\ DOMAIN Append(pages, page) = 1..(Len(pages) + 1)
               /\ Append(pages, page)[Len(pages) + 1] = page
               /\ \A k \in 1..Len(pages) : Append(pages, page)[k] = pages[k]
               /\ Len(pages) \in Nat /\ DOMAIN pages = 1..Len(pages)
    <3>1. pages \in Seq({pages[k] : k \in DOMAIN pages})
        BY DEF WalkInv
    <3> QED
        BY <3>1, AppendKeepsPages
  <2>4. ASSUME NEW pages \in shown.pages, NEW k \in DOMAIN Append(pages, page)
        PROVE  Append(pages, page)[k] = page \/ Append(pages, page)[k] \in Pages
    <3>1. k = Len(pages) + 1 \/ k \in 1..Len(pages)
        BY <2>3, <2>4
    <3>2. CASE k \in 1..Len(pages)
        BY <2>3, <3>2 DEF Pages
    <3> QED
        BY <2>3, <3>1, <3>2
  <2>5. ASSUME NEW pages \in shown.pages, NEW k \in DOMAIN pages
        PROVE  pages[k] \in Pages'
    <3>1. k \in DOMAIN Append(pages, page) /\ Append(pages, page)[k] = pages[k]
        BY <2>3, <2>5
    <3>2. Append(pages, page) \in shown'.pages
        BY <2>2
    <3>3. pages[k] \in {Append(pages, page)[j] : j \in DOMAIN Append(pages, page)}
        BY <3>1
    <3> QED
        BY <3>2, <3>3 DEF Pages
  <2>6. page \in Pages'
    <3>1. PICK pages \in shown.pages : TRUE
        BY <2>1 DEF None
    <3>2. Append(pages, page) \in shown'.pages
        BY <2>2
    <3>3. Len(pages) + 1 \in DOMAIN Append(pages, page)
        BY <2>3
    <3>4. page \in {Append(pages, page)[j] : j \in DOMAIN Append(pages, page)}
        BY <2>3, <3>3
    <3> QED
        BY <3>2, <3>4 DEF Pages
  <2>7. \A p \in Pages' : p \in Pages \/ p = page
      BY <2>2, <2>4 DEF Pages
  <2>8. Pages \subseteq Pages'
      BY <2>5 DEF Pages
  <2>9. shown'.pages # None
      BY <2>1, <2>2 DEF None
  <2> QED
      BY <2>6, <2>7, <2>8, <2>9 DEF page
<1>2. CASE ~c.more
  <2>1. shown'.pages = {<<page>>}
      BY <1>2 DEF Answers, None
  <2> HIDE DEF page
  <2>2. DOMAIN <<page>> = {1} /\ <<page>>[1] = page
      OBVIOUS
  <2>3. Pages' = {page} /\ shown'.pages # None
      BY <2>1, <2>2 DEF Pages, None
  <2> QED
      BY <1>2, <2>3 DEF page
<1> QED
    BY <1>1, <1>2

-----------------------------------------------------------------------------
(* The chip. *)

LEMMA MatchOfRequest ==
    ASSUME NEW b, NEW cursor
    PROVE  Request(b, cursor).match = CompileGroup(b)
BY DEF Request

(* Without a viewport filter the bounds of the map say nothing.            *)
LEMMA BoundsDoNotMatter ==
    ASSUME ~HasViewport, NEW b, NEW d
    PROVE  CompileGroup(b) = CompileGroup(d)
BY DEF HasViewport, CompileGroup, Geometry

LEMMA PutGrows ==
    ASSUME "version" \in DOMAIN group, NEW filters
    PROVE  LET g == PutFilters(filters)
           IN  "version" \in DOMAIN g /\ g.version = group.version + 1
BY DEF PutFilters

Grows == "version" \in DOMAIN group' /\ group'.version = group.version + 1

(* Whatever the user does to the filters makes a new version of the group. *)
LEMMA EditsGrow ==
    ASSUME "version" \in DOMAIN group, PickersNext
    PROVE  UNCHANGED group \/ Grows
<1>1. ASSUME NEW shape, AddFilter(shape)
      PROVE  Grows
  <2> DEFINE id == group.made + 1
             g == PutFilters([q \in Ids \cup {id} |-> IF q = id THEN Filter(shape)
                                                      ELSE group.filters[q]])
  <2>1. group' = [g EXCEPT !.made = id]
      BY <1>1 DEF AddFilter
  <2>2. "version" \in DOMAIN g /\ g.version = group.version + 1
      BY PutGrows
  <2> HIDE DEF g
  <2> QED
      BY <2>1, <2>2 DEF Grows
<1>2. ASSUME NEW p, RemoveFilter(p)
      PROVE  Grows
    BY <1>2, PutGrows DEF RemoveFilter, Grows
<1>3. ASSUME NEW p, NEW shape, SetShape(p, shape)
      PROVE  Grows
    BY <1>3, PutGrows DEF SetShape, UpdatePredInGroup, Grows
<1>4. ASSUME NEW place, HandlePickPoint(place)
      PROVE  Grows
    BY <1>4, PutGrows DEF HandlePickPoint, UpdatePredInGroup, Grows
<1>5. ASSUME NEW polygon, HandleDrawComplete(polygon)
      PROVE  Grows
    BY <1>5, PutGrows DEF HandleDrawComplete, UpdatePredInGroup, Grows
<1>6. ASSUME NEW p, NEW airspace, ApplyAirspace(p, airspace)
      PROVE  Grows
    BY <1>6, PutGrows DEF ApplyAirspace, UpdatePredInGroup, Grows
<1>7. ASSUME NEW l, LookupAnswers(l)
      PROVE  UNCHANGED group \/ Grows
    BY <1>6, <1>7 DEF LookupAnswers
<1>8. ASSUME NEW airspace, ChooseAirspace(airspace)
      PROVE  Grows
    BY <1>6, <1>8 DEF ChooseAirspace
<1> QED
    BY <1>1, <1>2, <1>3, <1>4, <1>5, <1>7, <1>8
       DEF PickersNext, ArmPicker, ArmDraw, ArmAirspacePicker, HandlePickAirspace,
           LookupFails, DismissMenu

(* An edit or a move that sends nothing: what was current is current, or   *)
(* the version of the last run is passed.                                  *)
LEMMA EditKeepsChip ==
    ASSUME ChipInv, UNCHANGED query, UNCHANGED group \/ Grows
    PROVE  ChipInv'
<1>1. UNCHANGED <<lastRun, shown, calls, newest, version, bounds>>
    BY DEF query, panel, view
<1>2. CASE UNCHANGED group
    BY <1>1, <1>2 DEF ChipInv, FreshMatch, CompileGroup, HasViewport, Ids, Aborted, Pages
<1>3. CASE Grows
  <2>1. "version" \in DOMAIN group' /\ group'.version \in Nat /\ version' \in Nat
      BY <1>1, <1>3 DEF Grows, ChipInv
  <2>2. \A run \in lastRun' : /\ run.group \in 0..group'.version /\ run.view \in 0..version'
                              /\ run.group # group'.version
      BY <1>1, <1>3 DEF Grows, ChipInv
  <2>3. lastRun' = None => calls' = {} /\ shown'.pages = None
      BY <1>1 DEF ChipInv
  <2>4. lastRun' # None => \A request : FreshMatch(request)'
      BY <2>2 DEF FreshMatch, None
  <2>5. shown'.pages = None => Pages' = {}
      BY DEF Pages, None
  <2> QED
      BY <2>1, <2>2, <2>3, <2>4, <2>5 DEF ChipInv
<1> QED
    BY <1>2, <1>3

(* A run, with the bounds and version that hold after the step. *)
LEMMA RunKeepsChip ==
    ASSUME ChipInv, WalkInv, UNCHANGED group, version' \in Nat,
           IsDateRangeValid, HandleRun(bounds', version')
    PROVE  ChipInv'
<1> DEFINE new == [n |-> newest + 1, more |-> FALSE, request |-> Request(bounds', None),
                   stage |-> "sent"]
<1>1. /\ newest' = newest + 1 /\ calls' = calls \cup {new}
      /\ lastRun' = {[group |-> group.version, view |-> version']}
      /\ shown' = NothingShown
    BY DEF HandleRun, Send
<1>2. new.request.match = CompileGroup(bounds')
    BY MatchOfRequest
<1>3. CompileGroup(bounds') = CompileGroup(bounds)'
    BY DEF CompileGroup, Ids
<1> HIDE DEF new
<1>4. \A c \in calls' : ~Aborted(c)' => c = new
    BY <1>1 DEF Aborted, WalkInv
<1>5. Pages' = {}
    BY <1>1 DEF Pages, NothingShown, None
<1>6. \A c \in calls' : ~Aborted(c)' => FreshMatch(c.request)'
    BY <1>2, <1>3, <1>4 DEF FreshMatch
<1>7. lastRun' # None
    BY <1>1 DEF None
<1>8. \A run \in lastRun' : run.group \in 0..group'.version /\ run.view \in 0..version'
    BY <1>1 DEF ChipInv
<1> QED
    BY <1>5, <1>6, <1>7, <1>8 DEF ChipInv

LEMMA MoveKeepsChip ==
    ASSUME ChipInv, WalkInv, NEW b, MoveEnd(b)
    PROVE  ChipInv'
<1>1. /\ bounds' = {b} /\ version' = version + 1 /\ UNCHANGED <<group, range>>
      /\ version \in Nat /\ version' \in Nat
    BY DEF MoveEnd, pickers, ChipInv
<1>2. CASE UNCHANGED panel
  <2>1. UNCHANGED <<lastRun, shown, calls, newest>>
      BY <1>2 DEF panel
  <2>2. \A run \in lastRun' : /\ run.group \in 0..group'.version
                              /\ run.view \in 0..version' /\ run.view # version'
      BY <1>1, <2>1 DEF ChipInv
  <2>3. ASSUME NEW request, FreshMatch(request), lastRun # None
        PROVE  FreshMatch(request)'
    <3>1. HasViewport' <=> HasViewport
        BY <1>1 DEF HasViewport, Ids
    <3>2. CASE HasViewport
        BY <1>1, <2>1, <2>2, <2>3, <3>1, <3>2 DEF FreshMatch, None
    <3>3. CASE ~HasViewport
      <4>1. CompileGroup(bounds)' = CompileGroup(bounds')
          BY <1>1 DEF CompileGroup, Ids
      <4>2. CompileGroup(bounds') = CompileGroup(bounds)
          BY <3>3, BoundsDoNotMatter
      <4> QED
          BY <1>1, <2>1, <2>3, <3>1, <3>3, <4>1, <4>2 DEF FreshMatch
    <3> QED
        BY <3>2, <3>3
  <2>4. Pages' = Pages /\ (shown.pages = None => Pages = {})
      BY <2>1 DEF Pages, None
  <2> QED
      BY <1>1, <2>1, <2>2, <2>3, <2>4 DEF ChipInv, Aborted
<1>3. CASE HandleRun(bounds', version') /\ IsDateRangeValid
    BY <1>1, <1>3, RunKeepsChip
<1> QED
    BY <1>1, <1>2, <1>3 DEF MoveEnd, HandleRun

LEMMA LoadMoreKeepsChip ==
    ASSUME ChipInv, WalkInv, LoadMore
    PROVE  ChipInv'
<1> DEFINE new == [n |-> newest + 1, more |-> TRUE, request |-> Request(bounds, shown.cursor),
                   stage |-> "sent"]
<1>1. /\ newest' = newest + 1 /\ calls' = calls \cup {new}
      /\ UNCHANGED <<group, bounds, version, lastRun, shown>>
      /\ shown.pages # None
    BY DEF LoadMore, Send, HasMore, WalkInv, pickers, view
<1>2. new.request.match = CompileGroup(bounds)
    BY MatchOfRequest
<1> HIDE DEF new
<1>3. \A c \in calls' : ~Aborted(c)' => c = new
    BY <1>1 DEF Aborted, WalkInv
<1>4. \A request : FreshMatch(request)' <=> FreshMatch(request)
    BY <1>1 DEF FreshMatch, CompileGroup, HasViewport, Ids
<1>5. FreshMatch(new.request)
    BY <1>2 DEF FreshMatch
<1>6. Pages' = Pages
    BY <1>1 DEF Pages
<1> QED
    BY <1>1, <1>3, <1>4, <1>5, <1>6 DEF ChipInv

LEMMA AnswerKeepsChip ==
    ASSUME ChipInv, WalkInv, NEW c \in calls, Answers(c)
    PROVE  ChipInv'
<1> DEFINE page == Page(c.request)
<1>1. /\ calls' = calls \ {c} /\ ~Aborted(c)
      /\ UNCHANGED <<group, bounds, version, lastRun, newest>>
    BY DEF Answers, Settle, pickers, view
<1>2. page.request = c.request
    BY PageFacts
<1>3. \A request : FreshMatch(request)' <=> FreshMatch(request)
    BY <1>1 DEF FreshMatch, CompileGroup, HasViewport, Ids
<1>4. FreshMatch(page.request)
    BY <1>1, <1>2 DEF ChipInv
<1>5. \A p \in Pages' : p \in Pages \/ p = page
    BY AnsweredPages
<1> HIDE DEF page
<1>6. lastRun # None
    BY DEF ChipInv
<1> QED
    BY <1>1, <1>3, <1>4, <1>5, <1>6 DEF ChipInv, Aborted

(* Steps that only take calls away, mark one as refused or change dates.   *)
LEMMA SettledKeepsChip ==
    ASSUME ChipInv, UNCHANGED <<group, bounds, version, lastRun, shown, newest>>,
           \A d \in calls' : \E c \in calls : c.n = d.n /\ c.request = d.request
    PROVE  ChipInv'
<1>1. \A request : FreshMatch(request)' <=> FreshMatch(request)
    BY DEF FreshMatch, CompileGroup, HasViewport, Ids
<1>2. Pages' = Pages
    BY DEF Pages
<1>3. \A c \in calls' : ~Aborted(c)' => FreshMatch(c.request)
    BY DEF ChipInv, Aborted
<1>4. lastRun' = None => calls' = {} /\ shown'.pages = None
    BY DEF ChipInv
<1> QED
    BY <1>1, <1>2, <1>3, <1>4 DEF ChipInv

LEMMA ChipStep ==
    ASSUME ChipInv, WalkInv, [Next]_vars
    PROVE  ChipInv'
<1>1. CASE PickersNext /\ UNCHANGED query
    BY <1>1, EditsGrow, EditKeepsChip DEF ChipInv
<1>2. CASE Run
  <2>1. /\ UNCHANGED <<group, bounds, version>> /\ IsDateRangeValid
        /\ HandleRun(bounds, version) /\ version \in Nat
      BY <1>2 DEF Run, pickers, view, ChipInv
  <2>2. bounds' = bounds /\ version' = version
      BY <2>1
  <2>3. HandleRun(bounds', version')
      BY <2>1, <2>2
  <2> QED
      BY <2>1, <2>2, <2>3, RunKeepsChip
<1>3. CASE LoadMore
    BY <1>3, LoadMoreKeepsChip
<1>4. ASSUME NEW c \in calls, Answers(c)
      PROVE  ChipInv'
    BY <1>4, AnswerKeepsChip
<1>5. ASSUME NEW c \in calls, Refuses(c)
      PROVE  ChipInv'
  <2> DEFINE refused == [c EXCEPT !.stage = "refused"]
  <2>1. calls' = (calls \ {c}) \cup {refused}
        /\ UNCHANGED <<group, bounds, version, lastRun, shown, newest>>
      BY <1>5 DEF Refuses, pickers, view
  <2>2. refused.n = c.n /\ refused.request = c.request
      OBVIOUS
  <2> HIDE DEF refused
  <2> QED
      BY <2>1, <2>2, SettledKeepsChip
<1>6. ASSUME NEW c \in calls, RefusalRead(c) \/ Fails(c) \/ AbortSettles(c)
      PROVE  ChipInv'
    BY <1>6, SettledKeepsChip DEF RefusalRead, Fails, AbortSettles, Settle, pickers, view
<1>7. ASSUME NEW r \in Ranges, SetRange(r)
      PROVE  ChipInv'
    BY <1>7, SettledKeepsChip DEF SetRange, pickers, panel
<1>8. CASE DataRangeAnswers
    BY <1>8, SettledKeepsChip DEF DataRangeAnswers, pickers, panel
<1>9. ASSUME NEW b \in Views, MoveEnd(b)
      PROVE  ChipInv'
    BY <1>9, MoveKeepsChip
<1>10. CASE UNCHANGED vars
    BY <1>10, SettledKeepsChip DEF vars, pickers, query, view, panel
<1> QED
    BY <1>1, <1>2, <1>3, <1>4, <1>5, <1>6, <1>7, <1>8, <1>9, <1>10 DEF Next, QueryNext

(* While nothing offers to run the query again, the pages are of the       *)
(* filters and of the part of the map that are seen.                       *)
THEOREM ChipShowsStaleness == Spec => []NoChipMeansCurrent
<1>1. Init => WalkInv /\ ChipInv
    BY DEF Init, PickersInit, WalkInv, OneWalk, ChipInv, NothingShown, Pages, None
<1>2. WalkInv /\ ChipInv /\ [Next]_vars => (WalkInv /\ ChipInv)'
    BY WalkStep, ChipStep
<1>3. ChipInv => NoChipMeansCurrent
    BY DEF ChipInv, FreshMatch, NoChipMeansCurrent, ShowRerunChip, ViewportChanged
<1> QED
    BY <1>1, <1>2, <1>3, PTL DEF Spec

-----------------------------------------------------------------------------
(* The modes of the map. *)

(* OneMode without the tuple. *)
LEMMA ModesApart ==
    OneMode <=>
        /\ \A x, y \in picking : x = y
        /\ \A x, y \in drawing : x = y
        /\ \A x, y \in airspacePicking : x = y
        /\ \A x, y \in menu : x = y
        /\ picking = None \/ drawing = None
        /\ picking = None \/ airspacePicking = None
        /\ picking = None \/ menu = None
        /\ drawing = None \/ airspacePicking = None
        /\ drawing = None \/ menu = None
        /\ airspacePicking = None \/ menu = None
<1>1. modes[1] = picking /\ modes[2] = drawing /\ modes[3] = airspacePicking /\ modes[4] = menu
    BY DEF modes
<1>2. 1..4 = {1, 2, 3, 4}
    OBVIOUS
<1> HIDE DEF modes
<1> QED
    BY <1>1, <1>2 DEF OneMode

(* Only one mode is on, whatever the user arms while airspaces are looked  *)
(* up and whenever and in whatever order they arrive.                      *)
THEOREM ModesExclude == Spec => []OneMode
<1>1. Init => OneMode
    BY ModesApart DEF Init, PickersInit, None
<1>2. ASSUME OneMode, [Next]_vars
      PROVE  OneMode'
  <2>1. CASE UNCHANGED modes
      BY <1>2, <2>1 DEF OneMode
  <2>2. ASSUME NEW p, ArmPicker(p) \/ ArmDraw(p) \/ ArmAirspacePicker(p)
        PROVE  OneMode'
      BY <2>2, ModesApart DEF ArmPicker, ArmDraw, ArmAirspacePicker, Toggled, None, OneMode, modes
  <2>3. ASSUME NEW place, HandlePickPoint(place) \/ HandlePickAirspace(place)
        PROVE  OneMode'
      BY <1>2, <2>3, ModesApart DEF HandlePickPoint, HandlePickAirspace, None, OneMode, modes
  <2>4. ASSUME NEW polygon, HandleDrawComplete(polygon)
        PROVE  OneMode'
      BY <1>2, <2>4, ModesApart DEF HandleDrawComplete, None, OneMode, modes
  <2>5. ASSUME NEW l, LookupAnswers(l) \/ LookupFails(l)
        PROVE  OneMode'
      BY <1>2, <2>5, ModesApart DEF LookupAnswers, LookupFails, WithCandidates, None, OneMode, modes
  <2>6. ASSUME NEW airspace, ChooseAirspace(airspace)
        PROVE  OneMode'
      BY <1>2, <2>6, ModesApart DEF ChooseAirspace, None, OneMode, modes
  <2>7. CASE DismissMenu
      BY <1>2, <2>7, ModesApart DEF DismissMenu, None, OneMode, modes
  <2>8. CASE PickersNext
      BY <2>1, <2>2, <2>3, <2>4, <2>5, <2>6, <2>7, <2>8
         DEF PickersNext, AddFilter, RemoveFilter, SetShape
  <2>9. CASE QueryNext
      BY <2>1, <2>9 DEF QueryNext, Run, LoadMore, Answers, Refuses, RefusalRead, Fails,
         AbortSettles, SetRange, DataRangeAnswers, MoveEnd, pickers
  <2> QED
      BY <1>2, <2>1, <2>8, <2>9 DEF Next, vars, pickers
<1> QED
    BY <1>1, <1>2, PTL DEF Spec

-----------------------------------------------------------------------------
(* The end of the walk.                                                    *)

IsRequest(q) ==
    /\ q = [match |-> q.match, end |-> q.end, from |-> q.from, cursor |-> q.cursor]
    /\ q.end \in Int /\ q.from \in Option(Int) /\ q.cursor \in Option(Int)

(* Dates, cursors and requests are what they are in the code: at most one  *)
(* value each.                                                             *)
AppTypes ==
    /\ range.to \in Option(Nat) /\ range.from \in Option(Nat)
    /\ shown.cursor \in Option(Int) /\ shown.windowFrom \in SUBSET Int
    /\ \A r \in dataRange : r.first = Min(Flights) \div DayLen
    /\ \A c \in calls : IsRequest(c.request)
    /\ \A q \in asked : IsRequest(q) /\ q.cursor = None
    /\ \A page \in Pages : IsRequest(page.request)

(* While all pages are of the query of the last run, what it asks for and  *)
(* no page shows lies below the cursor that is kept.                       *)
BelowCursorInv ==
    \A request \in asked :
        shown.pages # None /\ (\A page \in Pages : SameQuery(page, request)) =>
            \A f \in Unseen(request) : \E c \in shown.cursor : f < c

LEMMA LeastExists ==
    ASSUME NEW S \in SUBSET Nat, S # {}
    PROVE  Min(S) \in S /\ \A t \in S : Min(S) <= t
<1> DEFINE less == {e \in Nat \X Nat : e[1] < e[2]}
<1>1. IsWellFoundedOn(less, Nat)
    BY NatLessThanWellFounded DEF OpToRel
<1>2. PICK t \in S : \A u \in S : ~(<<u, t>> \in less)
  <2> HIDE DEF less
  <2> QED
      BY <1>1, WFMin
<1>3. ASSUME NEW u \in S PROVE t <= u
  <2>1. u \in Nat /\ t \in Nat
      OBVIOUS
  <2>2. ~(u < t)
      BY <1>2, <2>1
  <2> QED
      BY <2>1, <2>2
<1>4. \E t1 \in S : \A u \in S : t1 <= u
    BY <1>3
<1> QED
    BY <1>4 DEF Min

(* How many flights of a set start later than one. *)
Later(f, S) == Cardinality({g \in S : g > f})

LEMMA LaterIsFewer ==
    ASSUME NEW S \in SUBSET Nat, IsFiniteSet(S), NEW f \in S, NEW g \in S, f < g
    PROVE  Later(g, S) \in Nat /\ Later(f, S) \in Nat /\ Later(g, S) < Later(f, S)
<1> DEFINE afterF == {h \in S : h > f}
           afterG == {h \in S : h > g}
<1>1. IsFiniteSet(afterF) /\ IsFiniteSet(afterG)
    BY FS_Subset
<1>2. Cardinality(afterF) \in Nat /\ Cardinality(afterG) \in Nat
    BY <1>1, FS_CardinalityType
<1>3. afterG \in SUBSET afterF /\ g \in afterF /\ g \notin afterG
  <2>1. \A h \in S : h > g => h > f
      OBVIOUS
  <2>2. g \in Nat /\ ~(g > g) /\ g > f
      OBVIOUS
  <2> QED
      BY <2>1, <2>2
<1>4. Cardinality(afterG) <= Cardinality(afterF) /\ Cardinality(afterG) # Cardinality(afterF)
  <2> HIDE DEF afterF, afterG
  <2> QED
      BY <1>1, <1>3, FS_Subset
<1> HIDE DEF afterF, afterG
<1>5. Cardinality(afterG) < Cardinality(afterF)
    BY <1>2, <1>4
<1> QED
    BY <1>2, <1>5 DEF Later, afterF, afterG

LEMMA LatestExists ==
    ASSUME NEW S \in SUBSET Nat, IsFiniteSet(S), S # {}
    PROVE  \E f \in S : (\A g \in S : g <= f) /\ Later(f, S) = 0
<1> DEFINE counts == {Later(f, S) : f \in S}
<1>1. ASSUME NEW f \in S PROVE Later(f, S) \in Nat
  <2>1. IsFiniteSet({g \in S : g > f})
      BY FS_Subset
  <2> QED
      BY <2>1, FS_CardinalityType DEF Later
<1>2. counts \in SUBSET Nat /\ counts # {}
    BY <1>1
<1>3. Min(counts) \in counts /\ \A n \in counts : Min(counts) <= n
  <2> HIDE DEF counts
  <2> QED
      BY <1>2, LeastExists
<1>4. PICK f \in S : Min(counts) = Later(f, S)
    BY <1>3
<1>5. ASSUME NEW g \in S, g > f PROVE FALSE
  <2>1. Later(g, S) \in Nat /\ Later(f, S) \in Nat /\ Later(g, S) < Later(f, S)
      BY <1>5, LaterIsFewer
  <2>2. Later(f, S) <= Later(g, S)
      BY <1>3, <1>4
  <2> QED
      BY <2>1, <2>2
<1>6. {g \in S : g > f} = {}
    BY <1>5
<1>7. Later(f, S) = 0
    BY <1>6, FS_EmptySet DEF Later
<1>8. \A g \in S : g <= f
    BY <1>5
<1> QED
    BY <1>7, <1>8

LEMMA FloorIsPlace ==
    ASSUME NEW q, IsRequest(q)
    PROVE  Floor(q) \in Int
<1> DEFINE ends   == {q.end} \cup q.cursor
           low    == Min(ends) - WindowDays * DayLen
           floors == {low} \cup q.from
<1>1. /\ q.end \in Int
      /\ q.cursor \in SUBSET Int /\ \A t, u \in q.cursor : t = u
      /\ q.from \in SUBSET Int /\ \A t, u \in q.from : t = u
    BY DEF IsRequest, Option
<1>2. Min(ends) \in Int
  <2>1. \E t \in ends : \A u \in ends : t <= u
    <3>1. CASE q.cursor = {}
        BY <1>1, <3>1
    <3>2. ASSUME NEW c \in q.cursor PROVE \E t \in ends : \A u \in ends : t <= u
      <4>1. ends = {q.end, c} /\ c \in Int
          BY <1>1
      <4> QED
          BY <1>1, <4>1
    <3> QED
        BY <3>1, <3>2
  <2>2. Min(ends) \in ends
      BY <2>1 DEF Min
  <2> QED
      BY <1>1, <2>2
<1>3. low \in Int
  <2>1. WindowDays \in Nat /\ DayLen \in Nat
      BY AppConstants
  <2>2. WindowDays * DayLen \in Int
      BY <2>1
  <2> HIDE DEF ends
  <2> QED
      BY <1>2, <2>2
<1>4. Floor(q) = Max(floors)
    BY DEF Floor
<1> HIDE DEF low
<1>5. \E t \in floors : \A u \in floors : t >= u
  <2>1. CASE q.from = {}
      BY <1>1, <1>3, <2>1
  <2>2. ASSUME NEW f \in q.from PROVE \E t \in floors : \A u \in floors : t >= u
    <3>1. floors = {low, f} /\ f \in Int
        BY <1>1
    <3> QED
        BY <1>3, <3>1
  <2> QED
      BY <2>1, <2>2
<1>6. Max(floors) \in floors
    BY <1>5 DEF Max
<1> QED
    BY <1>1, <1>3, <1>4, <1>6

(* What a page does not show of what is asked for below its cursor, lies   *)
(* below the cursor it is answered with.                                   *)
LEMMA PageLeavesBelow ==
    ASSUME NEW q, IsRequest(q), NEW f \in Wanted(q), \A c \in q.cursor : f < c,
           f \notin Page(q).flights
    PROVE  \E c \in Page(q).cursor : f < c
<1> DEFINE floor == Floor(q)
           rows  == {g \in Wanted(q) : g >= floor /\ \A c \in q.cursor : g < c}
           page  == {g \in rows : Cardinality({h \in rows : h > g}) < Limit}
           ends  == floor <= Min(Flights) \/ \E t \in q.from : floor <= t
           next  == IF Cardinality(rows) > Limit THEN {Min(page)} ELSE IF ends THEN None ELSE {floor}
<1>1. Page(q).flights = page /\ Page(q).cursor = next
    BY DEF Page
<1>2. floor \in Int
    BY FloorIsPlace
<1>3. Limit \in Nat /\ Limit > 0 /\ Flights \in SUBSET Nat /\ IsFiniteSet(Flights)
    BY AppConstants
<1>4. rows \in SUBSET Flights /\ IsFiniteSet(rows) /\ Cardinality(rows) \in Nat
  <2>1. rows \in SUBSET Flights
      BY DEF Wanted
  <2> HIDE DEF rows
  <2> QED
      BY <1>3, <2>1, FS_Subset, FS_CardinalityType
<1>5. page = {g \in rows : Later(g, rows) < Limit}
    BY DEF Later
<1>6. f \in Flights /\ f \in Nat /\ f \notin page
    BY <1>1, <1>3 DEF Wanted
<1>7. f \notin rows => f < floor
    BY <1>2, <1>6
<1>8. \A g \in rows : g >= floor
    OBVIOUS
<1>9. CASE Cardinality(rows) > Limit
  <2> HIDE DEF rows
  <2>1. rows # {}
      BY <1>3, <1>9, FS_EmptySet
  <2>2. PICK g \in rows : Later(g, rows) = 0
    <3>1. rows \in SUBSET Nat
        BY <1>3, <1>4
    <3> QED
        BY <1>4, <2>1, <3>1, LatestExists
  <2>3. page \in SUBSET Nat /\ page # {}
      BY <1>3, <1>4, <1>5, <2>2
  <2> HIDE DEF page
  <2>4. Min(page) \in page
      BY <2>3, LeastExists
  <2>5. Min(page) \in rows /\ Min(page) \in Nat /\ Later(Min(page), rows) < Limit
      BY <1>5, <2>3, <2>4
  <2>6. f < Min(page)
    <3>1. CASE f \notin rows
        BY <1>2, <1>6, <1>7, <1>8, <2>5, <3>1
    <3>2. CASE f \in rows
      <4>1. ~(Later(f, rows) < Limit) /\ f # Min(page)
          BY <1>5, <1>6, <2>4, <3>2
      <4>2. ASSUME Min(page) < f PROVE FALSE
        <5>1. /\ Later(f, rows) \in Nat /\ Later(Min(page), rows) \in Nat
              /\ Later(f, rows) < Later(Min(page), rows)
          <6>1. rows \in SUBSET Nat
              BY <1>3, <1>4
          <6> QED
              BY <1>4, <2>5, <3>2, <4>2, <6>1, LaterIsFewer
        <5> QED
            BY <1>3, <2>5, <4>1, <5>1
      <4> QED
          BY <1>6, <2>5, <4>1, <4>2
    <3> QED
        BY <3>1, <3>2
  <2>7. next = {Min(page)}
      BY <1>9
  <2> QED
      BY <1>1, <2>6, <2>7
<1>10. CASE ~(Cardinality(rows) > Limit)
  <2>1. f \notin rows
    <3> SUFFICES ASSUME f \in rows PROVE FALSE
        OBVIOUS
    <3> DEFINE after == {h \in rows : h > f}
    <3> HIDE DEF rows
    <3>1. after \in SUBSET (rows \ {f})
        BY <1>6
    <3>2. IsFiniteSet(rows \ {f}) /\ Cardinality(rows \ {f}) = Cardinality(rows) - 1
        BY <1>4, FS_RemoveElement
    <3> HIDE DEF after
    <3>3. IsFiniteSet(after) /\ Cardinality(after) <= Cardinality(rows \ {f})
        BY <3>1, <3>2, FS_Subset
    <3>4. Cardinality(after) \in Nat
        BY <3>3, FS_CardinalityType
    <3>5. Cardinality(after) < Limit
        BY <1>3, <1>4, <1>10, <3>2, <3>3, <3>4
    <3> QED
        BY <1>5, <1>6, <3>5 DEF after, Later
  <2>2. f < floor
      BY <1>7, <2>1
  <2>3. Min(Flights) <= f /\ Min(Flights) \in Nat
      BY <1>3, <1>6, LeastExists
  <2>4. \A t \in q.from : t \in Int /\ f >= t
      BY DEF Wanted, IsRequest, Option
  <2> HIDE DEF floor
  <2>5. ~ends
      BY <1>2, <1>6, <2>2, <2>3, <2>4
  <2> HIDE DEF rows
  <2>6. next = {floor}
      BY <1>10, <2>5
  <2> QED
      BY <1>1, <2>2, <2>6
<1> QED
    BY <1>9, <1>10

LEMMA RequestTyped ==
    ASSUME AppTypes, range.to # None, NEW b, NEW cursor \in Option(Int)
    PROVE  IsRequest(Request(b, cursor))
<1> DEFINE ends == {(t + 1) * DayLen : t \in range.to}
           from == {f * DayLen : f \in range.from}
<1>1. DayLen \in Nat
    BY AppConstants
<1>2. Max(ends) \in Int
  <2>1. PICK t \in range.to : TRUE
      BY DEF None
  <2>2. t \in Nat /\ \A u \in range.to : u = t
      BY DEF AppTypes, Option
  <2>3. (t + 1) * DayLen \in Int
      BY <1>1, <2>2
  <2>4. ends = {(t + 1) * DayLen}
      BY <2>2
  <2>5. Max({(t + 1) * DayLen}) = (t + 1) * DayLen
    <3> DEFINE end == (t + 1) * DayLen
    <3> HIDE DEF end
    <3>1. end \in Int
        BY <2>3 DEF end
    <3>2. Max({end}) = end
        BY <3>1 DEF Max
    <3> QED
        BY <3>2 DEF end
  <2> QED
      BY <2>3, <2>4, <2>5
<1>3. from \in Option(Int)
  <2>1. \A f \in range.from : f \in Nat /\ f * DayLen \in Int
      BY <1>1 DEF AppTypes, Option
  <2>2. \A f, g \in range.from : f = g
      BY DEF AppTypes, Option
  <2>3. from \subseteq Int
      BY <2>1
  <2>4. \A t, u \in from : t = u
      BY <2>2
  <2> HIDE DEF from
  <2> QED
      BY <2>3, <2>4 DEF Option
<1>4. Request(b, cursor) = [match |-> CompileGroup(b), end |-> Max(ends), from |-> from,
                            cursor |-> cursor]
    BY DEF Request
<1> HIDE DEF ends, from
<1> QED
    BY <1>2, <1>3, <1>4 DEF IsRequest

(* A run asks for the first page of what the filters and dates say. *)
LEMMA RunKeepsTypes ==
    ASSUME AppTypes, UNCHANGED <<range, dataRange>>, NEW b, NEW v, HandleRun(b, v)
    PROVE  AppTypes'
<1>1. CASE UNCHANGED panel
    BY <1>1 DEF panel, AppTypes, Pages
<1>2. CASE IsDateRangeValid
  <2> DEFINE q   == Request(b, None)
             new == [n |-> newest + 1, more |-> FALSE, request |-> q, stage |-> "sent"]
  <2>1. /\ calls' = calls \cup {new} /\ new.request = q
        /\ asked' = {q} /\ shown' = NothingShown
      BY <1>2 DEF HandleRun, Send
  <2>2. None \in Option(Int)
      BY DEF None, Option
  <2>3. IsRequest(q) /\ q.cursor = None
      BY <1>2, <2>2, RequestTyped, RequestFacts DEF IsDateRangeValid
  <2> HIDE DEF q, new
  <2>4. Pages' = {} /\ shown'.cursor = None /\ shown'.windowFrom = None
      BY <2>1 DEF Pages, NothingShown, None
  <2>5. \A c \in calls' : IsRequest(c.request)
      BY <2>1, <2>3 DEF AppTypes
  <2> QED
      BY <2>1, <2>2, <2>3, <2>4, <2>5 DEF AppTypes, None
<1> QED
    BY <1>1, <1>2 DEF HandleRun

LEMMA PageTyped ==
    ASSUME NEW q, IsRequest(q)
    PROVE  Page(q).cursor \in Option(Int) /\ Page(q).windowFrom \in Int
<1> DEFINE floor == Floor(q)
           rows  == {g \in Wanted(q) : g >= floor /\ \A c \in q.cursor : g < c}
           page  == {g \in rows : Cardinality({h \in rows : h > g}) < Limit}
           ends  == floor <= Min(Flights) \/ \E t \in q.from : floor <= t
           next  == IF Cardinality(rows) > Limit THEN {Min(page)} ELSE IF ends THEN None ELSE {floor}
<1>1. Page(q).cursor = next /\ Page(q).windowFrom = floor
    BY DEF Page
<1>2. floor \in Int
    BY FloorIsPlace
<1>3. Cardinality(rows) > Limit => Min(page) \in Int
  <2> SUFFICES ASSUME Cardinality(rows) > Limit PROVE Min(page) \in Int
      OBVIOUS
  <2>1. rows \in SUBSET Nat /\ IsFiniteSet(rows)
    <3>1. rows \in SUBSET Flights
        BY DEF Wanted
    <3> HIDE DEF rows
    <3> QED
        BY <3>1, FS_Subset, AppConstants
  <2>2. Limit \in Nat /\ Limit > 0
      BY AppConstants
  <2> HIDE DEF rows
  <2>3. rows # {}
      BY <2>2, FS_EmptySet
  <2>4. PICK g \in rows : Later(g, rows) = 0
      BY <2>1, <2>3, LatestExists
  <2>5. g \in page
      BY <2>2, <2>4 DEF Later
  <2>6. page \in SUBSET Nat
      BY <2>1
  <2> HIDE DEF page, next
  <2>7. Min(page) \in page
      BY <2>5, <2>6, LeastExists
  <2>8. \A m \in page : m \in Int
      BY <2>6
  <2> QED
      BY <2>7, <2>8
<1> HIDE DEF floor, rows, page, ends
<1>4. next \in Option(Int)
    BY <1>2, <1>3 DEF Option, None
<1> QED
    BY <1>1, <1>2, <1>4

LEMMA TypesStep ==
    ASSUME AppTypes, WalkInv, [Next]_vars
    PROVE  AppTypes'
<1>1. CASE UNCHANGED query
    BY <1>1 DEF query, view, panel, AppTypes, Pages
<1>2. CASE Run
    BY <1>2, RunKeepsTypes DEF Run, view
<1>3. CASE LoadMore
  <2> DEFINE q   == Request(bounds, shown.cursor)
             new == [n |-> newest + 1, more |-> TRUE, request |-> q, stage |-> "sent"]
  <2>1. /\ calls' = calls \cup {new} /\ new.request = q
        /\ UNCHANGED <<range, dataRange, asked, shown>>
      BY <1>3 DEF LoadMore, Send, view
  <2>2. IsRequest(q)
      BY <1>3, RequestTyped DEF LoadMore, AppTypes
  <2> HIDE DEF q, new
  <2> QED
      BY <2>1, <2>2 DEF AppTypes, Pages
<1>4. ASSUME NEW c \in calls, Answers(c)
      PROVE  AppTypes'
  <2> DEFINE page == Page(c.request)
  <2>1. /\ calls' = calls \ {c} /\ UNCHANGED <<range, dataRange, asked>>
        /\ shown'.cursor = page.cursor /\ shown'.windowFrom = {page.windowFrom}
      BY <1>4 DEF Answers, Settle, view
  <2>2. page.cursor \in Option(Int) /\ page.windowFrom \in Int /\ page.request = c.request
      BY PageTyped, PageFacts DEF AppTypes
  <2>3. \A p \in Pages' : p \in Pages \/ p = page
      BY <1>4, AnsweredPages
  <2> HIDE DEF page
  <2> QED
      BY <2>1, <2>2, <2>3 DEF AppTypes
<1>5. ASSUME NEW c \in calls, Refuses(c)
      PROVE  AppTypes'
  <2> DEFINE refused == [c EXCEPT !.stage = "refused"]
  <2>1. calls' = (calls \ {c}) \cup {refused} /\ UNCHANGED <<range, dataRange, shown, asked>>
      BY <1>5 DEF Refuses, view
  <2>2. refused.request = c.request
      OBVIOUS
  <2> HIDE DEF refused
  <2> QED
      BY <2>1, <2>2 DEF AppTypes, Pages
<1>6. ASSUME NEW c \in calls, RefusalRead(c) \/ Fails(c) \/ AbortSettles(c)
      PROVE  AppTypes'
  <2>1. calls' \subseteq calls /\ UNCHANGED <<range, dataRange, shown, asked>>
      BY <1>6 DEF RefusalRead, Fails, AbortSettles, Settle, view
  <2> QED
      BY <2>1 DEF AppTypes, Pages
<1>7. ASSUME NEW r \in Ranges, SetRange(r)
      PROVE  AppTypes'
  <2>1. range' = r /\ UNCHANGED <<dataRange, shown, calls, asked>>
      BY <1>7 DEF SetRange, panel
  <2>2. r.to \in Option(Nat) /\ r.from \in Option(Nat)
      BY AppConstants
  <2> QED
      BY <2>1, <2>2 DEF AppTypes, Pages
<1>8. CASE DataRangeAnswers
  <2> DEFINE last == Max(Flights) \div DayLen
             days == [first |-> Min(Flights) \div DayLen, last |-> last]
             only == [to |-> {last}, from |-> None]
  <2>1. /\ dataRange' = {days}
        /\ range' = IF shared THEN range ELSE only
        /\ UNCHANGED <<shown, calls, asked>>
      BY <1>8 DEF DataRangeAnswers, panel
  <2>2. last \in Nat
    <3>1. \E f \in Flights : \A g \in Flights : g <= f
        BY LatestExists, AppConstants
    <3>2. Max(Flights) \in Flights
        BY <3>1 DEF Max
    <3>3. Max(Flights) \in Nat /\ DayLen \in Nat \ {0}
        BY <3>2, AppConstants
    <3>4. \A n \in Nat, d \in Nat \ {0} : n \div d \in Nat
        OBVIOUS
    <3> QED
        BY <3>3, <3>4
  <2>3. only.to = {last} /\ only.from = None /\ days.first = Min(Flights) \div DayLen
      OBVIOUS
  <2> HIDE DEF last, days, only
  <2>4. range'.to \in Option(Nat) /\ range'.from \in Option(Nat)
      BY <2>1, <2>2, <2>3 DEF AppTypes, Option, None
  <2>5. \A r \in dataRange' : r.first = Min(Flights) \div DayLen
      BY <2>1, <2>3
  <2> QED
      BY <2>1, <2>4, <2>5 DEF AppTypes, Pages
<1>9. ASSUME NEW b \in Views, MoveEnd(b)
      PROVE  AppTypes'
  <2>1. UNCHANGED <<range, dataRange>> /\ (UNCHANGED panel \/ HandleRun({b}, version + 1))
      BY <1>9 DEF MoveEnd, panel
  <2>2. CASE UNCHANGED panel
      BY <2>1, <2>2 DEF panel, AppTypes, Pages
  <2> QED
      BY <2>1, <2>2, RunKeepsTypes
<1>10. CASE UNCHANGED vars
    BY <1>1, <1>10 DEF vars
<1> QED
    BY <1>1, <1>2, <1>3, <1>4, <1>5, <1>6, <1>7, <1>8, <1>9, <1>10 DEF Next, QueryNext

LEMMA SameWanted ==
    ASSUME NEW q, IsRequest(q), NEW page, page.request = q, NEW request, SameQuery(page, request)
    PROVE  Wanted(request) = Wanted(q)
<1>1. q = [match |-> q.match, end |-> q.end, from |-> q.from, cursor |-> q.cursor]
    BY DEF IsRequest
<1>2. request = [q EXCEPT !.cursor = None]
    BY DEF SameQuery
<1>3. request.match = q.match /\ request.end = q.end /\ request.from = q.from
    BY <1>1, <1>2
<1> QED
    BY <1>3 DEF Wanted, Satisfies

(* The page that goes on where the last one ended leaves nothing between.  *)
LEMMA AnswerLeavesBelow ==
    ASSUME AppTypes, WalkInv, BelowCursorInv, NEW c \in calls, Answers(c)
    PROVE  BelowCursorInv'
<1> DEFINE q == c.request
           page == Page(q)
<1>1. IsRequest(q) /\ page.request = q
    BY PageFacts DEF AppTypes
<1>2. /\ page \in Pages' /\ (c.more => Pages \subseteq Pages')
    BY AnsweredPages
<1>3. asked' = asked /\ shown'.cursor = page.cursor /\ ~Aborted(c)
    BY DEF Answers
<1>4. IF c.more THEN shown.pages # None /\ q.cursor = shown.cursor ELSE asked = {q}
    BY <1>3 DEF WalkInv
<1> HIDE DEF q
<1> SUFFICES ASSUME NEW request \in asked', \A p \in Pages' : SameQuery(p, request),
                    NEW f \in Unseen(request)'
             PROVE  \E at \in page.cursor : f < at
    BY <1>3 DEF BelowCursorInv
<1>5. Wanted(request) = Wanted(q)
  <2> HIDE DEF page
  <2> QED
      BY <1>1, <1>2, SameWanted
<1>6. f \in Wanted(q) /\ \A p \in Pages' : f \notin p.flights
    BY <1>5 DEF Unseen, Wanted, Satisfies
<1>7. \A at \in q.cursor : f < at
  <2>1. CASE ~c.more
      BY <1>3, <1>4, <2>1 DEF AppTypes, None
  <2>2. CASE c.more
    <3>1. Pages \subseteq Pages' /\ shown.pages # None /\ q.cursor = shown.cursor
        BY <1>2, <1>4, <2>2
    <3>2. f \in Unseen(request)
        BY <1>5, <1>6, <3>1 DEF Unseen
    <3>3. \E at \in shown.cursor : f < at
        BY <1>3, <3>1, <3>2 DEF BelowCursorInv
    <3> QED
        BY <3>1, <3>3 DEF AppTypes, Option
  <2> QED
      BY <2>1, <2>2
<1>8. f \notin page.flights
    BY <1>2, <1>6
<1> QED
    BY <1>1, <1>6, <1>7, <1>8, PageLeavesBelow

LEMMA BelowStep ==
    ASSUME AppTypes, WalkInv, BelowCursorInv, [Next]_vars
    PROVE  BelowCursorInv'
<1>1. ASSUME UNCHANGED <<shown, asked>> PROVE BelowCursorInv'
    BY <1>1 DEF BelowCursorInv, Unseen, Pages, Wanted, Satisfies, SameQuery
<1>2. ASSUME NEW b, NEW v, HandleRun(b, v) PROVE BelowCursorInv'
  <2>1. UNCHANGED panel \/ shown' = NothingShown
      BY <1>2 DEF HandleRun
  <2>2. UNCHANGED <<shown, asked>> \/ shown'.pages = None
      BY <2>1 DEF panel, NothingShown
  <2> QED
      BY <1>1, <2>2 DEF BelowCursorInv
<1>3. CASE UNCHANGED query
    BY <1>1, <1>3 DEF query, panel
<1>4. CASE Run
    BY <1>2, <1>4 DEF Run
<1>5. CASE LoadMore
    BY <1>1, <1>5 DEF LoadMore
<1>6. ASSUME NEW c \in calls, Answers(c)
      PROVE  BelowCursorInv'
    BY <1>6, AnswerLeavesBelow
<1>7. ASSUME NEW c \in calls, Refuses(c) \/ RefusalRead(c) \/ Fails(c) \/ AbortSettles(c)
      PROVE  BelowCursorInv'
    BY <1>1, <1>7 DEF Refuses, RefusalRead, Fails, AbortSettles
<1>8. ASSUME NEW r \in Ranges, SetRange(r)
      PROVE  BelowCursorInv'
    BY <1>1, <1>8 DEF SetRange, panel
<1>9. CASE DataRangeAnswers
    BY <1>1, <1>9 DEF DataRangeAnswers, panel
<1>10. ASSUME NEW b \in Views, MoveEnd(b)
       PROVE  BelowCursorInv'
    BY <1>1, <1>2, <1>10 DEF MoveEnd, panel
<1>11. CASE UNCHANGED vars
    BY <1>3, <1>11 DEF vars
<1> QED
    BY <1>3, <1>4, <1>5, <1>6, <1>7, <1>8, <1>9, <1>10, <1>11 DEF Next, QueryNext

(* The button to load earlier results goes only when everything that the   *)
(* query asks for is shown, or what is not lies in a window that reaches   *)
(* the first day of the archive.                                           *)
THEOREM EarlierResultsOffered == Spec => []OfferedUntilFirstWindow
<1>1. Init => WalkInv /\ BelowCursorInv
    BY DEF Init, WalkInv, OneWalk, BelowCursorInv, NothingShown, None
<1>2. Init => AppTypes
  <2> SUFFICES ASSUME Init PROVE AppTypes
      OBVIOUS
  <2>1. None \in Option(Nat) /\ None \in Option(Int) /\ None \in SUBSET Int
      BY DEF None, Option
  <2>2. range.to \in Option(Nat) /\ range.from \in Option(Nat)
    <3>1. CASE shared
      <4>1. range = SharedRange
          BY <3>1 DEF Init
      <4>2. SharedRange \in [to : Option(Nat), from : Option(Nat)]
          BY AppConstants
      <4> QED
          BY <4>1, <4>2
    <3>2. CASE ~shared
        BY <2>1, <3>2 DEF Init
    <3> QED
        BY <3>1, <3>2
  <2>3. shown.cursor = None /\ shown.windowFrom = None /\ Pages = {}
      BY DEF Init, NothingShown, Pages, None
  <2>4. \A r : r \notin dataRange /\ r \notin calls /\ r \notin asked
      BY DEF Init, None
  <2> QED
      BY <2>1, <2>2, <2>3, <2>4 DEF AppTypes
<1>3. WalkInv /\ AppTypes /\ BelowCursorInv /\ [Next]_vars
          => (WalkInv /\ AppTypes /\ BelowCursorInv)'
    BY WalkStep, TypesStep, BelowStep
<1>4. AppTypes /\ BelowCursorInv => OfferedUntilFirstWindow
  <2> SUFFICES ASSUME AppTypes, BelowCursorInv, NEW request \in asked,
                      shown.pages # None, ~HasMore, \A page \in Pages : SameQuery(page, request),
                      NEW f \in Unseen(request)
               PROVE  /\ \E c \in shown.cursor : f < c
                      /\ \E t \in shown.windowFrom, r \in dataRange :
                            t <= r.first * DayLen /\ t <= f
      BY DEF OfferedUntilFirstWindow
  <2>1. PICK c \in shown.cursor : f < c
      BY DEF BelowCursorInv
  <2>2. PICK t \in shown.windowFrom, r \in dataRange : ~(t > r.first * DayLen)
      BY <2>1 DEF HasMore, None
  <2>3. t \in Int /\ r.first = Min(Flights) \div DayLen
      BY DEF AppTypes
  <2>4. f \in Flights /\ Flights \in SUBSET Nat
      BY AppConstants DEF Unseen, Wanted
  <2>5. Min(Flights) \in Nat /\ Min(Flights) <= f /\ f \in Nat
      BY <2>4, LeastExists
  <2>6. DayLen \in Nat \ {0}
      BY AppConstants
  <2>7. \A n \in Nat, d \in Nat \ {0} : (n \div d) * d \in Int /\ (n \div d) * d <= n
      OBVIOUS
  <2>8. r.first * DayLen \in Int /\ r.first * DayLen <= Min(Flights)
      BY <2>3, <2>5, <2>6, <2>7
  <2> DEFINE first == r.first * DayLen
  <2> HIDE DEF first
  <2>9. t <= first /\ first \in Int /\ first <= Min(Flights)
      BY <2>2, <2>3, <2>8 DEF first
  <2>10. t <= first /\ t <= f
      BY <2>3, <2>5, <2>9
  <2> QED
      BY <2>1, <2>10 DEF first
<1> QED
    BY <1>1, <1>2, <1>3, <1>4, PTL DEF Spec

=============================================================================
