--------------------------- MODULE SchedulerProofs ---------------------------
(***************************************************************************)
(* A batch reads one whole release unless two imports work on its date at  *)
(* once, batches are begun oldest first, and the listing leaves no         *)
(* candidate out: for any number of dates, releases, files, failures and   *)
(* crashes.                                                                *)
(***************************************************************************)
EXTENDS Scheduler, SequenceTheorems, WellFoundedInduction, TLAPS

(* A fetch is at one of the files of its release. *)
Underway(f) == f.step \in {"file", "open", "stream", "lost", "etag"}

FetchInv(f) ==
    /\ f.step = "none" => f = NoFetch
    /\ f.step # "none" => f.date \in Dates /\ f.tag \in Tags
    /\ Underway(f) => f.part \in 1..Files[f.tag]

(* What is fetched or queued belongs to the release that was found for its *)
(* date, and a date is at one place only.                                  *)
QueueInv ==
    /\ pc # "work" => queue = NoTags /\ fetch = NoFetch /\ current = None
    /\ \A d \in Dates : queue[d] # None => queue[d] = job.found[d] /\ d # current /\ d # fetch.date
    /\ FetchInv(fetch)
    /\ fetch.step = "none" => queue = NoTags
    /\ fetch.step # "none" => fetch.date # current /\ fetch.tag = job.found[fetch.date]
    /\ current # None => job.found[current] \in Tags

(* What the import beside it works on is in the histories. *)
BesideInv ==
    /\ FetchInv(otherFetch)
    /\ otherFetch.step # "none" => otherFetch.date # otherCurrent
    /\ Dates \cap {otherFetch.date, otherCurrent} \subseteq others
    /\ Dates \cap {fetch.date, current} \cap {otherFetch.date, otherCurrent} \subseteq overlapped

(* The years that an import still has to list. *)
YearsInv ==
    /\ pc # "idle" => job.years \in IF job.reimport THEN {<<1>>, <<2>>, <<1, 2>>}
                                   ELSE {<<2, 1>>, <<1, 0>>, <<1>>, <<0>>}
    /\ job.page >= 1
    /\ \A y \in Years : \A i \in DOMAIN releases[y] : Year(releases[y][i].date) = y

IInv == TypeOK /\ QueueInv /\ YearsInv /\ BesideInv

(* The dates of a year that were begun lie below all that may still be     *)
(* begun, and none is of a year still to be listed.                        *)
InOrder(d, e) == Year(d) = Year(e) => d < e

OrderInv ==
    /\ \A d \in Dates : job.found[d] # None => pc # "idle" /\ Year(d) = Head(job.years)
    /\ \A d \in job.begun, e \in Dates : queue[e] # None => InOrder(d, e)
    /\ fetch.step # "none" => /\ \A d \in job.begun : InOrder(d, fetch.date)
                              /\ \A e \in Dates : queue[e] # None => fetch.date < e
    /\ \A d \in job.begun, i \in DOMAIN job.years :
          i > 1 \/ pc = "list" => /\ Year(d) # job.years[i]
                                  /\ job.reimport => Year(d) < job.years[i]
    /\ \A d \in job.begun : job.reimport => Year(d) <= Head(job.years)
    /\ \A d \in job.begun : current # None => d = current \/ InOrder(d, current)

(* Without releases anew, the list of a year is in order, and what a scan  *)
(* has not taken yet lies on the pages that it has not read.               *)
Before == (job.page - 1) * PageSize

Listed(d) == \E i \in DOMAIN releases[Year(d)] : releases[Year(d)][i].date = d

Ahead(d) == \E i \in DOMAIN releases[Year(d)] : releases[Year(d)][i].date = d /\ i > Before

Candidate(d) == Year(d) = Head(job.years) /\ d > job.scanFrom

ListInv ==
    /\ \A y \in Years : \A i, j \in DOMAIN releases[y] :
          i < j => releases[y][i].date > releases[y][j].date
    /\ \A d \in job.known : Listed(d)
    /\ pc = "list" /\ ~job.reimport /\ job.clean =>
          \A d \in job.known :
              Candidate(d) => job.found[d] # None \/ status[d] = "succeeded" \/ d \in others
                                 \/ Ahead(d)
    /\ AllCandidatesFound

-----------------------------------------------------------------------------
(* A set of numbers that is not empty has a least one, and one that is     *)
(* bounded has a greatest one.                                             *)
LEMMA Minimum ==
    ASSUME NEW S, S \subseteq Nat, S # {}
    PROVE  Min(S) \in S /\ \A x \in S : Min(S) <= x
<1> DEFINE less == {e \in Nat \X Nat : e[1] < e[2]}
<1>1. IsWellFoundedOn(less, Nat)
    BY NatLessThanWellFounded DEF OpToRel
<1>2. \E x \in S : \A y \in S : ~(<<y, x>> \in less)
  <2> HIDE DEF less
  <2> QED
      BY <1>1, WFMin
<1>3. PICK x \in S : \A y \in S : ~(<<y, x>> \in less)
    BY <1>2
<1>4. \A y \in S : x \in Nat /\ y \in Nat /\ ~(y < x)
    BY <1>3
<1>5. \A y \in S : x <= y
    BY <1>4
<1> QED
    BY <1>5 DEF Min

LEMMA Maximum ==
    ASSUME NEW n \in Nat, NEW S, S \subseteq 0..n, S # {}
    PROVE  Max(S) \in S /\ \A x \in S : x <= Max(S)
<1> DEFINE T == {n - x : x \in S}
<1>1. T \subseteq Nat /\ T # {}
  <2>1. ASSUME NEW x \in S PROVE n - x \in Nat
    <3>1. x \in 0..n
        OBVIOUS
    <3> QED
        BY <3>1
  <2> QED
      BY <2>1
<1>2. Min(T) \in T /\ \A x \in T : Min(T) <= x
    BY <1>1, Minimum
<1>3. PICK x \in S : Min(T) = n - x
    BY <1>2
<1>4. \A y \in S : n - x <= n - y
    BY <1>2, <1>3
<1>5. \A y \in S : x >= y
    BY <1>4
<1> QED
    BY <1>5 DEF Max

(* What holds of 0 and with each number of the next holds of all.          *)
LEMMA SetInduction ==
    ASSUME NEW S, 0 \in S, \A n \in Nat : n \in S => n + 1 \in S
    PROVE  Nat \subseteq S
<1> SUFFICES ASSUME Nat \ S # {} PROVE FALSE
    OBVIOUS
<1> DEFINE m == Min(Nat \ S)
<1>1. m \in Nat \ S /\ \A x \in Nat \ S : m <= x
    BY Minimum
<1> HIDE DEF m
<1>2. m # 0 /\ m - 1 \in Nat
    BY <1>1
<1>3. m - 1 \in S
    BY <1>1, <1>2
<1> QED
    BY <1>1, <1>2, <1>3

(* The parts of every release are in the cache directory. *)
LEMMA PartsCover == \A t \in Tags : Files[t] \in Nat /\ 1..Files[t] \subseteq Parts
<1> DEFINE S == {n \in Nat : \E m \in Nat : \A t \in 1..Len(Files) : t <= n => Files[t] <= m}
<1>1. Tags = 1..Len(Files) /\ \A t \in Tags : Files[t] \in Nat
    BY SchedulerConstants DEF Tags
<1>3. Len(Files) \in Nat
    BY SchedulerConstants
<1>2. Nat \subseteq S
  <2>1. 0 \in S
      BY <1>3
  <2>2. ASSUME NEW n \in Nat, n \in S PROVE n + 1 \in S
    <3>1. PICK m \in Nat : \A t \in 1..Len(Files) : t <= n => Files[t] <= m
        BY <2>2
    <3>2. CASE n + 1 \in Tags
      <4>1. m + Files[n + 1] \in Nat /\ Files[n + 1] \in Nat
          BY <1>1, <3>2
      <4>2. ASSUME NEW t \in 1..Len(Files), t <= n + 1 PROVE Files[t] <= m + Files[n + 1]
        <5>1. Files[t] \in Nat
            BY <1>1
        <5>2. t <= n \/ t = n + 1
            BY <4>2
        <5> QED
            BY <3>1, <4>1, <5>1, <5>2
      <4> DEFINE bound == m + Files[n + 1]
      <4>3. bound \in Nat /\ \A t \in 1..Len(Files) : t <= n + 1 => Files[t] <= bound
          BY <4>1, <4>2
      <4> HIDE DEF bound
      <4>4. n + 1 \in Nat
          OBVIOUS
      <4> QED
          BY <1>3, <4>3, <4>4
    <3>3. CASE n + 1 \notin Tags
      <4>1. \A t \in 1..Len(Files) : t <= n + 1 => t <= n
          BY <1>1, <3>3
      <4>2. \A t \in 1..Len(Files) : t <= n + 1 => Files[t] <= m
          BY <3>1, <4>1
      <4>3. n + 1 \in Nat
          OBVIOUS
      <4> QED
          BY <1>3, <3>1, <4>2, <4>3
    <3> QED
        BY <3>2, <3>3
  <2> HIDE DEF S
  <2> QED
      BY <2>1, <2>2, SetInduction
<1>4. PICK m \in Nat : \A t \in Tags : Files[t] <= m
  <2>1. Len(Files) \in S
    <3> HIDE DEF S
    <3> QED
        BY <1>2, <1>3
  <2>2. PICK m \in Nat : \A t \in 1..Len(Files) : t <= Len(Files) => Files[t] <= m
      BY <2>1
  <2>3. \A t \in Tags : t \in 1..Len(Files) /\ t <= Len(Files)
      BY <1>1, <1>3
  <2> QED
      BY <2>2, <2>3
<1> DEFINE counts == {0} \cup {Files[t] : t \in Tags}
<1>5. counts \subseteq 0..m /\ counts # {}
    BY <1>1, <1>4
<1>6. Max(counts) \in counts /\ \A x \in counts : x <= Max(counts)
    BY <1>5, Maximum
<1>7. Max(counts) \in Nat
    BY <1>5, <1>6
<1>8. \A t \in Tags : Files[t] <= Max(counts)
    BY <1>6
<1> HIDE DEF counts
<1>9. Parts = 1..Max(counts)
    BY DEF Parts, counts
<1> QED
    BY <1>1, <1>7, <1>8, <1>9

Found == [Dates -> Tags \cup {None}]

LEMMA ConstantFacts ==
    /\ LastDate \in Nat /\ Dates \subseteq Nat \ {0} /\ Tags \subseteq Nat \ {0} /\ Parts \subseteq Nat \ {0}
    /\ None \notin Dates /\ None \notin Tags
    /\ NoTags \in Found
    /\ \A d \in Dates : Year(d) \in Years /\ \A e \in Dates : d <= e => Year(d) <= Year(e)
<1>1. LastDate \in Nat /\ NewYear \in Nat /\ Tags = 1..Len(Files) /\ Len(Files) \in Nat
    BY SchedulerConstants DEF Tags
<1>2. Dates \subseteq Nat \ {0} /\ Tags \subseteq Nat \ {0} /\ None \notin Dates /\ None \notin Tags
    BY <1>1 DEF Dates, None
<1>3. Parts \subseteq Nat \ {0}
    BY DEF Parts
<1>4. \A d \in Dates : Year(d) \in Years /\ \A e \in Dates : d <= e => Year(d) <= Year(e)
    BY <1>1, <1>2 DEF Year, Years
<1> QED
    BY <1>1, <1>2, <1>3, <1>4 DEF Found, NoTags

(* The next date of a queue is the first that is in it. *)
LEMMA NextOfQueue ==
    ASSUME NEW q \in Found, q # NoTags
    PROVE  /\ NextOf(q) \in Dates /\ q[NextOf(q)] \in Tags
           /\ \A e \in Dates : q[e] # None => NextOf(q) <= e
<1> DEFINE S == {d \in Dates : q[d] # None}
<1>1. S \subseteq Nat
    BY ConstantFacts
<1>2. S # {}
    BY DEF Found, NoTags
<1>3. Min(S) \in S /\ \A x \in S : Min(S) <= x
    BY <1>1, <1>2, Minimum
<1>4. NextOf(q) = Min(S)
    BY DEF NextOf, Oldest
<1> QED
    BY <1>3, <1>4 DEF Found

(* Either nothing is left to fetch, or the first date leaves the queue. *)
LEMMA FetchNextFacts ==
    ASSUME NEW q \in Found, FetchNext(q)
    PROVE  \/ q = NoTags /\ queue' = NoTags /\ fetch' = NoFetch
           \/ \E d \in Dates :
                 /\ q[d] \in Tags /\ \A e \in Dates : q[e] # None => d <= e
                 /\ queue' \in Found
                 /\ \A e \in Dates : queue'[e] = IF e = d THEN None ELSE q[e]
                 /\ fetch' = [date |-> d, tag |-> q[d], step |-> "release", part |-> 0]
<1>1. CASE q = NoTags
    BY <1>1 DEF FetchNext
<1>2. CASE q # NoTags
  <2> DEFINE d == NextOf(q)
  <2>1. d \in Dates /\ q[d] \in Tags /\ \A e \in Dates : q[e] # None => d <= e
      BY <1>2, NextOfQueue
  <2>2. /\ fetch' = [date |-> d, tag |-> q[d], step |-> "release", part |-> 0]
        /\ queue' = [q EXCEPT ![d] = None]
      BY <1>2 DEF FetchNext
  <2> HIDE DEF d
  <2>3. queue' \in Found /\ \A e \in Dates : queue'[e] = IF e = d THEN None ELSE q[e]
      BY <2>1, <2>2 DEF Found
  <2> QED
      BY <2>1, <2>2, <2>3
<1> QED
    BY <1>1, <1>2

LEMMA FetchNextType ==
    ASSUME NEW q \in Found, FetchNext(q)
    PROVE  queue' \in Found /\ fetch' \in FetchType
BY FetchNextFacts, ConstantFacts DEF FetchType, FetchSteps, NoFetch

Release == [date : Dates, tag : Tags]

LEMMA ReleaseOf ==
    ASSUME NEW s \in Seq(Release)
    PROVE  /\ Len(s) \in Nat /\ DOMAIN s = 1..Len(s)
           /\ \A i \in DOMAIN s : s[i] \in Release /\ s[i].date \in Dates /\ s[i].tag \in Tags
<1>1. Len(s) \in Nat /\ DOMAIN s = 1..Len(s)
    BY LenProperties
<1>2. \A i \in DOMAIN s : s[i] \in Release
    BY <1>1, ElementOfSeq
<1>3. \A r \in Release : r.date \in Dates /\ r.tag \in Tags
    BY DEF Release
<1> QED
    BY <1>1, <1>2, <1>3

(* What is found on a page is a release of that date. *)
LEMMA FoundOnPage ==
    ASSUME TypeOK, NEW page \in Seq(Release), NEW d \in Dates
    PROVE  /\ FoundAfter(page) \in Found
           /\ job.found[d] # None => FoundAfter(page)[d] = job.found[d]
           /\ FoundAfter(page)[d] = job.found[d] \/ \E i \in DOMAIN page : page[i].date = d
           /\ job.found[d] # None \/ (~job.reimport /\ status[d] = "succeeded")
                 \/ FoundAfter(page)[d] # None
                 \/ \A i \in ReadOf(page) : page[i].date # d
<1> DEFINE At(e) == {i \in ReadOf(page) : page[i].date = e}
<1>1. DOMAIN page = 1..Len(page) /\ Len(page) \in Nat
    BY ReleaseOf
<1>2. \A e \in Dates : At(e) # {} => Min(At(e)) \in At(e) /\ At(e) \subseteq DOMAIN page
  <2>1. \A e \in Dates : At(e) \subseteq DOMAIN page /\ At(e) \subseteq Nat
      BY <1>1 DEF ReadOf
  <2> QED
      BY <2>1, Minimum
<1>3. ASSUME NEW e \in Dates, At(e) # {} PROVE page[Min(At(e))].tag \in Tags /\ page[Min(At(e))].date = e
  <2> DEFINE i == Min(At(e))
  <2>1. i \in At(e) /\ i \in DOMAIN page
      BY <1>2, <1>3
  <2> HIDE DEF i
  <2>2. page[i].tag \in Tags /\ page[i].date = e
      BY <2>1, ReleaseOf
  <2> QED
      BY <2>2 DEF i
<1>4. job.found \in Found
    BY DEF TypeOK, Found
<1>5. \A e \in Dates : FoundAfter(page)[e] =
          IF job.found[e] # None \/ At(e) = {} \/ (~job.reimport /\ status[e] = "succeeded")
          THEN job.found[e] ELSE page[Min(At(e))].tag
    BY DEF FoundAfter
<1>6. FoundAfter(page) = [e \in Dates |-> FoundAfter(page)[e]]
    BY DEF FoundAfter
<1> HIDE DEF At
<1>7. FoundAfter(page) \in Found
    BY <1>3, <1>4, <1>5, <1>6 DEF Found
<1>8. FoundAfter(page)[d] = job.found[d] \/ \E i \in DOMAIN page : page[i].date = d
    BY <1>2, <1>3, <1>5
<1>9. ASSUME NEW i \in ReadOf(page), page[i].date = d PROVE At(d) # {}
    BY <1>9 DEF At
<1> QED
    BY <1>3, <1>5, <1>7, <1>8, <1>9, ConstantFacts

(* A part of a sequence of at most size elements, from a place on, holds   *)
(* all that follows unless it is full.                                     *)
LEMMA PlacesOfPart ==
    ASSUME NEW len \in Nat, NEW before \in Nat, NEW size \in Nat \ {0}, NEW n \in Nat,
           n <= len, n <= before + size, n = len \/ n = before + size,
           NEW m, m = IF before + 1 <= n THEN n - (before + 1) + 1 ELSE 0
    PROVE  /\ m \in Nat
           /\ \A i \in 1..m : /\ before + i \in 1..len /\ i \in 1 .. n - (before + 1) + 1
                              /\ before + 1 + i - 1 = before + i
           /\ \A j \in 1..len : j > before =>
                 \/ j - before \in 1..m
                 \/ m = size /\ \A i \in 1..m : before + i < j
OBVIOUS

LEMMA PartOfSequence ==
    ASSUME NEW s \in Seq(Release), NEW before \in Nat, NEW size \in Nat \ {0}, NEW n \in Nat,
           n <= Len(s), n <= before + size, n = Len(s) \/ n = before + size
    PROVE  LET part == SubSeq(s, before + 1, n)
           IN  /\ part \in Seq(Release)
               /\ \A i \in DOMAIN part : before + i \in DOMAIN s /\ part[i] = s[before + i]
               /\ \A j \in DOMAIN s : j > before =>
                     \/ j - before \in DOMAIN part
                     \/ Len(part) = size /\ \A i \in DOMAIN part : before + i < j
<1> DEFINE part == SubSeq(s, before + 1, n)
           m == Len(part)
<1>1. Len(s) \in Nat /\ DOMAIN s = 1..Len(s)
    BY ReleaseOf
<1>2. part \in Seq(Release)
    OBVIOUS
<1>3. m = IF before + 1 <= n THEN n - (before + 1) + 1 ELSE 0
    OBVIOUS
<1>4. \A i \in DOMAIN part : part[i] = s[before + 1 + i - 1]
    OBVIOUS
<1> HIDE DEF part
<1>5. DOMAIN part = 1..m
    BY <1>2, LenProperties
<1> HIDE DEF m
<1>6. /\ \A i \in 1..m : before + i \in 1..Len(s) /\ before + 1 + i - 1 = before + i
      /\ \A j \in 1..Len(s) : j > before =>
            \/ j - before \in 1..m
            \/ m = size /\ \A i \in 1..m : before + i < j
  <2> DEFINE len == Len(s)
  <2>1. len \in Nat /\ n <= len /\ (n = len \/ n = before + size)
      BY <1>1
  <2> HIDE DEF len
  <2>2. /\ \A i \in 1..m : before + i \in 1..len /\ before + 1 + i - 1 = before + i
        /\ \A j \in 1..len : j > before =>
              \/ j - before \in 1..m
              \/ m = size /\ \A i \in 1..m : before + i < j
      BY <1>3, <2>1, PlacesOfPart
  <2> QED
      BY <2>2 DEF len
<1>7. \A i \in DOMAIN part : before + i \in DOMAIN s /\ part[i] = s[before + i]
    BY <1>1, <1>4, <1>5, <1>6
<1> QED
    BY <1>1, <1>2, <1>5, <1>6, <1>7 DEF part, m

(* A page holds the releases of the year from its first place on, all of   *)
(* them unless it is full.                                                 *)
LEMMA PageFacts ==
    ASSUME TypeOK, job.page >= 1, NEW y \in {0} \cup Years
    PROVE  LET page == Page(y, job.page)
           IN  /\ page \in Seq(Release)
               /\ Before \in Nat
               /\ y \in Years =>
                     /\ \A i \in DOMAIN page : /\ Before + i \in DOMAIN releases[y]
                                               /\ page[i] = releases[y][Before + i]
                     /\ \A j \in DOMAIN releases[y] : j > Before =>
                           \/ j - Before \in DOMAIN page
                           \/ Len(page) = PageSize /\ \A i \in DOMAIN page : Before + i < j
<1>1. job.page \in Nat /\ PageSize \in Nat \ {0}
    BY SchedulerConstants DEF TypeOK
<1>2. Before \in Nat /\ job.page * PageSize = Before + PageSize
  <2>1. job.page - 1 \in Nat
      BY <1>1
  <2> DEFINE k == job.page - 1
  <2>2. k * PageSize \in Nat
      BY <1>1, <2>1
  <2>3. (k + 1) * PageSize = k * PageSize + PageSize
      BY <1>1, <2>1
  <2>4. job.page = k + 1
      BY <1>1
  <2> QED
      BY <2>2, <2>3, <2>4 DEF Before
<1>3. CASE y \in Years
  <2>1. releases[y] \in Seq(Release)
      BY <1>3 DEF TypeOK, Release
  <2> DEFINE n == Min({Before + PageSize, Len(releases[y])})
  <2>2. Page(y, job.page) = SubSeq(releases[y], Before + 1, n)
      BY <1>2, <1>3 DEF Page, Before
  <2> DEFINE before == Before
             s == releases[y]
  <2>3. before \in Nat /\ s \in Seq(Release) /\ Len(s) \in Nat
      BY <1>2, <2>1, ReleaseOf
  <2>4. /\ n \in Nat /\ n <= Len(s) /\ n <= before + PageSize
        /\ n = Len(s) \/ n = before + PageSize
    <3> HIDE DEF before, s
    <3> DEFINE S == {before + PageSize, Len(s)}
    <3>1. S \subseteq Nat /\ S # {}
        BY <1>1, <2>3
    <3>2. Min(S) \in S /\ \A x \in S : Min(S) <= x
        BY <3>1, Minimum
    <3>3. n = Min(S)
        BY DEF before, s
    <3> QED
        BY <3>1, <3>2, <3>3
  <2> HIDE DEF n
  <2> HIDE DEF before, s
  <2>5. /\ SubSeq(s, before + 1, n) \in Seq(Release)
        /\ \A i \in DOMAIN SubSeq(s, before + 1, n) :
              before + i \in DOMAIN s /\ SubSeq(s, before + 1, n)[i] = s[before + i]
        /\ \A j \in DOMAIN s : j > before =>
              \/ j - before \in DOMAIN SubSeq(s, before + 1, n)
              \/ /\ Len(SubSeq(s, before + 1, n)) = PageSize
                 /\ \A i \in DOMAIN SubSeq(s, before + 1, n) : before + i < j
      BY <1>1, <2>3, <2>4, PartOfSequence
  <2> QED
      BY <1>2, <2>2, <2>5 DEF before, s
<1>4. CASE y \notin Years
    BY <1>2, <1>4 DEF Page
<1> QED
    BY <1>3, <1>4

-----------------------------------------------------------------------------
(* The inductive invariant. *)

JobType == [reimport : BOOLEAN, wanted : SUBSET Dates, years : Seq(Years \cup {0}), page : Nat,
            scanFrom : Nat, stop : BOOLEAN, found : Found, known : SUBSET Dates,
            clean : BOOLEAN, begun : SUBSET Dates]
FileType == [of : Tags \cup {None}, whole : BOOLEAN, etag : Tags \cup {None}]
BudgetType == [reissues : 0..MaxReissues, reimports : 0..MaxReimports, beside : 0..MaxBeside,
               errors : 0..MaxErrors, crashes : 0..MaxCrashes]

LEMMA Types ==
    TypeOK <=> /\ releases \in [Years -> Seq(Release)]
               /\ status \in [Dates -> {"none", "running", "succeeded", "errored"}]
               /\ dirs \subseteq Dates
               /\ disk \in [Dates -> [Parts -> FileType]]
               /\ pc \in {"idle", "list", "work"}
               /\ job \in JobType
               /\ queue \in Found
               /\ fetch \in FetchType
               /\ current \in Dates \cup {None}
               /\ otherFetch \in FetchType
               /\ otherCurrent \in Dates \cup {None}
               /\ others \subseteq Dates
               /\ overlapped \subseteq Dates
               /\ budget \in BudgetType
BY DEF TypeOK, Release, FileType, JobType, Found, BudgetType

LEMMA NextTypes ==
    ASSUME /\ releases' \in [Years -> Seq(Release)]
           /\ status' \in [Dates -> {"none", "running", "succeeded", "errored"}]
           /\ dirs' \subseteq Dates
           /\ disk' \in [Dates -> [Parts -> FileType]]
           /\ pc' \in {"idle", "list", "work"}
           /\ job' \in JobType
           /\ queue' \in Found
           /\ fetch' \in FetchType
           /\ current' \in Dates \cup {None}
           /\ otherFetch' \in FetchType
           /\ otherCurrent' \in Dates \cup {None}
           /\ others' \subseteq Dates
           /\ overlapped' \subseteq Dates
           /\ budget' \in BudgetType
    PROVE  TypeOK'
BY DEF TypeOK, Release, FileType, JobType, Found, BudgetType

LEMMA NoJobType == NoJob \in JobType /\ NoFetch \in FetchType
<1>1. <<>> \in Seq(Years \cup {0})
    OBVIOUS
<1> QED
    BY <1>1, ConstantFacts DEF NoJob, JobType, NoFetch, FetchType, FetchSteps

LEMMA NothingFetched == FetchInv(NoFetch) /\ NoFetch.date = None /\ NoFetch.step = "none"
BY DEF FetchInv, NoFetch, Underway

(* What becomes of the other import where it goes on or nothing of it      *)
(* changes.                                                                *)
LEMMA BesideKept ==
    ASSUME BesideInv, otherFetch'.date = otherFetch.date, UNCHANGED otherCurrent,
           FetchInv(otherFetch'), otherFetch'.step # "none" => otherFetch.step # "none",
           others \subseteq others', overlapped \subseteq overlapped',
           Dates \cap {fetch'.date, current'} \subseteq {fetch.date, current}
    PROVE  BesideInv'
BY DEF BesideInv, FetchInv, Underway, Dates

LEMMA BesideUnchanged ==
    ASSUME BesideInv, UNCHANGED beside, Dates \cap {fetch'.date, current'} \subseteq {fetch.date, current}
    PROVE  BesideInv'
BY BesideKept DEF BesideInv, beside, FetchInv, Underway

LEMMA InitIInv == Init => IInv
<1> SUFFICES ASSUME Init PROVE IInv
    OBVIOUS
<1> USE DEF Init
<1>1. /\ \A y \in Years : releases[y] = <<>> /\ DOMAIN releases[y] = {}
      /\ job = NoJob /\ pc = "idle" /\ queue = NoTags /\ fetch = NoFetch /\ current = None
    OBVIOUS
<1>2. TypeOK
  <2>1. budget \in BudgetType
      BY SchedulerConstants DEF BudgetType
  <2>2. releases \in [Years -> Seq(Release)]
    <3>1. <<>> \in Seq(Release)
        OBVIOUS
    <3> QED
        BY <3>1
  <2>3. disk \in [Dates -> [Parts -> FileType]]
      BY DEF FileType, Absent
  <2> QED
      BY <1>1, <2>1, <2>2, <2>3, NoJobType, ConstantFacts, Types
<1>3. QueueInv
    BY <1>1, NothingFetched DEF QueueInv, NoTags
<1>4. BesideInv
    BY NothingFetched, ConstantFacts DEF BesideInv
<1>5. YearsInv
    BY <1>1 DEF YearsInv, NoJob
<1> QED
    BY <1>2, <1>3, <1>4, <1>5 DEF IInv

(* Releases appear. *)
LEMMA PublishStep ==
    ASSUME IInv, NEW d \in Dates, Publish(d)
    PROVE  /\ IInv'
           /\ UNCHANGED <<status, dirs, disk, pc, job, queue, fetch, current, beside>>
           /\ \E tag \in Tags : releases' = [releases EXCEPT ![Year(d)] = <<[date |-> d, tag |-> tag]>> \o @]
<1> DEFINE tag == 1 + Max({0} \cup TagsOf(d))
<1>1. /\ tag \in Tags
      /\ releases' = [releases EXCEPT ![Year(d)] = <<[date |-> d, tag |-> tag]>> \o @]
      /\ UNCHANGED <<status, dirs, disk, pc, job, queue, fetch, current, beside>>
    BY DEF Publish
<1>2. budget' \in BudgetType
  <2>1. budget \in BudgetType
      BY Types DEF IInv
  <2>2. CASE UNCHANGED budget
      BY <2>1, <2>2
  <2>3. CASE budget.reissues > 0 /\ budget' = [budget EXCEPT !.reissues = @ - 1]
    <3>1. MaxReissues \in Nat
        BY SchedulerConstants
    <3>2. budget.reissues \in 0..MaxReissues
        BY <2>1 DEF BudgetType
    <3>3. budget.reissues - 1 \in 0..MaxReissues
        BY <2>3, <3>1, <3>2
    <3> QED
        BY <2>1, <2>3, <3>3 DEF BudgetType
  <2> QED
      BY <2>2, <2>3 DEF Publish
<1> HIDE DEF tag
<1>3. releases \in [Years -> Seq(Release)] /\ Year(d) \in Years
    BY Types, ConstantFacts DEF IInv
<1>4. <<[date |-> d, tag |-> tag]>> \in Seq(Release) /\ Len(<<[date |-> d, tag |-> tag]>>) = 1
  <2>1. [date |-> d, tag |-> tag] \in Release
      BY <1>1 DEF Release
  <2> QED
      BY <2>1
<1>5. releases' \in [Years -> Seq(Release)]
    BY <1>1, <1>3, <1>4
<1>6. TypeOK'
  <2>1. UNCHANGED status /\ UNCHANGED <<dirs, disk>> /\ UNCHANGED pc /\ UNCHANGED job
        /\ UNCHANGED queue /\ UNCHANGED fetch /\ UNCHANGED current /\ UNCHANGED otherFetch
        /\ UNCHANGED otherCurrent /\ UNCHANGED <<others, overlapped>>
      BY <1>1 DEF beside
  <2> QED
      BY <1>2, <1>5, <2>1, Types, NextTypes DEF IInv
<1>7. QueueInv' /\ BesideInv'
    BY <1>1, BesideUnchanged DEF IInv, QueueInv, FetchInv, Underway
<1>8. YearsInv'
  <2>1. ASSUME NEW y \in Years, NEW i \in DOMAIN releases'[y] PROVE Year(releases'[y][i].date) = y
    <3> DEFINE s == releases[y]
               new == <<[date |-> d, tag |-> tag]>>
    <3>1. s \in Seq(Release) /\ Len(s) \in Nat /\ DOMAIN s = 1..Len(s)
        BY <1>3, ReleaseOf
    <3>2. CASE y # Year(d)
      <4>1. releases'[y] = s
          BY <1>1, <1>3, <3>2
      <4> QED
          BY <2>1, <4>1 DEF IInv, YearsInv
    <3>3. CASE y = Year(d)
      <4>1. releases'[y] = new \o s
          BY <1>1, <1>3, <3>3
      <4>2. /\ Len(new \o s) = 1 + Len(s) /\ new \o s \in Seq(Release)
            /\ \A k \in 1 .. 1 + Len(s) : (new \o s)[k] = IF k <= 1 THEN new[k] ELSE s[k - 1]
          BY <1>4, <3>1, ConcatProperties
      <4>3. i \in 1 .. 1 + Len(s)
          BY <3>1, <4>1, <4>2, ReleaseOf
      <4>4. CASE i = 1
        <5>1. releases'[y][i] = [date |-> d, tag |-> tag]
            BY <4>1, <4>2, <4>3, <4>4
        <5> QED
            BY <5>1, <3>3
      <4>5. CASE i # 1
        <5>1. releases'[y][i] = s[i - 1] /\ i - 1 \in DOMAIN s
            BY <3>1, <4>1, <4>2, <4>3, <4>5
        <5> QED
            BY <5>1 DEF IInv, YearsInv
      <4> QED
          BY <4>4, <4>5
    <3> QED
        BY <3>2, <3>3
  <2> QED
      BY <1>1, <2>1 DEF IInv, YearsInv
<1> QED
    BY <1>1, <1>6, <1>7, <1>8 DEF IInv

(* An import starts. *)
LEMMA ScanFromType ==
    ASSUME TypeOK, NEW today \in Dates
    PROVE  ScanFrom(today) \in Nat
<1> DEFINE succeeded == {0} \cup {d \in Dates : status[d] = "succeeded"}
<1>1. LatestSuccess \in Nat
  <2>1. LastDate \in Nat /\ succeeded \subseteq 0..LastDate /\ succeeded # {}
      BY ConstantFacts DEF Dates
  <2>2. Max(succeeded) \in succeeded
      BY <2>1, Maximum
  <2>3. LatestSuccess = Max(succeeded)
      BY DEF LatestSuccess
  <2> QED
      BY <2>1, <2>2, <2>3
<1> DEFINE a == LatestSuccess
           b == today - Lookback
<1>2. a \in Nat /\ b \in Int
    BY <1>1, ConstantFacts, SchedulerConstants
<1>3. Max({a, b}) \in {a, b} /\ Max({a, b}) >= a
  <2> HIDE DEF a, b
  <2>1. \E x \in {a, b} : \A y \in {a, b} : x >= y
    <3>1. CASE a >= b
        BY <1>2, <3>1
    <3>2. CASE b >= a
        BY <1>2, <3>2
    <3> QED
        BY <1>2, <3>1, <3>2
  <2> QED
      BY <2>1 DEF Max
<1>4. Max({a, b}) \in Nat
  <2> HIDE DEF a, b
  <2> QED
      BY <1>2, <1>3
<1>5. ScanFrom(today) \in {Max({a, b}), a}
    BY DEF ScanFrom
<1> QED
    BY <1>1, <1>4, <1>5

LEMMA JobFields ==
    ASSUME job \in JobType
    PROVE  /\ job.reimport \in BOOLEAN /\ job.wanted \subseteq Dates /\ job.years \in Seq(Years \cup {0})
           /\ job.page \in Nat /\ job.scanFrom \in Nat /\ job.stop \in BOOLEAN /\ job.found \in Found
           /\ job.known \subseteq Dates /\ job.clean \in BOOLEAN /\ job.begun \subseteq Dates
BY DEF JobType

LEMMA ReleasedDates ==
    ASSUME TypeOK
    PROVE  Released \subseteq Dates
<1> SUFFICES ASSUME NEW y \in Years, NEW i \in DOMAIN releases[y] PROVE releases[y][i].date \in Dates
    BY DEF Released, ToSet
<1>1. releases[y] \in Seq(Release)
    BY Types
<1> QED
    BY <1>1, ReleaseOf

LEMMA StartScanStep ==
    ASSUME IInv, NEW today \in Dates, StartScan(today)
    PROVE  /\ IInv'
           /\ pc' = "list" /\ job'.found = NoTags /\ job'.begun = {} /\ job'.page = 1
           /\ ~job'.reimport /\ job'.known = Released
           /\ job'.years = <<Year(today), Year(today) - 1>>
           /\ UNCHANGED <<releases, status, dirs, disk, queue, fetch, current, budget>>
<1> DEFINE y == Year(today)
<1>1. y \in Years
    BY ConstantFacts
<1>2. job' = [NoJob EXCEPT !.years = <<y, y - 1>>, !.scanFrom = ScanFrom(today), !.known = Released]
    BY DEF StartScan
<1>3. <<y, y - 1>> \in Seq(Years \cup {0}) /\ <<y, y - 1>> \in {<<2, 1>>, <<1, 0>>}
  <2> HIDE DEF y
  <2>1. y = 1 \/ y = 2
      BY <1>1 DEF Years
  <2> QED
      BY <2>1 DEF Years
<1>4. /\ job' \in JobType
      /\ job'.found = NoTags /\ job'.begun = {} /\ job'.page = 1 /\ ~job'.reimport
      /\ job'.known = Released /\ job'.years = <<y, y - 1>>
    BY <1>2, <1>3, ScanFromType, ReleasedDates, ConstantFacts DEF IInv, JobType, NoJob
<1>5. /\ pc = "idle" /\ pc' = "list" /\ others' = Dates \cap {otherFetch.date, otherCurrent}
      /\ UNCHANGED <<releases, status, dirs, disk, queue, fetch, current, budget>>
      /\ UNCHANGED <<otherFetch, otherCurrent, overlapped>>
    BY DEF StartScan
<1>6. TypeOK'
    BY <1>4, <1>5, Types, NextTypes DEF IInv
<1>7. QueueInv'
    BY <1>5, NothingFetched DEF IInv, QueueInv, NoTags
<1>8. BesideInv'
    BY <1>5 DEF IInv, BesideInv, FetchInv, Underway
<1>9. YearsInv'
    BY <1>3, <1>4, <1>5 DEF IInv, YearsInv
<1> QED
    BY <1>4, <1>5, <1>6, <1>7, <1>8, <1>9 DEF IInv

LEMMA StartReimportStep ==
    ASSUME IInv, NEW dates \in SUBSET Dates, StartReimport(dates)
    PROVE  /\ IInv'
           /\ pc' = "list" /\ job'.found = NoTags /\ job'.begun = {} /\ job'.page = 1
           /\ job'.reimport /\ job'.known = {}
           /\ UNCHANGED <<releases, status, dirs, disk, queue, fetch, current, beside>>
           /\ budget'.reissues = budget.reissues
<1> DEFINE years == {Year(d) : d \in dates}
<1>1. years \subseteq Years /\ years # {}
    BY ConstantFacts DEF StartReimport
<1>2. Upwards(years) \in {<<1>>, <<2>>, <<1, 2>>}
  <2> HIDE DEF years
  <2>1. CASE years = Years
      BY <2>1 DEF Upwards
  <2>2. CASE years # Years
    <3>1. (CHOOSE y \in years : TRUE) \in years
        BY <1>1
    <3>2. (CHOOSE y \in years : TRUE) = 1 \/ (CHOOSE y \in years : TRUE) = 2
        BY <1>1, <3>1 DEF Years
    <3> QED
        BY <2>2, <3>2 DEF Upwards
  <2> QED
      BY <2>1, <2>2
<1>3. Upwards(years) \in Seq(Years \cup {0})
  <2>1. <<1>> \in Seq(Years \cup {0}) /\ <<2>> \in Seq(Years \cup {0}) /\ <<1, 2>> \in Seq(Years \cup {0})
      BY DEF Years
  <2> QED
      BY <1>2, <2>1
<1>4. job' = [NoJob EXCEPT !.reimport = TRUE, !.wanted = dates, !.years = Upwards(years)]
    BY DEF StartReimport
<1> HIDE DEF years
<1>5. /\ job' \in JobType
      /\ job'.found = NoTags /\ job'.begun = {} /\ job'.page = 1 /\ job'.reimport
      /\ job'.known = {} /\ job'.years = Upwards(years)
    BY <1>3, <1>4, ConstantFacts DEF JobType, NoJob
<1>6. /\ pc = "idle" /\ pc' = "list"
      /\ UNCHANGED <<releases, status, dirs, disk, queue, fetch, current, beside>>
    BY DEF StartReimport
<1>7. budget' \in BudgetType /\ budget'.reissues = budget.reissues
  <2>1. budget \in BudgetType /\ budget.reimports > 0 /\ budget' = [budget EXCEPT !.reimports = @ - 1]
      BY Types DEF IInv, StartReimport
  <2>2. MaxReimports \in Nat
      BY SchedulerConstants
  <2>3. budget.reimports \in 0..MaxReimports
      BY <2>1 DEF BudgetType
  <2>4. budget.reimports - 1 \in 0..MaxReimports
      BY <2>1, <2>2, <2>3
  <2> QED
      BY <2>1, <2>4 DEF BudgetType
<1>8. TypeOK'
    BY <1>5, <1>6, <1>7, Types, NextTypes DEF IInv, beside
<1>9. QueueInv'
    BY <1>6, NothingFetched DEF IInv, QueueInv, NoTags
<1>10. BesideInv'
    BY <1>6, BesideUnchanged DEF IInv
<1>11. YearsInv'
    BY <1>2, <1>5, <1>6 DEF IInv, YearsInv
<1> QED
    BY <1>5, <1>6, <1>7, <1>8, <1>9, <1>10, <1>11 DEF IInv

(* The listing goes on, or its year is over and what was found is queued.  *)
LEMMA StartsFetching ==
    ASSUME NEW q \in Found, FetchNext(q), NEW found,
           \A d \in Dates : q[d] # None => q[d] = found[d]
    PROVE  /\ queue' \in Found /\ fetch' \in FetchType
           /\ \A d \in Dates : queue'[d] # None =>
                 queue'[d] = found[d] /\ q[d] # None /\ d # fetch'.date
           /\ fetch'.step \in {"none", "release"}
           /\ fetch'.step = "none" => fetch' = NoFetch /\ queue' = NoTags
           /\ fetch'.step # "none" =>
                 /\ fetch'.date \in Dates /\ q[fetch'.date] # None
                 /\ fetch'.tag \in Tags /\ fetch'.tag = found[fetch'.date]
                 /\ \A e \in Dates : q[e] # None => fetch'.date <= e
<1>1. queue' \in Found /\ fetch' \in FetchType
    BY FetchNextType
<1>2. CASE q = NoTags /\ queue' = NoTags /\ fetch' = NoFetch
    BY <1>1, <1>2 DEF NoTags, NoFetch
<1>3. ASSUME NEW d \in Dates, q[d] \in Tags, \A e \in Dates : q[e] # None => d <= e,
             \A e \in Dates : queue'[e] = IF e = d THEN None ELSE q[e],
             fetch' = [date |-> d, tag |-> q[d], step |-> "release", part |-> 0]
      PROVE  /\ \A e \in Dates : queue'[e] # None =>
                   queue'[e] = found[e] /\ q[e] # None /\ e # fetch'.date
             /\ fetch'.step = "release"
             /\ fetch'.date = d /\ q[d] # None /\ fetch'.tag = q[d]
  <2>1. q[d] # None
      BY <1>3, ConstantFacts
  <2> QED
      BY <1>3, <2>1
<1> QED
    BY <1>1, <1>2, <1>3, FetchNextFacts

LEMMA QueueBeside ==
    ASSUME TypeOK, BesideInv, NEW q, FetchNext(q),
           \/ current' = None
           \/ current' = fetch.date
    PROVE  /\ BesideInv' /\ others' = others /\ overlapped \subseteq overlapped'
           /\ overlapped' \subseteq Dates /\ UNCHANGED <<otherFetch, otherCurrent>>
<1>1. /\ overlapped' = overlapped \cup (Dates \cap {fetch'.date} \cap {otherFetch.date, otherCurrent})
      /\ otherFetch' = otherFetch /\ otherCurrent' = otherCurrent /\ others' = others
    BY DEF FetchNext
<1>2. overlapped \subseteq Dates
    BY Types
<1>3. FetchInv(otherFetch')
    BY <1>1 DEF BesideInv
<1>4. Dates' = Dates
    BY DEF Dates
<1>5. None \notin Dates
    BY ConstantFacts
<1> QED
    BY <1>1, <1>2, <1>3, <1>4, <1>5 DEF BesideInv, FetchInv, Underway

ToQueue(found) == [d \in Dates |-> IF job.reimport /\ d \notin job.wanted THEN None ELSE found[d]]

LEMMA QueueBegins ==
    ASSUME IInv, NEW found \in Found, BeginQueue(found), pc = "list",
           UNCHANGED <<releases, status, dirs, disk, current>>,
           job' \in JobType, job'.found = found, job'.years = job.years, job'.page = job.page,
           job'.reimport = job.reimport, budget' \in BudgetType
    PROVE  /\ IInv' /\ pc' = "work" /\ UNCHANGED others
           /\ \A d \in Dates : queue'[d] # None => found[d] # None
           /\ fetch'.step # "none" =>
                 /\ found[fetch'.date] # None
                 /\ \A e \in Dates : queue'[e] # None => fetch'.date < e
<1> DEFINE q == ToQueue(found)
<1>1. q \in Found /\ \A d \in Dates : q[d] # None => q[d] = found[d] /\ found[d] # None
    BY DEF Found, ToQueue
<1>2. pc' = "work" /\ FetchNext(q)
    BY DEF BeginQueue, ToQueue
<1> HIDE DEF q
<1>3. /\ queue' \in Found /\ fetch' \in FetchType
      /\ \A d \in Dates : queue'[d] # None => queue'[d] = found[d] /\ q[d] # None /\ d # fetch'.date
      /\ fetch'.step \in {"none", "release"}
      /\ fetch'.step = "none" => fetch' = NoFetch /\ queue' = NoTags
      /\ fetch'.step # "none" =>
            /\ fetch'.date \in Dates /\ q[fetch'.date] # None
            /\ fetch'.tag \in Tags /\ fetch'.tag = found[fetch'.date]
            /\ \A e \in Dates : q[e] # None => fetch'.date <= e
    BY <1>1, <1>2, StartsFetching
<1>4. current = None /\ current' = None
    BY DEF IInv, QueueInv
<1>7. /\ BesideInv' /\ others' = others /\ overlapped' \subseteq Dates
      /\ UNCHANGED <<otherFetch, otherCurrent>>
    BY <1>2, <1>4, QueueBeside DEF IInv
<1>5. TypeOK'
    BY <1>2, <1>3, <1>7, Types, NextTypes DEF IInv
<1>6. QueueInv'
    BY <1>2, <1>3, <1>4, <1>7, NothingFetched, ConstantFacts DEF QueueInv, FetchInv, Underway
<1>8. YearsInv'
    BY <1>2 DEF IInv, YearsInv
<1>9. fetch'.step # "none" =>
          /\ found[fetch'.date] # None
          /\ \A e \in Dates : queue'[e] # None => fetch'.date < e
  <2> SUFFICES ASSUME fetch'.step # "none"
               PROVE  /\ found[fetch'.date] # None
                      /\ \A e \in Dates : queue'[e] # None => fetch'.date < e
      OBVIOUS
  <2>1. \A e \in Dates : queue'[e] # None => fetch'.date <= e /\ e # fetch'.date
      BY <1>3
  <2>2. fetch'.date \in Dates /\ q[fetch'.date] # None
      BY <1>3
  <2>3. found[fetch'.date] # None
      BY <1>1, <2>2
  <2>4. \A e \in Dates : e \in Nat
      BY ConstantFacts
  <2>5. \A e \in Dates : queue'[e] # None => fetch'.date < e
    <3> DEFINE d == fetch'.date
    <3>1. d \in Nat
        BY <2>2, <2>4
    <3> HIDE DEF d
    <3>2. \A e \in Dates : queue'[e] # None => d <= e /\ e # d
        BY <2>1 DEF d
    <3>3. \A e \in Dates : queue'[e] # None => d < e
        BY <2>4, <3>1, <3>2
    <3> QED
        BY <3>3 DEF d
  <2> QED
      BY <2>3, <2>5
<1> QED
    BY <1>1, <1>2, <1>3, <1>5, <1>6, <1>7, <1>8, <1>9 DEF IInv

LEMMA HeadOfYears ==
    ASSUME IInv, pc # "idle"
    PROVE  Head(job.years) \in {0} \cup Years
BY DEF IInv, YearsInv, Years

LEMMA ListPageStep ==
    ASSUME IInv, ListPage
    PROVE  LET page == Page(Head(job.years), job.page)
           IN  /\ IInv' /\ page \in Seq(Release)
               /\ job'.found = FoundAfter(page) /\ job'.years = job.years /\ job'.begun = job.begun
               /\ job'.reimport = job.reimport /\ job'.known = job.known /\ job'.scanFrom = job.scanFrom
               /\ job'.clean = job.clean
               /\ UNCHANGED <<releases, status, dirs, disk, current, others, budget>>
               /\ \/ /\ pc' = "work" /\ (ReadOf(page) # DOMAIN page \/ Len(page) < PageSize)
                     /\ \A d \in Dates : queue'[d] # None => job'.found[d] # None
                     /\ fetch'.step # "none" =>
                           /\ job'.found[fetch'.date] # None
                           /\ \A e \in Dates : queue'[e] # None => fetch'.date < e
                  \/ /\ pc' = pc /\ UNCHANGED <<queue, fetch>> /\ job'.page = job.page + 1
                     /\ ReadOf(page) = DOMAIN page
<1> DEFINE page == Page(Head(job.years), job.page)
           found == FoundAfter(page)
           stop == ReadOf(page) # DOMAIN page
<1>1. TypeOK /\ pc = "list" /\ job \in JobType /\ budget \in BudgetType /\ job.page >= 1
    BY Types DEF IInv, ListPage, YearsInv
<1>2. page \in Seq(Release)
    BY <1>1, HeadOfYears, PageFacts
<1>3. found \in Found
  <2> HIDE DEF page
  <2>1. \A d \in Dates : found \in Found
      BY <1>1, <1>2, FoundOnPage
  <2>2. found = [d \in Dates |-> found[d]]
      BY DEF FoundAfter
  <2> QED
      BY <2>1, <2>2 DEF Found
<1>4. UNCHANGED <<releases, status, dirs, disk, current, budget>>
    BY DEF ListPage
<1>5. CASE stop \/ LastPage(page)
  <2>1. job' = [job EXCEPT !.found = found, !.stop = stop] /\ BeginQueue(found)
      BY <1>5 DEF ListPage
  <2> HIDE DEF found
  <2>2. /\ job' \in JobType
        /\ job'.found = found /\ job'.years = job.years /\ job'.begun = job.begun
        /\ job'.reimport = job.reimport /\ job'.known = job.known /\ job'.scanFrom = job.scanFrom
        /\ job'.clean = job.clean /\ job'.page = job.page
      BY <1>1, <1>3, <2>1 DEF JobType
  <2>3. /\ IInv' /\ pc' = "work" /\ UNCHANGED others
        /\ \A d \in Dates : queue'[d] # None => found[d] # None
        /\ fetch'.step # "none" =>
              /\ found[fetch'.date] # None
              /\ \A e \in Dates : queue'[e] # None => fetch'.date < e
      BY <1>1, <1>3, <1>4, <2>1, <2>2, QueueBegins
  <2> QED
      BY <1>2, <1>4, <1>5, <2>2, <2>3 DEF LastPage, found
<1>6. CASE ~(stop \/ LastPage(page))
  <2>1. job' = [job EXCEPT !.found = found, !.page = @ + 1] /\ UNCHANGED <<pc, queue, fetch, beside>>
      BY <1>6 DEF ListPage
  <2> HIDE DEF found
  <2>2. /\ job' \in JobType
        /\ job'.found = found /\ job'.years = job.years /\ job'.begun = job.begun
        /\ job'.reimport = job.reimport /\ job'.known = job.known /\ job'.scanFrom = job.scanFrom
        /\ job'.clean = job.clean /\ job'.page = job.page + 1
    <3> DEFINE next == job.page + 1
    <3>1. next \in Nat
        BY <1>1, JobFields
    <3>2. job' = [job EXCEPT !.found = found, !.page = next]
        BY <2>1
    <3> HIDE DEF next
    <3>3. /\ job' \in JobType
          /\ job'.found = found /\ job'.years = job.years /\ job'.begun = job.begun
          /\ job'.reimport = job.reimport /\ job'.known = job.known /\ job'.scanFrom = job.scanFrom
          /\ job'.clean = job.clean /\ job'.page = next
        BY <1>1, <1>3, <3>1, <3>2 DEF JobType
    <3> QED
        BY <3>3 DEF next
  <2>3. TypeOK'
      BY <1>1, <1>4, <2>1, <2>2, Types, NextTypes DEF beside
  <2>4. QueueInv'
      BY <1>1, <1>4, <2>1, NothingFetched DEF IInv, QueueInv, NoTags
  <2>5. BesideInv'
      BY <1>4, <2>1, BesideUnchanged DEF IInv
  <2>6. YearsInv'
      BY <1>1, <1>4, <2>1, <2>2 DEF IInv, YearsInv, JobType
  <2> QED
      BY <1>2, <1>4, <1>6, <2>1, <2>2, <2>3, <2>4, <2>5, <2>6 DEF found, IInv, beside
<1> QED
    BY <1>5, <1>6

LEMMA ListPageFailsStep ==
    ASSUME IInv, ListPageFails
    PROVE  /\ IInv' /\ pc' = "work" /\ ~job'.clean
           /\ job'.found = job.found /\ job'.years = job.years /\ job'.begun = job.begun
           /\ job'.reimport = job.reimport /\ job'.known = job.known
           /\ UNCHANGED <<releases, status, dirs, disk, current>> /\ budget'.reissues = budget.reissues
           /\ \A d \in Dates : queue'[d] # None => job'.found[d] # None
           /\ fetch'.step # "none" =>
                 /\ job'.found[fetch'.date] # None
                 /\ \A e \in Dates : queue'[e] # None => fetch'.date < e
<1>1. /\ pc = "list" /\ job \in JobType /\ budget \in BudgetType /\ budget.errors > 0
      /\ budget' = [budget EXCEPT !.errors = @ - 1]
      /\ job' = [job EXCEPT !.clean = FALSE] /\ BeginQueue(job.found)
      /\ UNCHANGED <<releases, status, dirs, disk, current>>
    BY Types DEF IInv, ListPageFails
<1>2. budget' \in BudgetType /\ budget'.reissues = budget.reissues
  <2>1. MaxErrors \in Nat
      BY SchedulerConstants
  <2>2. budget.errors \in 0..MaxErrors
      BY <1>1 DEF BudgetType
  <2>3. budget.errors - 1 \in 0..MaxErrors
      BY <1>1, <2>1, <2>2
  <2> QED
      BY <1>1, <2>3 DEF BudgetType
<1>3. /\ job' \in JobType /\ ~job'.clean
      /\ job'.found = job.found /\ job'.years = job.years /\ job'.begun = job.begun
      /\ job'.reimport = job.reimport /\ job'.known = job.known /\ job'.page = job.page
    BY <1>1 DEF JobType
<1>4. job.found \in Found
    BY <1>1, JobFields
<1>5. /\ IInv' /\ pc' = "work"
      /\ \A d \in Dates : queue'[d] # None => job.found[d] # None
      /\ fetch'.step # "none" =>
            /\ job.found[fetch'.date] # None
            /\ \A e \in Dates : queue'[e] # None => fetch'.date < e
  <2> DEFINE found == job.found
  <2>1. found \in Found /\ BeginQueue(found) /\ job'.found = found
      BY <1>1, <1>3, <1>4
  <2> HIDE DEF found
  <2>2. /\ IInv' /\ pc' = "work"
        /\ \A d \in Dates : queue'[d] # None => found[d] # None
        /\ fetch'.step # "none" =>
              /\ found[fetch'.date] # None
              /\ \A e \in Dates : queue'[e] # None => fetch'.date < e
      BY <1>1, <1>2, <1>3, <2>1, QueueBegins
  <2> QED
      BY <2>2 DEF found
<1> QED
    BY <1>1, <1>2, <1>3, <1>5

(* The fetch of a release goes on: what an import fetches keeps its date   *)
(* and tag.                                                                *)
Same(f, f2) ==
    /\ f2 \in FetchType /\ FetchInv(f2) /\ f2.date = f.date /\ f2.tag = f.tag
    /\ f2.step = "none" <=> f.step = "none"

LEMMA FetchFields ==
    ASSUME IInv, fetch.step # "none"
    PROVE  /\ fetch \in FetchType /\ fetch.date \in Dates /\ fetch.date # current
           /\ fetch.tag \in Tags /\ fetch.tag = job.found[fetch.date]
           /\ Files[fetch.tag] \in Nat /\ 1..Files[fetch.tag] \subseteq Parts
           /\ pc = "work"
<1>1. fetch \in FetchType
    BY Types DEF IInv
<1>2. /\ fetch.date \in Dates /\ fetch.date # current
      /\ fetch.tag \in Tags /\ fetch.tag = job.found[fetch.date]
    BY DEF IInv, QueueInv, FetchInv
<1>3. Files[fetch.tag] \in Nat /\ 1..Files[fetch.tag] \subseteq Parts
    BY <1>2, PartsCover
<1>4. pc = "work"
    BY DEF IInv, QueueInv, NoFetch
<1> QED
    BY <1>1, <1>2, <1>3, <1>4

(* The file that a fetch is at. *)
LEMMA AtFile ==
    ASSUME NEW f \in FetchType, FetchInv(f), Underway(f)
    PROVE  /\ f.date \in Dates /\ f.tag \in Tags /\ f.step # "none"
           /\ Files[f.tag] \in Nat /\ 1..Files[f.tag] \subseteq Parts
           /\ f.part \in 1..Files[f.tag] /\ f.part \in Parts
<1>1. f.step # "none"
    BY DEF Underway
<1>2. f.date \in Dates /\ f.tag \in Tags /\ f.part \in 1..Files[f.tag]
    BY <1>1 DEF FetchInv
<1> QED
    BY <1>1, <1>2, PartsCover

(* A fetch that goes on to a step of its own. *)
LEMMA ToStep ==
    ASSUME NEW f \in FetchType, FetchInv(f), Underway(f), NEW step,
           step \in {"open", "stream", "lost", "etag", "failed", "ready"}
    PROVE  /\ Same(f, [f EXCEPT !.step = step])
           /\ [f EXCEPT !.step = step].step = step /\ [f EXCEPT !.step = step].part = f.part
<1> DEFINE f2 == [f EXCEPT !.step = step]
<1>1. f2 \in FetchType /\ f2.date = f.date /\ f2.tag = f.tag /\ f2.step = step /\ f2.part = f.part
    BY DEF FetchType, FetchSteps
<1> HIDE DEF f2
<1>2. f.step # "none" /\ f2.step # "none"
    BY <1>1 DEF Underway
<1>3. FetchInv(f2)
    BY <1>1, <1>2, AtFile DEF FetchInv
<1> QED
    BY <1>1, <1>2, <1>3 DEF Same, f2

LEMMA LostFacts ==
    ASSUME NEW g \in FetchType, FetchInv(g), NEW d, NEW parts
    PROVE  /\ Same(g, Lost(g, d, parts))
           /\ g.date # d => Lost(g, d, parts) = g
<1>1. CASE g.step = "stream" /\ g.date = d /\ g.part \in parts
  <2>1. Lost(g, d, parts) = [g EXCEPT !.step = "lost"]
      BY <1>1 DEF Lost
  <2>2. Underway(g)
      BY <1>1 DEF Underway
  <2> QED
      BY <1>1, <2>1, <2>2, ToStep
<1>2. CASE ~(g.step = "stream" /\ g.date = d /\ g.part \in parts)
  <2>1. Lost(g, d, parts) = g
      BY <1>2 DEF Lost
  <2> QED
      BY <2>1 DEF Same
<1> QED
    BY <1>1, <1>2

LEMMA NextFileFacts ==
    ASSUME NEW f \in FetchType, FetchInv(f), Underway(f)
    PROVE  /\ Same(f, NextFile(f))
           /\ \/ NextFile(f).step = "ready" /\ f.part = Files[f.tag]
              \/ NextFile(f).step = "file" /\ NextFile(f).part = f.part + 1
<1> DEFINE n == Files[f.tag]
           next == f.part + 1
<1>1. n \in Nat /\ 1..n \subseteq Parts /\ f.part \in 1..n /\ f.step # "none" /\ f.date \in Dates /\ f.tag \in Tags
    BY AtFile
<1>2. CASE f.part = n
  <2>1. NextFile(f) = [f EXCEPT !.step = "ready"]
      BY <1>2 DEF NextFile
  <2> QED
      BY <1>2, <2>1, ToStep
<1>3. CASE f.part # n
  <2>1. NextFile(f) = [f EXCEPT !.step = "file", !.part = next]
      BY <1>3 DEF NextFile
  <2>2. next \in 1..n
      BY <1>1, <1>3
  <2> HIDE DEF next
  <2>3. next \in Parts
      BY <1>1, <2>2
  <2> DEFINE f2 == NextFile(f)
  <2>4. f2 \in FetchType /\ f2.date = f.date /\ f2.tag = f.tag /\ f2.step = "file" /\ f2.part = next
    <3> HIDE DEF n
    <3> QED
        BY <2>1, <2>3 DEF FetchType, FetchSteps
  <2> HIDE DEF f2
  <2>5. FetchInv(f2)
      BY <1>1, <2>2, <2>4 DEF FetchInv, Underway
  <2> QED
      BY <1>1, <2>4, <2>5 DEF next, Same, f2
<1> QED
    BY <1>2, <1>3

LEMMA PutFileFacts ==
    ASSUME NEW f \in FetchType, FetchInv(f), Underway(f), disk \in [Dates -> [Parts -> FileType]],
           NEW file \in FileType, PutFile(f, file)
    PROVE  /\ disk' \in [Dates -> [Parts -> FileType]]
           /\ \A d \in Dates, k \in Parts :
                 disk'[d][k] = IF d = f.date /\ k = f.part THEN file ELSE disk[d][k]
<1>1. f.date \in Dates /\ f.part \in Parts
    BY AtFile
<1> QED
    BY <1>1 DEF PutFile

(* What becomes of a file in a step of one import, and of the fetches of   *)
(* both.                                                                   *)
FileStep(f, f2, g, g2) ==
    \/ /\ f.step = "release" /\ (f2.step = "empty" \/ (f2.step = "file" /\ f2.part = 1))
       /\ g2 = g /\ UNCHANGED disk
    \/ /\ f.step = "file" /\ UpToDate(File(f), f.tag) /\ f2 = NextFile(f) /\ g2 = g /\ UNCHANGED disk
    \/ /\ f.step = "file" /\ f2.step = "open" /\ f2.part = f.part /\ PutFile(f, Absent)
       /\ g2 = Lost(g, f.date, {f.part})
    \/ /\ f.step = "open" /\ f2.step = "stream" /\ f2.part = f.part /\ g2 = g
       /\ \E file \in FileType :
             /\ file.etag = File(f).etag /\ PutFile(f, file)
             /\ g.date # f.date => file.of = f.tag
    \/ /\ f.step \in {"stream", "lost"} /\ f2.step = "etag" /\ f2.part = f.part /\ g2 = g
       /\ \/ /\ f.step = "lost"
             /\ UNCHANGED disk
          \/ \E file \in FileType :
                /\ file.etag = File(f).etag /\ file.of = File(f).of /\ file.whole /\ PutFile(f, file)
    \/ /\ f.step = "etag" /\ f2 = NextFile(f) /\ g2 = g
       /\ \E file \in FileType :
             /\ file.etag = f.tag /\ file.of = File(f).of /\ file.whole = File(f).whole
             /\ PutFile(f, file)
    \/ f.step # "none" /\ f2.step = "failed" /\ g2 = g /\ UNCHANGED disk

LEMMA StepCases ==
    ASSUME TypeOK, NEW f \in FetchType, FetchInv(f), NEW f2, NEW g \in FetchType, FetchInv(g), NEW g2,
           FetchStep(f, f2, g, g2) \/ FetchFails(f, f2, g, g2)
    PROVE  /\ f.step # "none" /\ FileStep(f, f2, g, g2) /\ Same(f, f2) /\ Same(g, g2)
           /\ dirs' \subseteq Dates
<1> USE DEF Underway
<1>1. disk \in [Dates -> [Parts -> FileType]] /\ dirs \subseteq Dates
    BY Types
<1>2. Same(g, g) /\ Same(g, Lost(g, f.date, {f.part})) /\ (g.date # f.date => Lost(g, f.date, {f.part}) = g)
    BY LostFacts DEF Same
<1>3. Underway(f) => /\ f.date \in Dates /\ f.tag \in Tags /\ f.part \in Parts
                     /\ File(f) \in FileType
  <2> SUFFICES ASSUME Underway(f) PROVE f.date \in Dates /\ f.tag \in Tags /\ f.part \in Parts /\ File(f) \in FileType
      OBVIOUS
  <2>1. f.date \in Dates /\ f.tag \in Tags /\ f.part \in Parts
      BY AtFile
  <2> QED
      BY <1>1, <2>1 DEF File
<1>4. CASE ReadRelease(f, f2, g, g2)
  <2>1. f.step = "release" /\ f.step # "none" /\ f.date \in Dates /\ f.tag \in Tags /\ g2 = g
        /\ UNCHANGED <<dirs, disk>>
      BY <1>4 DEF ReadRelease, FetchInv
  <2>2. Files[f.tag] \in Nat /\ 1..Files[f.tag] \subseteq Parts
      BY <2>1, PartsCover
  <2>3. CASE Files[f.tag] = 0
    <3>1. f2 = [f EXCEPT !.step = "empty"]
        BY <1>4, <2>3 DEF ReadRelease
    <3>2. f2 \in FetchType /\ f2.date = f.date /\ f2.tag = f.tag /\ f2.step = "empty"
        BY <3>1 DEF FetchType, FetchSteps
    <3> QED
        BY <1>1, <1>2, <2>1, <3>2 DEF FileStep, Same, FetchInv
  <2>4. CASE Files[f.tag] # 0
    <3>1. f2 = [f EXCEPT !.step = "file", !.part = 1]
        BY <1>4, <2>4 DEF ReadRelease
    <3>2. 1 \in 1..Files[f.tag] /\ 1 \in Parts
        BY <2>2, <2>4
    <3>3. f2 \in FetchType /\ f2.date = f.date /\ f2.tag = f.tag /\ f2.step = "file" /\ f2.part = 1
        BY <3>1, <3>2 DEF FetchType, FetchSteps
    <3> QED
        BY <1>1, <1>2, <2>1, <3>2, <3>3 DEF FileStep, Same, FetchInv
  <2> QED
      BY <2>3, <2>4
<1>5. CASE KeepFile(f, f2, g, g2)
  <2>1. f.step = "file" /\ UpToDate(File(f), f.tag) /\ f2 = NextFile(f) /\ g2 = g /\ UNCHANGED <<dirs, disk>>
      BY <1>5 DEF KeepFile
  <2>2. Same(f, NextFile(f))
      BY <2>1, NextFileFacts
  <2> QED
      BY <1>1, <1>2, <2>1, <2>2 DEF FileStep
<1>6. CASE RemoveFile(f, f2, g, g2)
  <2>1. /\ f.step = "file" /\ f2 = [f EXCEPT !.step = "open"] /\ PutFile(f, Absent)
        /\ g2 = Lost(g, f.date, {f.part}) /\ dirs' = dirs \cup {f.date}
      BY <1>6 DEF RemoveFile
  <2>2. Same(f, f2) /\ f2.step = "open" /\ f2.part = f.part
      BY <2>1, ToStep
  <2> QED
      BY <1>1, <1>2, <1>3, <2>1, <2>2 DEF FileStep
<1>7. CASE OpenFile(f, f2, g, g2)
  <2> DEFINE whose == IF Lost(g, f.date, {f.part}) = g THEN f.tag ELSE None
             file == [File(f) EXCEPT !.of = whose, !.whole = FALSE]
  <2>1. f.step = "open" /\ g2 = g /\ UNCHANGED dirs
      BY <1>7 DEF OpenFile
  <2>2. CASE f.date \in dirs
    <3>1. PutFile(f, file) /\ f2 = [f EXCEPT !.step = "stream"]
        BY <1>7, <2>2 DEF OpenFile
    <3>2. whose \in Tags \cup {None} /\ (g.date # f.date => whose = f.tag)
        BY <1>2, <1>3, <2>1
    <3> HIDE DEF whose
    <3>3. file \in FileType /\ file.etag = File(f).etag /\ (g.date # f.date => file.of = f.tag)
        BY <1>3, <2>1, <3>2 DEF FileType
    <3> HIDE DEF file
    <3>4. Same(f, f2) /\ f2.step = "stream" /\ f2.part = f.part
        BY <2>1, <3>1, ToStep
    <3> QED
        BY <1>1, <1>2, <2>1, <3>1, <3>3, <3>4 DEF FileStep
  <2>3. CASE f.date \notin dirs
    <3>1. f2 = [f EXCEPT !.step = "failed"] /\ UNCHANGED disk
        BY <1>7, <2>3 DEF OpenFile
    <3>2. Same(f, f2) /\ f2.step = "failed"
        BY <2>1, <3>1, ToStep
    <3> QED
        BY <1>1, <1>2, <2>1, <3>1, <3>2 DEF FileStep
  <2> QED
      BY <2>2, <2>3
<1>8. CASE FinishFile(f, f2, g, g2)
  <2> DEFINE file == [File(f) EXCEPT !.whole = TRUE]
  <2>1. /\ f.step \in {"stream", "lost"} /\ f2 = [f EXCEPT !.step = "etag"] /\ g2 = g /\ UNCHANGED dirs
        /\ IF f.step = "stream" THEN PutFile(f, file) ELSE UNCHANGED disk
      BY <1>8 DEF FinishFile
  <2>2. file \in FileType /\ file.etag = File(f).etag /\ file.of = File(f).of /\ file.whole
      BY <1>3, <2>1 DEF FileType
  <2> HIDE DEF file
  <2>3. Same(f, f2) /\ f2.step = "etag" /\ f2.part = f.part
      BY <2>1, ToStep
  <2> QED
      BY <1>1, <1>2, <2>1, <2>2, <2>3 DEF FileStep
<1>9. CASE WriteEtag(f, f2, g, g2)
  <2> DEFINE file == [File(f) EXCEPT !.etag = f.tag]
  <2>1. f.step = "etag" /\ g2 = g /\ UNCHANGED dirs
      BY <1>9 DEF WriteEtag
  <2>2. CASE f.date \in dirs
    <3>1. PutFile(f, file) /\ f2 = NextFile(f)
        BY <1>9, <2>2 DEF WriteEtag
    <3>2. file \in FileType /\ file.etag = f.tag /\ file.of = File(f).of /\ file.whole = File(f).whole
        BY <1>3, <2>1 DEF FileType
    <3> HIDE DEF file
    <3>3. Same(f, f2)
        BY <2>1, <3>1, NextFileFacts
    <3> QED
        BY <1>1, <1>2, <2>1, <3>1, <3>2, <3>3 DEF FileStep
  <2>3. CASE f.date \notin dirs
    <3>1. f2 = [f EXCEPT !.step = "failed"] /\ UNCHANGED disk
        BY <1>9, <2>3 DEF WriteEtag
    <3>2. Same(f, f2) /\ f2.step = "failed"
        BY <2>1, <3>1, ToStep
    <3> QED
        BY <1>1, <1>2, <2>1, <3>1, <3>2 DEF FileStep
  <2> QED
      BY <2>2, <2>3
<1>10. CASE FetchFails(f, f2, g, g2)
  <2>1. /\ f.step \in {"release", "file", "open", "stream", "lost", "etag"} /\ f.step # "none"
        /\ f2 = [f EXCEPT !.step = "failed"] /\ g2 = g /\ UNCHANGED <<dirs, disk>>
      BY <1>10 DEF FetchFails
  <2>2. f2 \in FetchType /\ f2.date = f.date /\ f2.tag = f.tag /\ f2.step = "failed"
      BY <2>1 DEF FetchType, FetchSteps
  <2>3. Same(f, f2)
      BY <2>1, <2>2 DEF Same, FetchInv
  <2> QED
      BY <1>1, <1>2, <2>1, <2>2, <2>3 DEF FileStep
<1> QED
    BY <1>4, <1>5, <1>6, <1>7, <1>8, <1>9, <1>10 DEF FetchStep

(* A step changes at most the file that the fetch is at. *)
LEMMA StepDisk ==
    ASSUME TypeOK, NEW f \in FetchType, FetchInv(f), NEW f2, NEW g, NEW g2, FileStep(f, f2, g, g2)
    PROVE  /\ disk' \in [Dates -> [Parts -> FileType]]
           /\ \A d \in Dates, k \in Parts :
                 ~(d = f.date /\ k = f.part) => disk'[d][k] = disk[d][k]
<1>1. disk \in [Dates -> [Parts -> FileType]]
    BY Types
<1>2. CASE UNCHANGED disk
    BY <1>1, <1>2
<1>3. ASSUME NEW file \in FileType, Underway(f), PutFile(f, file)
      PROVE  /\ disk' \in [Dates -> [Parts -> FileType]]
             /\ \A d \in Dates, k \in Parts :
                   ~(d = f.date /\ k = f.part) => disk'[d][k] = disk[d][k]
    BY <1>1, <1>3, PutFileFacts
<1>4. Absent \in FileType
    BY DEF Absent, FileType
<1>5. UNCHANGED disk \/ (Underway(f) /\ \E file \in FileType : PutFile(f, file))
    BY <1>4 DEF FileStep, Underway
<1> QED
    BY <1>2, <1>3, <1>5

LEMMA ErrorSpent ==
    ASSUME budget \in BudgetType, budget.errors > 0, budget' = [budget EXCEPT !.errors = @ - 1]
    PROVE  budget' \in BudgetType /\ budget'.reissues = budget.reissues
<1>1. MaxErrors \in Nat
    BY SchedulerConstants
<1>2. budget.errors \in 0..MaxErrors
    BY DEF BudgetType
<1>3. budget.errors - 1 \in 0..MaxErrors
    BY <1>1, <1>2
<1> QED
    BY <1>3 DEF BudgetType

(* The imports go on with what they fetch, or end a batch. *)
LEMMA FetchMoves ==
    ASSUME IInv, Same(fetch, fetch'), Same(otherFetch, otherFetch'),
           UNCHANGED <<releases, pc, job, queue, others, overlapped>>,
           current' \in {current, None}, otherCurrent' \in {otherCurrent, None},
           status' \in [Dates -> {"none", "running", "succeeded", "errored"}],
           dirs' \subseteq Dates, disk' \in [Dates -> [Parts -> FileType]], budget' \in BudgetType
    PROVE  IInv'
<1>1. TypeOK'
    BY Types, NextTypes DEF IInv, Same
<1>2. fetch'.step = "none" => fetch.step = "none" /\ fetch' = fetch
    BY DEF Same, FetchInv, IInv, QueueInv
<1>3. None \notin Dates /\ (fetch'.step # "none" => fetch'.date \in Dates)
      /\ (otherFetch'.step # "none" => otherFetch'.date \in Dates)
    BY ConstantFacts DEF Same, FetchInv
<1>4. QueueInv'
  <2>1. pc' # "work" => queue' = NoTags /\ fetch' = NoFetch /\ current' = None
      BY NothingFetched DEF IInv, QueueInv, Same, FetchInv
  <2>2. \A d \in Dates : queue'[d] # None => queue'[d] = job'.found[d] /\ d # current' /\ d # fetch'.date
      BY <1>3 DEF IInv, QueueInv, Same
  <2>3. FetchInv(fetch)'
      BY DEF Same, FetchInv, Underway
  <2>4. fetch'.step = "none" => queue' = NoTags
      BY <1>2 DEF IInv, QueueInv
  <2>5. fetch'.step # "none" => fetch'.date # current' /\ fetch'.tag = job'.found[fetch'.date]
    <3>1. fetch'.step # "none" => fetch.step # "none" /\ fetch'.date = fetch.date /\ fetch'.tag = fetch.tag
        BY DEF Same
    <3> QED
        BY <1>3, <3>1 DEF IInv, QueueInv
  <2>6. current' # None => job'.found[current'] \in Tags
      BY DEF IInv, QueueInv
  <2> QED
      BY <2>1, <2>2, <2>3, <2>4, <2>5, <2>6 DEF QueueInv
<1>5. YearsInv'
    BY DEF IInv, YearsInv
<1>6. BesideInv'
  <2>1. FetchInv(otherFetch)'
      BY DEF Same, FetchInv, Underway
  <2>2. otherFetch'.step # "none" => otherFetch'.date # otherCurrent'
      BY <1>3 DEF IInv, BesideInv, Same
  <2>3. fetch'.date = fetch.date /\ otherFetch'.date = otherFetch.date
      BY DEF Same
  <2>4. Dates \cap {otherFetch'.date, otherCurrent'} \subseteq Dates \cap {otherFetch.date, otherCurrent}
        /\ Dates \cap {fetch'.date, current'} \subseteq Dates \cap {fetch.date, current}
      BY <1>3, <2>3
  <2> QED
      BY <2>1, <2>2, <2>4 DEF IInv, BesideInv, Dates
<1> QED
    BY <1>1, <1>4, <1>5, <1>6 DEF IInv

LEMMA FetchStepStep ==
    ASSUME IInv,
           \/ FetchStep(fetch, fetch', otherFetch, otherFetch')
           \/ FetchFails(fetch, fetch', otherFetch, otherFetch')
           \/ FetchStep(otherFetch, otherFetch', fetch, fetch')
           \/ FetchFails(otherFetch, otherFetch', fetch, fetch')
    PROVE  /\ IInv' /\ UNCHANGED <<releases, status, pc, job, queue, current, others>>
           /\ budget'.reissues = budget.reissues
           /\ fetch'.step # "none" => fetch.step # "none" /\ fetch'.date = fetch.date
           /\ fetch.step = "none" => fetch' = fetch
<1>1. /\ TypeOK /\ fetch \in FetchType /\ FetchInv(fetch) /\ otherFetch \in FetchType /\ FetchInv(otherFetch)
      /\ budget \in BudgetType /\ status \in [Dates -> {"none", "running", "succeeded", "errored"}]
    BY Types DEF IInv, QueueInv, BesideInv
<1>2. UNCHANGED <<releases, status, pc, job, queue, current, otherCurrent, others, overlapped>>
    BY DEF FetchStep, FetchFails
<1>3. budget' \in BudgetType /\ budget'.reissues = budget.reissues
  <2>1. UNCHANGED budget \/ (budget.errors > 0 /\ budget' = [budget EXCEPT !.errors = @ - 1])
      BY DEF FetchStep, FetchFails
  <2> QED
      BY <1>1, <2>1, ErrorSpent
<1>4. Same(fetch, fetch') /\ Same(otherFetch, otherFetch') /\ dirs' \subseteq Dates
      /\ disk' \in [Dates -> [Parts -> FileType]]
  <2>1. CASE \/ FetchStep(fetch, fetch', otherFetch, otherFetch')
             \/ FetchFails(fetch, fetch', otherFetch, otherFetch')
    <3>1. /\ FileStep(fetch, fetch', otherFetch, otherFetch')
          /\ Same(fetch, fetch') /\ Same(otherFetch, otherFetch') /\ dirs' \subseteq Dates
        BY <1>1, <2>1, StepCases
    <3> QED
        BY <1>1, <3>1, StepDisk
  <2>2. CASE \/ FetchStep(otherFetch, otherFetch', fetch, fetch')
             \/ FetchFails(otherFetch, otherFetch', fetch, fetch')
    <3>1. /\ FileStep(otherFetch, otherFetch', fetch, fetch')
          /\ Same(fetch, fetch') /\ Same(otherFetch, otherFetch') /\ dirs' \subseteq Dates
        BY <1>1, <2>2, StepCases
    <3> QED
        BY <1>1, <3>1, StepDisk
  <2> QED
      BY <2>1, <2>2
<1>5. IInv'
    BY <1>1, <1>2, <1>3, <1>4, FetchMoves
<1>6. /\ fetch'.step # "none" => fetch.step # "none" /\ fetch'.date = fetch.date
      /\ fetch.step = "none" => fetch' = fetch
    BY <1>1, <1>4 DEF Same, FetchInv
<1> QED
    BY <1>2, <1>3, <1>5, <1>6

(* What was fetched is taken over, and the next date is fetched. *)
LEMMA TakeFetchedStep ==
    ASSUME IInv, TakeFetched
    PROVE  /\ IInv' /\ UNCHANGED <<releases, dirs, disk, pc, others, budget>>
           /\ pc = "work" /\ current = None /\ fetch.step # "none" /\ fetch.date \in Dates
           /\ job'.found = job.found /\ job'.years = job.years /\ job'.page = job.page
           /\ job'.reimport = job.reimport /\ job'.known = job.known /\ job'.scanFrom = job.scanFrom
           /\ job'.clean = job.clean
           /\ \/ current' = None /\ job'.begun = job.begun
              \/ current' = fetch.date /\ job'.begun = job.begun \cup {fetch.date}
           /\ \A d \in Dates : status'[d] = "succeeded" \/ d = fetch.date \/ status[d] # "succeeded"
           /\ \A d \in Dates : queue'[d] # None => queue[d] # None /\ d # fetch'.date
           /\ fetch'.step # "none" =>
                 /\ fetch'.date \in Dates /\ queue[fetch'.date] # None
                 /\ \A e \in Dates : queue[e] # None => fetch'.date <= e
<1>1. /\ pc = "work" /\ current = None /\ FetchNext(queue)
      /\ UNCHANGED <<releases, dirs, disk, pc, budget>>
    BY DEF TakeFetched
<1>2. /\ fetch.step \in {"failed", "empty", "ready"} /\ fetch.step # "none"
      /\ fetch.date \in Dates /\ fetch.tag \in Tags /\ fetch.tag = job.found[fetch.date]
      /\ Files[fetch.tag] \in Nat
  <2>1. fetch.step \in {"failed", "empty", "ready"}
      BY DEF TakeFetched
  <2> QED
      BY <2>1, FetchFields
<1>3. job \in JobType /\ status \in [Dates -> {"none", "running", "succeeded", "errored"}]
      /\ queue \in Found /\ fetch \in FetchType /\ budget \in BudgetType
    BY Types DEF IInv
<1> DEFINE found == job.found
<1>4. \A d \in Dates : queue[d] # None => queue[d] = found[d] /\ d # fetch.date
    BY DEF IInv, QueueInv
<1>5. /\ queue' \in Found /\ fetch' \in FetchType
      /\ \A d \in Dates : queue'[d] # None =>
            queue'[d] = found[d] /\ queue[d] # None /\ d # fetch'.date
      /\ fetch'.step \in {"none", "release"}
      /\ fetch'.step = "none" => fetch' = NoFetch /\ queue' = NoTags
      /\ fetch'.step # "none" =>
            /\ fetch'.date \in Dates /\ queue[fetch'.date] # None
            /\ fetch'.tag \in Tags /\ fetch'.tag = found[fetch'.date]
            /\ \A e \in Dates : queue[e] # None => fetch'.date <= e
  <2> HIDE DEF found
  <2> QED
      BY <1>1, <1>3, <1>4, StartsFetching
<1>6. \/ UNCHANGED <<status, job, current>>
      \/ status' = [status EXCEPT ![fetch.date] = "none"] /\ UNCHANGED <<job, current>>
      \/ /\ fetch.step = "ready"
         /\ status' = [status EXCEPT ![fetch.date] = "running"] /\ current' = fetch.date
         /\ job' = [job EXCEPT !.begun = @ \cup {fetch.date}]
    BY DEF TakeFetched
<1>7. /\ job' \in JobType
      /\ job'.found = job.found /\ job'.years = job.years /\ job'.page = job.page
      /\ job'.reimport = job.reimport /\ job'.known = job.known /\ job'.scanFrom = job.scanFrom
      /\ job'.clean = job.clean
      /\ \/ current' = None /\ job'.begun = job.begun
         \/ /\ fetch.step = "ready" /\ current' = fetch.date
            /\ job'.begun = job.begun \cup {fetch.date}
  <2>1. CASE UNCHANGED <<job, current>>
      BY <1>1, <1>3, <2>1
  <2>2. CASE /\ fetch.step = "ready" /\ current' = fetch.date
             /\ job' = [job EXCEPT !.begun = @ \cup {fetch.date}]
    <3> DEFINE begun == job.begun \cup {fetch.date}
    <3>1. begun \subseteq Dates /\ job' = [job EXCEPT !.begun = begun]
        BY <1>2, <1>3, <2>2, JobFields
    <3> HIDE DEF begun
    <3>2. /\ job' \in JobType /\ job'.begun = begun
          /\ job'.found = job.found /\ job'.years = job.years /\ job'.page = job.page
          /\ job'.reimport = job.reimport /\ job'.known = job.known /\ job'.scanFrom = job.scanFrom
          /\ job'.clean = job.clean
        BY <1>3, <3>1 DEF JobType
    <3> QED
        BY <2>2, <3>2 DEF begun
  <2> QED
      BY <1>6, <2>1, <2>2
<1>8. /\ status' \in [Dates -> {"none", "running", "succeeded", "errored"}]
      /\ \A d \in Dates : d = fetch.date \/ status'[d] = status[d]
    BY <1>2, <1>3, <1>6
<1>9. TypeOK'
  <2>1. current' \in Dates \cup {None}
      BY <1>2, <1>7
  <2>2. /\ overlapped' \subseteq Dates /\ UNCHANGED <<otherFetch, otherCurrent, others>>
    <3>1. current' = None \/ current' = fetch.date
        BY <1>7
    <3> QED
        BY <1>1, <3>1, QueueBeside DEF IInv
  <2> QED
      BY <1>1, <1>5, <1>7, <1>8, <2>1, <2>2, Types, NextTypes DEF IInv
<1>10. QueueInv'
  <2>1. fetch'.step # "none" => fetch'.date # current'
      BY <1>4, <1>5, <1>7, ConstantFacts
  <2>2. \A d \in Dates : queue'[d] # None => d # current'
      BY <1>4, <1>5, <1>7, ConstantFacts
  <2>3. current' # None => job'.found[current'] \in Tags
      BY <1>2, <1>7
  <2>4. pc' = "work"
      BY <1>1
  <2> QED
      BY <1>5, <1>7, <2>1, <2>2, <2>3, <2>4, NothingFetched DEF QueueInv, FetchInv, Underway
<1>11. /\ BesideInv' /\ overlapped' \subseteq Dates
       /\ UNCHANGED <<otherFetch, otherCurrent, others>>
  <2>1. current' = None \/ current' = fetch.date
      BY <1>7
  <2> QED
      BY <1>1, <2>1, QueueBeside DEF IInv
<1>12. YearsInv'
    BY <1>1, <1>7 DEF IInv, YearsInv
<1> QED
    BY <1>1, <1>2, <1>5, <1>7, <1>8, <1>9, <1>10, <1>11, <1>12 DEF IInv

(* A batch ends, and the directory of its date may go. *)
LEMMA TracesRemoved ==
    ASSUME TypeOK, NEW d \in Dates, NEW g \in FetchType, FetchInv(g), NEW g2, RemoveTraces(d, g, g2)
    PROVE  /\ Same(g, g2) /\ dirs' \subseteq Dates /\ disk' \in [Dates -> [Parts -> FileType]]
           /\ g.date # d => g2 = g
           /\ \A e \in Dates, k \in Parts : e # d => disk'[e][k] = disk[e][k]
           /\ \A k \in Parts : disk'[d][k] \in {disk[d][k], Absent}
<1>1. disk \in [Dates -> [Parts -> FileType]] /\ dirs \subseteq Dates
    BY Types
<1>2. CASE KeepTraces
    BY <1>1, <1>2 DEF RemoveTraces, Same
<1>3. CASE ~KeepTraces
  <2> DEFINE empty == [k \in Parts |-> Absent]
  <2>1. disk' = [disk EXCEPT ![d] = empty] /\ dirs' = dirs \ {d} /\ g2 = Lost(g, d, Parts)
      BY <1>3 DEF RemoveTraces
  <2>2. Absent \in FileType
      BY DEF Absent, FileType
  <2>3. empty \in [Parts -> FileType] /\ \A k \in Parts : empty[k] = Absent
      BY <2>2
  <2> HIDE DEF empty
  <2> QED
      BY <1>1, <2>1, <2>3, LostFacts
<1> QED
    BY <1>2, <1>3

LEMMA BatchSucceedsStep ==
    ASSUME IInv, BatchSucceeds
    PROVE  /\ IInv' /\ UNCHANGED <<releases, pc, job, queue, fetch, others, budget>> /\ current' = None
           /\ \A d \in Dates : status[d] = "succeeded" => status'[d] = "succeeded"
<1>1. /\ current # None /\ current' = None /\ status' = [status EXCEPT ![current] = "succeeded"]
      /\ RemoveTraces(current, otherFetch, otherFetch')
      /\ UNCHANGED <<releases, pc, job, queue, fetch, otherCurrent, others, overlapped, budget>>
    BY DEF BatchSucceeds
<1>2. /\ current \in Dates /\ status \in [Dates -> {"none", "running", "succeeded", "errored"}]
      /\ budget \in BudgetType /\ TypeOK /\ fetch \in FetchType /\ FetchInv(fetch)
      /\ otherFetch \in FetchType /\ FetchInv(otherFetch)
    BY <1>1, Types DEF IInv, QueueInv, BesideInv
<1>3. /\ status' \in [Dates -> {"none", "running", "succeeded", "errored"}]
      /\ \A d \in Dates : status[d] = "succeeded" => status'[d] = "succeeded"
    BY <1>1, <1>2
<1>4. Same(otherFetch, otherFetch') /\ dirs' \subseteq Dates /\ disk' \in [Dates -> [Parts -> FileType]]
    BY <1>1, <1>2, TracesRemoved
<1>5. Same(fetch, fetch')
    BY <1>1, <1>2 DEF Same
<1>6. IInv'
    BY <1>1, <1>2, <1>3, <1>4, <1>5, FetchMoves
<1> QED
    BY <1>1, <1>3, <1>6

LEMMA BatchFailsStep ==
    ASSUME IInv, BatchFails
    PROVE  /\ IInv' /\ UNCHANGED <<releases, pc, job, queue, fetch, others>> /\ current' = None
           /\ current \in Dates /\ budget'.reissues = budget.reissues
           /\ \A d \in Dates : d # current => status'[d] = status[d]
<1>1. /\ current # None /\ current' = None /\ status' = [status EXCEPT ![current] = "errored"]
      /\ budget.errors > 0 /\ budget' = [budget EXCEPT !.errors = @ - 1]
      /\ UNCHANGED <<releases, dirs, disk, pc, job, queue, fetch>>
      /\ UNCHANGED <<otherFetch, otherCurrent, others, overlapped>>
    BY DEF BatchFails, beside
<1>2. /\ current \in Dates /\ status \in [Dates -> {"none", "running", "succeeded", "errored"}]
      /\ disk \in [Dates -> [Parts -> FileType]] /\ dirs \subseteq Dates /\ budget \in BudgetType
      /\ fetch \in FetchType /\ FetchInv(fetch) /\ otherFetch \in FetchType /\ FetchInv(otherFetch)
    BY <1>1, Types DEF IInv, QueueInv, BesideInv
<1>3. /\ status' \in [Dates -> {"none", "running", "succeeded", "errored"}]
      /\ \A d \in Dates : d # current => status'[d] = status[d]
    BY <1>1, <1>2
<1>4. budget' \in BudgetType /\ budget'.reissues = budget.reissues
    BY <1>1, <1>2, ErrorSpent
<1>5. Same(fetch, fetch') /\ Same(otherFetch, otherFetch')
    BY <1>1, <1>2 DEF Same
<1>6. IInv'
    BY <1>1, <1>2, <1>3, <1>4, <1>5, FetchMoves
<1> QED
    BY <1>1, <1>2, <1>3, <1>4, <1>6

(* The queue is empty: the next year is listed or the import ends. *)
LEMMA EndQueueStep ==
    ASSUME IInv, EndQueue
    PROVE  /\ IInv' /\ UNCHANGED <<releases, status, dirs, disk, queue, fetch, current, beside, budget>>
           /\ pc = "work" /\ queue = NoTags /\ fetch = NoFetch /\ current = None
           /\ job'.found = NoTags
           /\ \/ pc' = "idle" /\ job' = NoJob
              \/ /\ pc' = "list" /\ job'.page = 1 /\ ~job.stop
                 /\ job'.reimport = job.reimport /\ job'.begun = job.begun
                 /\ job'.known = job.known /\ job'.scanFrom = job.scanFrom /\ job'.clean = job.clean
                 /\ DOMAIN job.years = {1, 2} /\ DOMAIN job'.years = {1}
                 /\ job'.years[1] = job.years[2]
                 /\ job'.years[1] \in {0, 1, 2} /\ Head(job'.years) = job'.years[1]
<1>1. /\ pc = "work" /\ current = None /\ fetch = NoFetch
      /\ UNCHANGED <<releases, status, dirs, disk, queue, fetch, current, beside, budget>>
    BY DEF EndQueue
<1>2. queue = NoTags
    BY <1>1 DEF IInv, QueueInv, NoFetch
<1>3. job \in JobType
    BY Types DEF IInv
<1>4. \/ pc' = "idle" /\ job' = NoJob
      \/ /\ pc' = "list" /\ ~job.stop
         /\ Len(job.years) # 1 /\ job' = [job EXCEPT !.years = Tail(@), !.page = 1, !.found = NoTags]
    BY DEF EndQueue
<1>5. CASE pc' = "idle" /\ job' = NoJob
  <2>1. TypeOK'
      BY <1>1, <1>5, NoJobType, Types, NextTypes DEF IInv, beside
  <2>2. QueueInv'
      BY <1>1, <1>2, <1>5, NothingFetched DEF QueueInv, NoTags
  <2>3. BesideInv'
      BY <1>1, BesideUnchanged DEF IInv
  <2>4. YearsInv'
      BY <1>1, <1>5 DEF IInv, YearsInv, NoJob
  <2>5. job'.found = NoTags
      BY <1>5 DEF NoJob
  <2> QED
      BY <1>1, <1>2, <1>5, <2>1, <2>2, <2>3, <2>4, <2>5 DEF IInv
<1>6. CASE /\ pc' = "list" /\ ~job.stop /\ Len(job.years) # 1
           /\ job' = [job EXCEPT !.years = Tail(@), !.page = 1, !.found = NoTags]
  <2> DEFINE years == Tail(job.years)
  <2>1. \/ job.years = <<1, 2>> /\ job.reimport
        \/ job.years = <<2, 1>> /\ ~job.reimport
        \/ job.years = <<1, 0>> /\ ~job.reimport
    <3>1. job.years \in IF job.reimport THEN {<<1>>, <<2>>, <<1, 2>>}
                        ELSE {<<2, 1>>, <<1, 0>>, <<1>>, <<0>>}
        BY <1>1 DEF IInv, YearsInv
    <3>2. Len(<<1>>) = 1 /\ Len(<<2>>) = 1 /\ Len(<<0>>) = 1
        OBVIOUS
    <3> QED
        BY <1>6, <3>1, <3>2
  <2>2. \/ years = <<2>> /\ job.reimport
        \/ years = <<1>> /\ ~job.reimport
        \/ years = <<0>> /\ ~job.reimport
    <3>1. Tail(<<1, 2>>) = <<2>> /\ Tail(<<2, 1>>) = <<1>> /\ Tail(<<1, 0>>) = <<0>>
        OBVIOUS
    <3> QED
        BY <2>1, <3>1
  <2>3. /\ DOMAIN job.years = {1, 2} /\ DOMAIN years = {1} /\ years[1] = job.years[2]
        /\ years[1] \in {0, 1, 2} /\ Head(years) = years[1]
    <3> HIDE DEF years
    <3>1. /\ DOMAIN <<1, 2>> = {1, 2} /\ DOMAIN <<2, 1>> = {1, 2} /\ DOMAIN <<1, 0>> = {1, 2}
          /\ DOMAIN <<2>> = {1} /\ DOMAIN <<1>> = {1} /\ DOMAIN <<0>> = {1}
        OBVIOUS
    <3>2. job.years = <<1, 2>> => years = <<2>>
        BY <2>1, <2>2 DEF years
    <3>3. job.years = <<2, 1>> => years = <<1>>
        BY <2>1, <2>2 DEF years
    <3>4. job.years = <<1, 0>> => years = <<0>>
        BY <2>1, <2>2 DEF years
    <3>5. job.years \in {<<1, 2>>, <<2, 1>>, <<1, 0>>}
        BY <2>1
    <3>6. /\ Head(<<2>>) = 2 /\ Head(<<1>>) = 1 /\ Head(<<0>>) = 0
          /\ <<2>>[1] = 2 /\ <<1>>[1] = 1 /\ <<0>>[1] = 0
          /\ <<1, 2>>[2] = 2 /\ <<2, 1>>[2] = 1 /\ <<1, 0>>[2] = 0
        OBVIOUS
    <3> QED
        BY <3>1, <3>2, <3>3, <3>4, <3>5, <3>6
  <2>4. years \in Seq(Years \cup {0})
    <3>1. <<2>> \in Seq(Years \cup {0}) /\ <<1>> \in Seq(Years \cup {0}) /\ <<0>> \in Seq(Years \cup {0})
        BY DEF Years
    <3> QED
        BY <2>2, <3>1
  <2>5. job' = [job EXCEPT !.years = years, !.page = 1, !.found = NoTags]
      BY <1>6
  <2>6. years \in IF job.reimport THEN {<<1>>, <<2>>, <<1, 2>>} ELSE {<<2, 1>>, <<1, 0>>, <<1>>, <<0>>}
      BY <2>2
  <2> HIDE DEF years
  <2>7. /\ job' \in JobType /\ job'.page = 1 /\ job'.years = years /\ job'.found = NoTags
        /\ job'.reimport = job.reimport /\ job'.begun = job.begun
        /\ job'.known = job.known /\ job'.scanFrom = job.scanFrom /\ job'.clean = job.clean
      BY <1>3, <2>4, <2>5, ConstantFacts DEF JobType
  <2>8. TypeOK'
      BY <1>1, <1>6, <2>7, Types, NextTypes DEF IInv, beside
  <2>9. QueueInv'
      BY <1>1, <1>2, <1>6, NothingFetched DEF QueueInv, NoTags
  <2>10. BesideInv'
      BY <1>1, BesideUnchanged DEF IInv
  <2>11. YearsInv'
      BY <1>1, <2>6, <2>7 DEF IInv, YearsInv
  <2> QED
      BY <1>1, <1>2, <1>6, <2>3, <2>7, <2>8, <2>9, <2>10, <2>11 DEF IInv
<1> QED
    BY <1>4, <1>5, <1>6

(* A process dies. *)
LEMMA CrashSpent ==
    ASSUME budget \in BudgetType, budget.crashes > 0, budget' = [budget EXCEPT !.crashes = @ - 1]
    PROVE  budget' \in BudgetType /\ budget'.reissues = budget.reissues
<1>1. MaxCrashes \in Nat
    BY SchedulerConstants
<1>2. budget.crashes \in 0..MaxCrashes
    BY DEF BudgetType
<1>3. budget.crashes - 1 \in 0..MaxCrashes
    BY <1>1, <1>2
<1> QED
    BY <1>3 DEF BudgetType

LEMMA CrashStep ==
    ASSUME IInv, Crash
    PROVE  /\ IInv' /\ UNCHANGED <<releases, status, dirs, disk, beside>>
           /\ budget'.reissues = budget.reissues
           /\ pc' = "idle" /\ job' = NoJob /\ queue' = NoTags /\ fetch' = NoFetch /\ current' = None
<1>1. /\ UNCHANGED <<releases, status, dirs, disk, beside>>
      /\ pc' = "idle" /\ job' = NoJob /\ queue' = NoTags /\ fetch' = NoFetch /\ current' = None
      /\ budget.crashes > 0 /\ budget' = [budget EXCEPT !.crashes = @ - 1]
    BY DEF Crash
<1>2. budget' \in BudgetType /\ budget'.reissues = budget.reissues
    BY <1>1, CrashSpent, Types DEF IInv
<1>3. TypeOK'
    BY <1>1, <1>2, NoJobType, ConstantFacts, Types, NextTypes DEF IInv, beside
<1>4. QueueInv'
    BY <1>1, NothingFetched DEF QueueInv, NoTags
<1>5. BesideInv'
    BY <1>1, NothingFetched, ConstantFacts, BesideUnchanged DEF IInv
<1>6. YearsInv'
    BY <1>1 DEF IInv, YearsInv, NoJob
<1> QED
    BY <1>1, <1>2, <1>3, <1>4, <1>5, <1>6 DEF IInv

(* What the import beside it does, but for the steps of its fetch. *)
LEMMA OtherBeginsStep ==
    ASSUME IInv, NEW d \in Dates, NEW tag \in TagsOf(d), OtherBegins(d, tag)
    PROVE  /\ IInv' /\ UNCHANGED <<releases, status, dirs, disk, pc, job, queue, fetch, current>>
           /\ budget'.reissues = budget.reissues
           /\ others \subseteq others' /\ overlapped \subseteq overlapped'
           /\ otherFetch'.step = "release"
<1> DEFINE f == [date |-> d, tag |-> tag, step |-> "release", part |-> 0]
<1>1. /\ otherFetch = NoFetch /\ d # otherCurrent /\ budget.beside > 0
      /\ budget' = [budget EXCEPT !.beside = @ - 1]
      /\ otherFetch' = f /\ others' = others \cup {d}
      /\ overlapped' = overlapped \cup ({d} \cap {fetch.date, current})
      /\ UNCHANGED <<releases, status, dirs, disk, pc, job, queue, fetch, current, otherCurrent>>
    BY DEF OtherBegins
<1>2. tag \in Tags
  <2>1. releases[Year(d)] \in Seq(Release)
      BY Types, ConstantFacts DEF IInv
  <2>2. PICK r \in ToSet(releases[Year(d)]) : r.tag = tag
      BY DEF TagsOf
  <2>3. PICK i \in DOMAIN releases[Year(d)] : r = releases[Year(d)][i]
      BY DEF ToSet
  <2> QED
      BY <2>1, <2>2, <2>3, ReleaseOf
<1>3. f \in FetchType /\ FetchInv(f) /\ f.date = d /\ f.step = "release"
    BY <1>2 DEF FetchType, FetchSteps, FetchInv, Underway
<1> HIDE DEF f
<1>4. budget' \in BudgetType /\ budget'.reissues = budget.reissues
  <2>1. budget \in BudgetType /\ MaxBeside \in Nat
      BY Types, SchedulerConstants DEF IInv
  <2>2. budget.beside \in 0..MaxBeside
      BY <2>1 DEF BudgetType
  <2>3. budget.beside - 1 \in 0..MaxBeside
      BY <1>1, <2>1, <2>2
  <2> QED
      BY <1>1, <2>1, <2>3 DEF BudgetType
<1>5. TypeOK'
    BY <1>1, <1>3, <1>4, Types, NextTypes DEF IInv
<1>6. QueueInv' /\ YearsInv'
    BY <1>1 DEF IInv, QueueInv, YearsInv, FetchInv, Underway
<1>7. BesideInv'
  <2>1. FetchInv(otherFetch)'
      BY <1>1, <1>3 DEF FetchInv, Underway
  <2> QED
      BY <1>1, <1>3, <2>1, NothingFetched DEF IInv, BesideInv, Dates
<1> QED
    BY <1>1, <1>3, <1>4, <1>5, <1>6, <1>7 DEF IInv

LEMMA OtherTakesStep ==
    ASSUME IInv, OtherTakes
    PROVE  /\ IInv' /\ UNCHANGED <<releases, dirs, disk, pc, job, queue, fetch, current, others, overlapped>>
           /\ budget'.reissues = budget.reissues /\ otherFetch' = NoFetch
           /\ \A d \in Dates : status'[d] = status[d] \/ d \in others
<1>1. /\ otherCurrent = None /\ otherFetch' = NoFetch /\ otherFetch.step # "none"
      /\ UNCHANGED <<releases, dirs, disk, pc, job, queue, fetch, current, others, overlapped, budget>>
      /\ otherCurrent' = None \/ otherCurrent' = otherFetch.date
      /\ \/ UNCHANGED status
         \/ \E result \in {"none", "running"} : status' = [status EXCEPT ![otherFetch.date] = result]
    BY DEF OtherTakes
<1>2. /\ otherFetch.date \in Dates /\ status \in [Dates -> {"none", "running", "succeeded", "errored"}]
      /\ otherFetch.date \in others
    BY <1>1, Types DEF IInv, BesideInv, FetchInv
<1>3. /\ status' \in [Dates -> {"none", "running", "succeeded", "errored"}]
      /\ \A d \in Dates : status'[d] = status[d] \/ d \in others
    BY <1>1, <1>2
<1>4. TypeOK'
  <2>1. otherCurrent' \in Dates \cup {None}
      BY <1>1, <1>2
  <2> QED
      BY <1>1, <1>3, <2>1, NoJobType, Types, NextTypes DEF IInv
<1>5. QueueInv' /\ YearsInv'
    BY <1>1 DEF IInv, QueueInv, YearsInv, FetchInv, Underway
<1>6. BesideInv'
  <2>1. FetchInv(otherFetch)'
      BY <1>1, NothingFetched DEF FetchInv, Underway
  <2>2. Dates \cap {otherFetch'.date, otherCurrent'} \subseteq Dates \cap {otherFetch.date, otherCurrent}
      BY <1>1, NothingFetched, ConstantFacts
  <2> QED
      BY <1>1, <2>1, <2>2, NothingFetched DEF IInv, BesideInv, Dates
<1> QED
    BY <1>1, <1>3, <1>4, <1>5, <1>6 DEF IInv

LEMMA OtherSucceedsStep ==
    ASSUME IInv, OtherSucceeds
    PROVE  /\ IInv' /\ UNCHANGED <<releases, pc, job, queue, current, others, overlapped, budget>>
           /\ fetch'.step # "none" => fetch.step # "none" /\ fetch'.date = fetch.date
           /\ fetch.step = "none" => fetch' = fetch
           /\ \A d \in Dates : status'[d] = status[d] \/ d \in others
<1>1. /\ otherCurrent # None /\ otherCurrent' = None
      /\ status' = [status EXCEPT ![otherCurrent] = "succeeded"]
      /\ RemoveTraces(otherCurrent, fetch, fetch')
      /\ UNCHANGED <<releases, pc, job, queue, current, otherFetch, others, overlapped, budget>>
    BY DEF OtherSucceeds
<1>2. /\ otherCurrent \in Dates /\ status \in [Dates -> {"none", "running", "succeeded", "errored"}]
      /\ budget \in BudgetType /\ TypeOK /\ fetch \in FetchType /\ FetchInv(fetch)
      /\ otherFetch \in FetchType /\ FetchInv(otherFetch) /\ otherCurrent \in others
    BY <1>1, Types DEF IInv, QueueInv, BesideInv
<1>3. /\ status' \in [Dates -> {"none", "running", "succeeded", "errored"}]
      /\ \A d \in Dates : status'[d] = status[d] \/ d \in others
    BY <1>1, <1>2
<1>4. Same(fetch, fetch') /\ dirs' \subseteq Dates /\ disk' \in [Dates -> [Parts -> FileType]]
    BY <1>1, <1>2, TracesRemoved
<1>5. Same(otherFetch, otherFetch')
    BY <1>1, <1>2 DEF Same
<1>6. IInv'
    BY <1>1, <1>2, <1>3, <1>4, <1>5, FetchMoves
<1>7. /\ fetch'.step # "none" => fetch.step # "none" /\ fetch'.date = fetch.date
      /\ fetch.step = "none" => fetch' = fetch
    BY <1>2, <1>4 DEF Same, FetchInv
<1> QED
    BY <1>1, <1>3, <1>6, <1>7

LEMMA OtherFailsStep ==
    ASSUME IInv, OtherFails
    PROVE  /\ IInv' /\ UNCHANGED <<releases, dirs, disk, pc, job, queue, fetch, current, otherFetch,
                                   others, overlapped>>
           /\ budget'.reissues = budget.reissues
           /\ \A d \in Dates : status'[d] = status[d] \/ d \in others
<1>1. /\ otherCurrent # None /\ otherCurrent' = None
      /\ status' = [status EXCEPT ![otherCurrent] = "errored"]
      /\ budget.errors > 0 /\ budget' = [budget EXCEPT !.errors = @ - 1]
      /\ UNCHANGED <<releases, dirs, disk, pc, job, queue, fetch, current, otherFetch, others, overlapped>>
    BY DEF OtherFails
<1>2. /\ otherCurrent \in Dates /\ status \in [Dates -> {"none", "running", "succeeded", "errored"}]
      /\ disk \in [Dates -> [Parts -> FileType]] /\ dirs \subseteq Dates /\ budget \in BudgetType
      /\ fetch \in FetchType /\ FetchInv(fetch) /\ otherFetch \in FetchType /\ FetchInv(otherFetch)
      /\ otherCurrent \in others
    BY <1>1, Types DEF IInv, QueueInv, BesideInv
<1>3. /\ status' \in [Dates -> {"none", "running", "succeeded", "errored"}]
      /\ \A d \in Dates : status'[d] = status[d] \/ d \in others
    BY <1>1, <1>2
<1>4. budget' \in BudgetType /\ budget'.reissues = budget.reissues
    BY <1>1, <1>2, ErrorSpent
<1>5. Same(fetch, fetch') /\ Same(otherFetch, otherFetch')
    BY <1>1, <1>2 DEF Same
<1>6. IInv'
    BY <1>1, <1>2, <1>3, <1>4, <1>5, FetchMoves
<1> QED
    BY <1>1, <1>3, <1>4, <1>6

LEMMA OtherDiesStep ==
    ASSUME IInv, OtherDies
    PROVE  /\ IInv' /\ UNCHANGED <<releases, status, dirs, disk, pc, job, queue, fetch, current,
                                   others, overlapped>>
           /\ budget'.reissues = budget.reissues /\ otherFetch' = NoFetch
<1>1. /\ otherFetch' = NoFetch /\ otherCurrent' = None
      /\ budget.crashes > 0 /\ budget' = [budget EXCEPT !.crashes = @ - 1]
      /\ UNCHANGED <<releases, status, dirs, disk, pc, job, queue, fetch, current, others, overlapped>>
    BY DEF OtherDies
<1>2. budget' \in BudgetType /\ budget'.reissues = budget.reissues
    BY <1>1, CrashSpent, Types DEF IInv
<1>3. TypeOK'
    BY <1>1, <1>2, NoJobType, Types, NextTypes DEF IInv
<1>4. QueueInv' /\ YearsInv'
    BY <1>1 DEF IInv, QueueInv, YearsInv, FetchInv, Underway
<1>5. BesideInv'
  <2>1. FetchInv(otherFetch)'
      BY <1>1, NothingFetched DEF FetchInv, Underway
  <2> QED
      BY <1>1, <2>1, NothingFetched, ConstantFacts DEF IInv, BesideInv, Dates
<1> QED
    BY <1>1, <1>2, <1>3, <1>4, <1>5 DEF IInv

LEMMA StutterStep ==
    ASSUME IInv, UNCHANGED vars
    PROVE  IInv'
<1>1. TypeOK'
    BY DEF vars, beside, IInv, TypeOK
<1>2. QueueInv' /\ YearsInv'
    BY DEF vars, IInv, QueueInv, YearsInv, FetchInv, Underway
<1>3. BesideInv'
    BY BesideUnchanged DEF vars, IInv
<1> QED
    BY <1>1, <1>2, <1>3 DEF IInv

(* A step of one of the two fetches. *)
Fetching ==
    \/ FetchStep(fetch, fetch', otherFetch, otherFetch')
    \/ FetchFails(fetch, fetch', otherFetch, otherFetch')
    \/ FetchStep(otherFetch, otherFetch', fetch, fetch')
    \/ FetchFails(otherFetch, otherFetch', fetch, fetch')

Beginning == \E d \in Dates : \E tag \in TagsOf(d) : OtherBegins(d, tag)

LEMMA NextIInv == IInv /\ [Next]_vars => IInv'
<1> SUFFICES ASSUME IInv, [Next]_vars PROVE IInv'
    OBVIOUS
<1>1. CASE \E d \in Dates : Publish(d)
    BY <1>1, PublishStep
<1>2. CASE \E today \in Dates : StartScan(today)
    BY <1>2, StartScanStep
<1>3. CASE ListPage
    BY <1>3, ListPageStep
<1>4. CASE Fetching
    BY <1>4, FetchStepStep DEF Fetching
<1>5. CASE TakeFetched
    BY <1>5, TakeFetchedStep
<1>6. CASE BatchSucceeds
    BY <1>6, BatchSucceedsStep
<1>7. CASE EndQueue
    BY <1>7, EndQueueStep
<1>8. CASE \E dates \in SUBSET Dates : StartReimport(dates)
    BY <1>8, StartReimportStep
<1>9. CASE ListPageFails
    BY <1>9, ListPageFailsStep
<1>10. CASE BatchFails
    BY <1>10, BatchFailsStep
<1>11. CASE Crash
    BY <1>11, CrashStep
<1>12. CASE Beginning
    BY <1>12, OtherBeginsStep DEF Beginning
<1>13. CASE OtherTakes
    BY <1>13, OtherTakesStep
<1>14. CASE OtherSucceeds
    BY <1>14, OtherSucceedsStep
<1>15. CASE OtherFails
    BY <1>15, OtherFailsStep
<1>16. CASE OtherDies
    BY <1>16, OtherDiesStep
<1>17. CASE UNCHANGED vars
    BY <1>17, StutterStep
<1> QED
    BY <1>1, <1>2, <1>3, <1>4, <1>5, <1>6, <1>7, <1>8, <1>9, <1>10, <1>11, <1>12, <1>13,
       <1>14, <1>15, <1>16, <1>17 DEF Next, ImportStep, OtherStep, Fetching, Beginning

LEMMA Invariance == Spec => []IInv
<1>1. Init => IInv
    BY InitIInv
<1>2. IInv /\ [Next]_vars => IInv'
    BY NextIInv
<1> QED
    BY <1>1, <1>2, PTL DEF Spec

(* The state keeps its shape, whatever is released, fails or dies. *)
THEOREM TypeCorrect == Spec => []TypeOK
<1>1. IInv => TypeOK
    BY DEF IInv
<1> QED
    BY <1>1, Invariance, PTL

-----------------------------------------------------------------------------
(* The files.  In the directory of a date that the two imports have not    *)
(* worked on at once, a file whose tag is there is whole and of that       *)
(* release, and so are the files that a fetch has passed and those of the  *)
(* running batch.                                                          *)

IsOf(file, tag) == file.of = tag /\ file.whole

Sound(files, d) == \A k \in Parts : files[d][k].etag # None => IsOf(files[d][k], files[d][k].etag)

Writing(files, f) ==
    LET file == files[f.date][f.part]
    IN  /\ f.step # "lost"
        /\ f.step \in {"open", "stream"} => file.etag = None
        /\ f.step = "stream" => file.of = f.tag
        /\ f.step = "etag" => IsOf(file, f.tag)

Passed(files, f) ==
    /\ Underway(f) => \A k \in 1..Files[f.tag] : k < f.part => IsOf(files[f.date][k], f.tag)
    /\ f.step = "ready" => \A k \in 1..Files[f.tag] : IsOf(files[f.date][k], f.tag)

FilesInv ==
    /\ \A d \in Dates : d \notin overlapped => Sound(disk, d)
    /\ fetch.date \notin overlapped => Writing(disk, fetch) /\ Passed(disk, fetch)
    /\ otherFetch.date \notin overlapped => Writing(disk, otherFetch) /\ Passed(disk, otherFetch)
    /\ BatchReadsWholeRelease

LEMMA Earlier ==
    ASSUME NEW n \in Nat, NEW p \in 1..n
    PROVE  /\ \A k \in 1..n : k < p => k # p
           /\ \A k \in 1..n : k < p + 1 => k < p \/ k = p
OBVIOUS

(* What the state of a fetch says does not change with other directories,  *)
(* and a fetch that has just begun says nothing.                           *)
LEMMA Elsewhere ==
    ASSUME NEW f \in FetchType, FetchInv(f), NEW files, NEW files2,
           \A k \in Parts : files2[f.date][k] = files[f.date][k],
           Writing(files, f) /\ Passed(files, f)
    PROVE  Writing(files2, f) /\ Passed(files2, f)
<1>1. Underway(f) => f.part \in Parts /\ 1..Files[f.tag] \subseteq Parts
    BY AtFile
<1>2. f.step = "ready" => 1..Files[f.tag] \subseteq Parts
    BY PartsCover DEF FetchInv
<1>3. Writing(files2, f)
    BY <1>1 DEF Writing, Underway
<1>4. Passed(files2, f)
    BY <1>1, <1>2 DEF Passed
<1> QED
    BY <1>3, <1>4

LEMMA JustBegun ==
    ASSUME NEW f, f.step \in {"none", "release"}, NEW files
    PROVE  Writing(files, f) /\ Passed(files, f)
BY DEF Writing, Passed, Underway

(* The step of a fetch in a directory where nobody else is at work. *)
LEMMA AloneInDirectory ==
    ASSUME TypeOK, NEW f \in FetchType, FetchInv(f), NEW f2, NEW g, NEW g2, FileStep(f, f2, g, g2),
           Same(f, f2), g.date # f.date, f.date \in Dates,
           Sound(disk, f.date), Writing(disk, f), Passed(disk, f)
    PROVE  Sound(disk', f.date) /\ Writing(disk', f2) /\ Passed(disk', f2)
<1> DEFINE d == f.date
           p == f.part
           n == Files[f.tag]
<1>1. f2.date = d /\ f2.tag = f.tag
    BY DEF Same
<1>2. Underway(f) => d \in Dates /\ p \in Parts /\ n \in Nat /\ 1..n \subseteq Parts /\ p \in 1..n
    BY AtFile
<1>3. \A k \in Parts : k # p => disk'[d][k] = disk[d][k]
    BY StepDisk
<1>4. ASSUME NEW file \in FileType, Underway(f), PutFile(f, file) PROVE disk'[d][p] = file
    BY <1>2, <1>4, PutFileFacts, Types
\* The files before the one that the fetch is at stay as they are.
<1>5. Underway(f) => \A k \in 1..n : k < p => IsOf(disk'[d][k], f.tag)
  <2> SUFFICES ASSUME Underway(f), NEW k \in 1..n, k < p PROVE IsOf(disk'[d][k], f.tag)
      OBVIOUS
  <2>1. k \in Parts /\ k # p
      BY <1>2
  <2>2. IsOf(disk[d][k], f.tag)
      BY DEF Passed
  <2> QED
      BY <1>3, <2>1, <2>2
<1>6. ASSUME Underway(f), IsOf(disk'[d][p], f.tag), f2 = NextFile(f)
      PROVE  Writing(disk', f2) /\ Passed(disk', f2)
  <2>1. \/ f2.step = "ready" /\ p = n
        \/ f2.step = "file" /\ f2.part = p + 1
      BY <1>6, NextFileFacts
  <2>2. \A k \in 1..n : k < p \/ k = p => IsOf(disk'[d][k], f.tag)
      BY <1>5, <1>6
  <2>3. CASE f2.step = "ready" /\ p = n
    <3>1. \A k \in 1..n : IsOf(disk'[d][k], f.tag)
        BY <1>2, <1>6, <2>2, <2>3
    <3> QED
        BY <1>1, <2>3, <3>1 DEF Writing, Passed, Underway
  <2>4. CASE f2.step = "file" /\ f2.part = p + 1
    <3>1. \A k \in 1..n : k < p + 1 => k < p \/ k = p
      <4> HIDE DEF n, p
      <4> QED
          BY <1>2, <1>6, Earlier
    <3>2. \A k \in 1..n : k < f2.part => IsOf(disk'[d][k], f.tag)
        BY <2>2, <2>4, <3>1
    <3> QED
        BY <1>1, <2>4, <3>2 DEF Writing, Passed
  <2> QED
      BY <2>1, <2>3, <2>4
<1>7. ASSUME Underway(f), f2.part = p, Underway(f2) PROVE Passed(disk', f2)
    BY <1>1, <1>5, <1>7 DEF Passed, Underway
<1>8. ASSUME disk'[d][p].etag = None \/ IsOf(disk'[d][p], disk'[d][p].etag) PROVE Sound(disk', d)
    BY <1>3, <1>8 DEF Sound
<1>9. CASE /\ f.step = "release" /\ (f2.step = "empty" \/ (f2.step = "file" /\ f2.part = 1))
           /\ UNCHANGED disk
  <2>1. f2.step = "file" => \A k \in 1..Files[f2.tag] : ~(k < f2.part)
      BY <1>9
  <2> QED
      BY <1>9, <2>1 DEF Writing, Passed, Underway, Sound
<1>10. CASE f.step = "file" /\ UpToDate(File(f), f.tag) /\ f2 = NextFile(f) /\ UNCHANGED disk
  <2>1. Underway(f) /\ File(f) = disk[d][p] /\ p \in Parts /\ f.tag # None
      BY <1>2, <1>10, AtFile, ConstantFacts DEF Underway, File
  <2>2. IsOf(disk'[d][p], f.tag)
      BY <1>10, <2>1 DEF UpToDate, Sound
  <2> QED
      BY <1>6, <1>10, <2>1, <2>2 DEF Sound
<1>11. CASE f.step = "file" /\ f2.step = "open" /\ f2.part = p /\ PutFile(f, Absent)
  <2>1. Underway(f) /\ Underway(f2) /\ Absent \in FileType /\ Absent.etag = None
      BY <1>11 DEF Underway, Absent, FileType
  <2>2. disk'[d][p] = Absent
      BY <1>4, <1>11, <2>1
  <2> QED
      BY <1>1, <1>7, <1>8, <1>11, <2>1, <2>2 DEF Writing
<1>12. CASE /\ f.step = "open" /\ f2.step = "stream" /\ f2.part = p
            /\ \E file \in FileType : /\ file.etag = File(f).etag /\ PutFile(f, file)
                                      /\ file.of = f.tag
  <2>1. PICK file \in FileType : file.etag = File(f).etag /\ PutFile(f, file) /\ file.of = f.tag
      BY <1>12
  <2>2. Underway(f) /\ Underway(f2)
      BY <1>12 DEF Underway
  <2>3. disk'[d][p] = file
      BY <1>4, <2>1, <2>2
  <2>4. File(f).etag = None
      BY <1>12 DEF Writing, File
  <2> QED
      BY <1>1, <1>7, <1>8, <1>12, <2>1, <2>2, <2>3, <2>4 DEF Writing
<1>13. CASE /\ f.step = "stream" /\ f2.step = "etag" /\ f2.part = p
            /\ \E file \in FileType :
                  file.etag = File(f).etag /\ file.of = File(f).of /\ file.whole /\ PutFile(f, file)
  <2>1. PICK file \in FileType :
            file.etag = File(f).etag /\ file.of = File(f).of /\ file.whole /\ PutFile(f, file)
      BY <1>13
  <2>2. Underway(f) /\ Underway(f2)
      BY <1>13 DEF Underway
  <2>3. disk'[d][p] = file
      BY <1>4, <2>1, <2>2
  <2>4. File(f).etag = None /\ File(f).of = f.tag
      BY <1>13 DEF Writing, File
  <2> QED
      BY <1>1, <1>7, <1>8, <1>13, <2>1, <2>2, <2>3, <2>4 DEF Writing, IsOf
<1>14. CASE /\ f.step = "etag" /\ f2 = NextFile(f)
            /\ \E file \in FileType :
                  /\ file.etag = f.tag /\ file.of = File(f).of /\ file.whole = File(f).whole
                  /\ PutFile(f, file)
  <2>1. PICK file \in FileType :
            file.etag = f.tag /\ file.of = File(f).of /\ file.whole = File(f).whole /\ PutFile(f, file)
      BY <1>14
  <2>2. Underway(f)
      BY <1>14 DEF Underway
  <2>3. disk'[d][p] = file
      BY <1>4, <2>1, <2>2
  <2>4. File(f).of = f.tag /\ File(f).whole
      BY <1>14 DEF Writing, File, IsOf
  <2>5. IsOf(disk'[d][p], f.tag) /\ disk'[d][p].etag = f.tag
      BY <2>1, <2>3, <2>4 DEF IsOf
  <2> QED
      BY <1>6, <1>8, <1>14, <2>2, <2>5
<1>15. CASE f2.step = "failed" /\ UNCHANGED disk
    BY <1>15 DEF Writing, Passed, Underway, Sound
<1> QED
  <2>1. f.step # "lost"
      BY DEF Writing
  <2> QED
      BY <1>9, <1>10, <1>11, <1>12, <1>13, <1>14, <1>15, <2>1 DEF FileStep

(* The step of a fetch, seen from all the directories. *)
LEMMA FetchFiles ==
    ASSUME TypeOK, NEW f \in FetchType, FetchInv(f), NEW f2, NEW g \in FetchType, FetchInv(g), NEW g2,
           FetchStep(f, f2, g, g2) \/ FetchFails(f, f2, g, g2),
           NEW over, Dates \cap {f.date} \cap {g.date} \subseteq over,
           \A d \in Dates : d \notin over => Sound(disk, d),
           f.date \notin over => Writing(disk, f) /\ Passed(disk, f),
           g.date \notin over => Writing(disk, g) /\ Passed(disk, g)
    PROVE  /\ \A d \in Dates : d \notin over => Sound(disk', d)
           /\ f2.date \notin over => Writing(disk', f2) /\ Passed(disk', f2)
           /\ g2.date \notin over => Writing(disk', g2) /\ Passed(disk', g2)
           /\ f2.date = f.date /\ g2.date = g.date /\ f.date \in Dates
           /\ \A d \in Dates, k \in Parts : d # f.date => disk'[d][k] = disk[d][k]
<1>1. f.step # "none" /\ FileStep(f, f2, g, g2) /\ Same(f, f2) /\ Same(g, g2)
    BY StepCases
<1>2. f.date \in Dates /\ f2.date = f.date /\ g2.date = g.date
    BY <1>1 DEF FetchInv, Same
<1>3. \A d \in Dates, k \in Parts : d # f.date => disk'[d][k] = disk[d][k]
    BY <1>1, StepDisk
<1>4. f.date \notin over => Sound(disk', f.date) /\ Writing(disk', f2) /\ Passed(disk', f2)
    BY <1>1, <1>2, AloneInDirectory
<1>5. \A d \in Dates : d \notin over => Sound(disk', d)
  <2> SUFFICES ASSUME NEW d \in Dates, d \notin over, d # f.date PROVE Sound(disk', d)
      BY <1>4
  <2> QED
      BY <1>3 DEF Sound
<1>6. ASSUME g.date \notin over PROVE Writing(disk', g2) /\ Passed(disk', g2)
  <2>1. CASE g.step = "none"
      BY <1>1, <2>1, JustBegun DEF Same
  <2>2. CASE g.step # "none"
    <3>1. g.date \in Dates /\ g.date # f.date
        BY <1>6, <2>2 DEF FetchInv
    <3>2. g2 = g
        BY <1>1, <3>1, LostFacts DEF FileStep
    <3>3. \A k \in Parts : disk'[g.date][k] = disk[g.date][k]
        BY <1>3, <3>1
    <3> QED
        BY <1>6, <3>2, <3>3, Elsewhere
  <2> QED
      BY <2>1, <2>2
<1> QED
    BY <1>2, <1>3, <1>4, <1>5, <1>6

LEMMA InitFiles == Init => FilesInv
<1> SUFFICES ASSUME Init PROVE FilesInv
    OBVIOUS
<1>1. /\ fetch = NoFetch /\ otherFetch = NoFetch /\ current = None
      /\ disk = [d \in Dates |-> [k \in Parts |-> Absent]]
    BY DEF Init
<1>2. \A d \in Dates : Sound(disk, d)
    BY <1>1 DEF Sound, Absent
<1> QED
    BY <1>1, <1>2, NothingFetched, JustBegun DEF FilesInv, BatchReadsWholeRelease

(* The running batch still finds its files. *)
LEMMA BatchKept ==
    ASSUME IInv, BatchReadsWholeRelease, overlapped \subseteq overlapped',
           current' = current, job'.found = job.found,
           current # None /\ current \notin overlapped' =>
              \A k \in Parts : disk'[current][k] = disk[current][k]
    PROVE  BatchReadsWholeRelease'
<1> SUFFICES ASSUME current # None, current \notin overlapped' PROVE FilesAreWhole'
    BY DEF BatchReadsWholeRelease
<1> DEFINE tag == job.found[current]
<1>1. tag \in Tags
    BY DEF IInv, QueueInv
<1>2. 1..Files[tag] \subseteq Parts
    BY <1>1, PartsCover
<1>3. \A k \in 1..Files[tag] : disk[current][k].of = tag /\ disk[current][k].whole
    BY DEF BatchReadsWholeRelease, FilesAreWhole
<1>4. \A k \in 1..Files[tag] : disk'[current][k].of = tag /\ disk'[current][k].whole
    BY <1>2, <1>3
<1> QED
    BY <1>4 DEF FilesAreWhole

LEMMA FilesQuiet ==
    ASSUME IInv, FilesInv, UNCHANGED disk, overlapped \subseteq overlapped',
           fetch' = fetch \/ fetch'.step \in {"none", "release"},
           otherFetch' = otherFetch \/ otherFetch'.step \in {"none", "release"},
           current' = None \/ (current' = current /\ job'.found = job.found)
    PROVE  FilesInv'
<1>1. \A d \in Dates : d \notin overlapped' => Sound(disk', d)
    BY DEF FilesInv
<1>2. fetch'.date \notin overlapped' => Writing(disk', fetch') /\ Passed(disk', fetch')
    BY JustBegun DEF FilesInv
<1>3. otherFetch'.date \notin overlapped' => Writing(disk', otherFetch') /\ Passed(disk', otherFetch')
    BY JustBegun DEF FilesInv
<1>4. BatchReadsWholeRelease'
  <2>1. CASE current' = None
      BY <2>1 DEF BatchReadsWholeRelease
  <2>2. CASE current' = current /\ job'.found = job.found
      BY <2>2, BatchKept DEF FilesInv
  <2> QED
      BY <2>1, <2>2
<1> QED
    BY <1>1, <1>2, <1>3, <1>4 DEF FilesInv, Dates

(* What a batch reads is in a directory that the step of a fetch leaves    *)
(* alone.                                                                  *)
LEMMA FilesFetching ==
    ASSUME IInv, FilesInv, Fetching
    PROVE  FilesInv'
<1>1. /\ TypeOK /\ fetch \in FetchType /\ FetchInv(fetch) /\ otherFetch \in FetchType /\ FetchInv(otherFetch)
      /\ current \in Dates \cup {None}
    BY Types DEF IInv, QueueInv, BesideInv
<1>2. UNCHANGED <<job, current, overlapped>>
    BY DEF Fetching, FetchStep, FetchFails
<1>3. Dates \cap {fetch.date} \cap {otherFetch.date} \subseteq overlapped
    BY DEF IInv, BesideInv
<1>4. /\ \A d \in Dates : d \notin overlapped => Sound(disk, d)
      /\ fetch.date \notin overlapped => Writing(disk, fetch) /\ Passed(disk, fetch)
      /\ otherFetch.date \notin overlapped => Writing(disk, otherFetch) /\ Passed(disk, otherFetch)
      /\ BatchReadsWholeRelease
    BY DEF FilesInv
<1>5. ASSUME NEW f, f.date \in Dates, current \notin overlapped, f.date # current,
             \A d \in Dates, k \in Parts : d # f.date => disk'[d][k] = disk[d][k],
             current # None
      PROVE  \A k \in Parts : disk'[current][k] = disk[current][k]
    BY <1>1, <1>5
<1>6. CASE \/ FetchStep(fetch, fetch', otherFetch, otherFetch')
           \/ FetchFails(fetch, fetch', otherFetch, otherFetch')
  <2>1. /\ \A d \in Dates : d \notin overlapped => Sound(disk', d)
        /\ fetch'.date \notin overlapped => Writing(disk', fetch') /\ Passed(disk', fetch')
        /\ otherFetch'.date \notin overlapped => Writing(disk', otherFetch') /\ Passed(disk', otherFetch')
        /\ fetch.date \in Dates
        /\ \A d \in Dates, k \in Parts : d # fetch.date => disk'[d][k] = disk[d][k]
      BY <1>1, <1>3, <1>4, <1>6, FetchFiles
  <2>2. fetch.step # "none"
      BY <2>1, NothingFetched, ConstantFacts DEF IInv, QueueInv, FetchInv
  <2>3. fetch.date # current
      BY <2>2 DEF IInv, QueueInv
  <2>4. BatchReadsWholeRelease'
      BY <1>2, <1>4, <1>5, <2>1, <2>3, BatchKept
  <2> QED
      BY <1>2, <2>1, <2>4 DEF FilesInv, Dates
<1>7. CASE \/ FetchStep(otherFetch, otherFetch', fetch, fetch')
           \/ FetchFails(otherFetch, otherFetch', fetch, fetch')
  <2>1. /\ \A d \in Dates : d \notin overlapped => Sound(disk', d)
        /\ otherFetch'.date \notin overlapped => Writing(disk', otherFetch') /\ Passed(disk', otherFetch')
        /\ fetch'.date \notin overlapped => Writing(disk', fetch') /\ Passed(disk', fetch')
        /\ otherFetch.date \in Dates
        /\ \A d \in Dates, k \in Parts : d # otherFetch.date => disk'[d][k] = disk[d][k]
      BY <1>1, <1>3, <1>4, <1>7, FetchFiles
  <2>2. current # None /\ current \notin overlapped => otherFetch.date # current
      BY <1>1 DEF IInv, BesideInv
  <2>3. BatchReadsWholeRelease'
      BY <1>2, <1>4, <1>5, <2>1, <2>2, BatchKept
  <2> QED
      BY <1>2, <2>1, <2>3 DEF FilesInv, Dates
<1> QED
    BY <1>6, <1>7 DEF Fetching

(* The directory that a batch removes is that of its own date: nobody else *)
(* is at work there, or both are.                                          *)
LEMMA FilesRemoved ==
    ASSUME IInv, FilesInv, NEW d \in Dates, UNCHANGED <<job, overlapped>>,
           \A e \in Dates, k \in Parts : e # d => disk'[e][k] = disk[e][k],
           \A k \in Parts : disk'[d][k] \in {disk[d][k], Absent},
           fetch'.date = fetch.date, otherFetch'.date = otherFetch.date,
           fetch.date # d => fetch' = fetch, otherFetch.date # d => otherFetch' = otherFetch,
           fetch.date = d => d \in overlapped, otherFetch.date = d => d \in overlapped,
           \/ current' = None
           \/ current' = current /\ (current = d => d \in overlapped)
    PROVE  FilesInv'
<1>1. /\ fetch \in FetchType /\ FetchInv(fetch) /\ otherFetch \in FetchType /\ FetchInv(otherFetch)
      /\ current \in Dates \cup {None}
    BY Types DEF IInv, QueueInv, BesideInv
<1>2. \A e \in Dates : e \notin overlapped => Sound(disk', e)
  <2>1. Absent.etag = None
      BY DEF Absent
  <2> QED
      BY <2>1 DEF FilesInv, Sound
<1>3. ASSUME NEW f \in FetchType, FetchInv(f), f.date # d, Writing(disk, f) /\ Passed(disk, f)
      PROVE  Writing(disk', f) /\ Passed(disk', f)
  <2>1. CASE f.step = "none"
      BY <2>1, JustBegun
  <2>2. CASE f.step # "none"
    <3>1. \A k \in Parts : disk'[f.date][k] = disk[f.date][k]
        BY <1>3, <2>2 DEF FetchInv
    <3> QED
        BY <1>3, <3>1, Elsewhere
  <2> QED
      BY <2>1, <2>2
<1>4. fetch'.date \notin overlapped => Writing(disk', fetch') /\ Passed(disk', fetch')
    BY <1>1, <1>3 DEF FilesInv
<1>5. otherFetch'.date \notin overlapped => Writing(disk', otherFetch') /\ Passed(disk', otherFetch')
    BY <1>1, <1>3 DEF FilesInv
<1>6. BatchReadsWholeRelease'
  <2>1. CASE current' = None
      BY <2>1 DEF BatchReadsWholeRelease
  <2>2. CASE current' = current /\ (current = d => d \in overlapped)
    <3>1. current # None /\ current \notin overlapped' =>
              \A k \in Parts : disk'[current][k] = disk[current][k]
        BY <1>1, <2>2
    <3> QED
        BY <2>2, <3>1, BatchKept DEF FilesInv
  <2> QED
      BY <2>1, <2>2
<1> QED
    BY <1>2, <1>4, <1>5, <1>6 DEF FilesInv, Dates

LEMMA FilesBatchSucceeds ==
    ASSUME IInv, FilesInv, BatchSucceeds
    PROVE  FilesInv'
<1>1. /\ current # None /\ current' = None
      /\ RemoveTraces(current, otherFetch, otherFetch')
      /\ UNCHANGED <<job, fetch, overlapped>>
    BY DEF BatchSucceeds
<1>2. /\ TypeOK /\ current \in Dates /\ otherFetch \in FetchType /\ FetchInv(otherFetch)
    BY <1>1, Types DEF IInv, BesideInv
<1>3. /\ Same(otherFetch, otherFetch') /\ (otherFetch.date # current => otherFetch' = otherFetch)
      /\ \A e \in Dates, k \in Parts : e # current => disk'[e][k] = disk[e][k]
      /\ \A k \in Parts : disk'[current][k] \in {disk[current][k], Absent}
    BY <1>1, <1>2, TracesRemoved
<1>4. fetch.date # current
    BY <1>1, NothingFetched DEF IInv, QueueInv, FetchInv
<1>5. otherFetch.date = current => current \in overlapped
    BY <1>2 DEF IInv, BesideInv
<1> QED
    BY <1>1, <1>2, <1>3, <1>4, <1>5, FilesRemoved DEF Same

LEMMA FilesOtherSucceeds ==
    ASSUME IInv, FilesInv, OtherSucceeds
    PROVE  FilesInv'
<1>1. /\ otherCurrent # None /\ RemoveTraces(otherCurrent, fetch, fetch')
      /\ UNCHANGED <<job, current, otherFetch, overlapped>>
    BY DEF OtherSucceeds
<1>2. /\ TypeOK /\ otherCurrent \in Dates /\ fetch \in FetchType /\ FetchInv(fetch)
      /\ otherFetch \in FetchType /\ FetchInv(otherFetch)
    BY <1>1, Types DEF IInv, QueueInv, BesideInv
<1>3. /\ Same(fetch, fetch') /\ (fetch.date # otherCurrent => fetch' = fetch)
      /\ \A e \in Dates, k \in Parts : e # otherCurrent => disk'[e][k] = disk[e][k]
      /\ \A k \in Parts : disk'[otherCurrent][k] \in {disk[otherCurrent][k], Absent}
    BY <1>1, <1>2, TracesRemoved
<1>4. otherFetch.date # otherCurrent
    BY <1>1, <1>2, NothingFetched DEF IInv, BesideInv, FetchInv
<1>5. /\ fetch.date = otherCurrent => otherCurrent \in overlapped
      /\ current = otherCurrent => otherCurrent \in overlapped
    BY <1>2 DEF IInv, BesideInv
<1> QED
    BY <1>1, <1>2, <1>3, <1>4, <1>5, FilesRemoved DEF Same

(* The batch that is begun has the files that its fetch left.              *)
LEMMA FetchBegins ==
    ASSUME NEW q, FetchNext(q)
    PROVE  /\ fetch'.step \in {"none", "release"} /\ overlapped \subseteq overlapped'
           /\ otherFetch' = otherFetch
BY DEF FetchNext, NoFetch

LEMMA FilesTakeFetched ==
    ASSUME IInv, FilesInv, TakeFetched
    PROVE  FilesInv'
<1>1. FetchNext(queue) /\ current = None /\ UNCHANGED disk
    BY DEF TakeFetched
<1>2. /\ fetch'.step \in {"none", "release"} /\ overlapped \subseteq overlapped'
      /\ otherFetch' = otherFetch
    BY <1>1, FetchBegins
<1>3. CASE current' = current /\ job' = job
    BY <1>1, <1>2, <1>3, FilesQuiet
<1>4. CASE fetch.step = "ready" /\ current' = fetch.date
  <2>1. /\ \A d \in Dates : d \notin overlapped' => Sound(disk', d)
        /\ fetch'.date \notin overlapped' => Writing(disk', fetch') /\ Passed(disk', fetch')
        /\ otherFetch'.date \notin overlapped' => Writing(disk', otherFetch') /\ Passed(disk', otherFetch')
      BY <1>1, <1>2, JustBegun DEF FilesInv
  <2>2. fetch.date \notin overlapped => \A k \in 1..Files[fetch.tag] : IsOf(disk[fetch.date][k], fetch.tag)
      BY <1>4 DEF FilesInv, Passed
  <2>3. fetch.tag = job.found[fetch.date] /\ job'.found = job.found
      BY <1>4, TakeFetchedStep DEF IInv, QueueInv
  <2>4. BatchReadsWholeRelease'
      BY <1>1, <1>2, <1>4, <2>2, <2>3 DEF BatchReadsWholeRelease, FilesAreWhole, IsOf
  <2> QED
      BY <2>1, <2>4 DEF FilesInv, Dates
<1> QED
    BY <1>3, <1>4 DEF TakeFetched

LEMMA NextFiles == IInv /\ FilesInv /\ [Next]_vars => FilesInv'
<1> SUFFICES ASSUME IInv, FilesInv, [Next]_vars PROVE FilesInv'
    OBVIOUS
<1>1. CASE \E d \in Dates : Publish(d)
    BY <1>1, FilesQuiet DEF Publish, beside
<1>2. CASE \E today \in Dates : StartScan(today)
  <2>1. current = None
      BY <1>2 DEF StartScan, IInv, QueueInv
  <2> QED
      BY <1>2, <2>1, FilesQuiet DEF StartScan
<1>3. CASE ListPage
  <2>1. current' = None
      BY <1>3 DEF ListPage, IInv, QueueInv
  <2>2. CASE UNCHANGED <<fetch, beside>>
      BY <1>3, <2>1, <2>2, FilesQuiet DEF ListPage, beside
  <2>3. CASE \E q : FetchNext(q)
    <3>1. /\ fetch'.step \in {"none", "release"} /\ overlapped \subseteq overlapped'
          /\ otherFetch' = otherFetch
        BY <2>3, FetchBegins
    <3> QED
        BY <1>3, <2>1, <3>1, FilesQuiet DEF ListPage
  <2> QED
      BY <1>3, <2>2, <2>3 DEF ListPage, BeginQueue
<1>4. CASE Fetching
    BY <1>4, FilesFetching
<1>5. CASE TakeFetched
    BY <1>5, FilesTakeFetched
<1>6. CASE BatchSucceeds
    BY <1>6, FilesBatchSucceeds
<1>7. CASE EndQueue
    BY <1>7, FilesQuiet DEF EndQueue, beside
<1>8. CASE \E dates \in SUBSET Dates : StartReimport(dates)
  <2>1. current = None
      BY <1>8 DEF StartReimport, IInv, QueueInv
  <2> QED
      BY <1>8, <2>1, FilesQuiet DEF StartReimport, beside
<1>9. CASE ListPageFails
  <2>1. current' = None
      BY <1>9 DEF ListPageFails, IInv, QueueInv
  <2>2. \E q : FetchNext(q)
      BY <1>9 DEF ListPageFails, BeginQueue
  <2>3. /\ fetch'.step \in {"none", "release"} /\ overlapped \subseteq overlapped'
        /\ otherFetch' = otherFetch
      BY <2>2, FetchBegins
  <2> QED
      BY <1>9, <2>1, <2>3, FilesQuiet DEF ListPageFails
<1>10. CASE BatchFails
    BY <1>10, FilesQuiet DEF BatchFails, beside
<1>11. CASE Crash
    BY <1>11, FilesQuiet, NothingFetched DEF Crash, beside
<1>12. CASE Beginning
  <2>1. PICK d \in Dates : \E tag \in TagsOf(d) : OtherBegins(d, tag)
      BY <1>12 DEF Beginning
  <2>2. PICK tag \in TagsOf(d) : OtherBegins(d, tag)
      BY <2>1
  <2> QED
      BY <2>2, OtherBeginsStep, FilesQuiet
<1>13. CASE OtherTakes
    BY <1>13, OtherTakesStep, NothingFetched, FilesQuiet
<1>14. CASE OtherSucceeds
    BY <1>14, FilesOtherSucceeds
<1>15. CASE OtherFails
    BY <1>15, OtherFailsStep, FilesQuiet
<1>16. CASE OtherDies
    BY <1>16, OtherDiesStep, NothingFetched, FilesQuiet
<1>17. CASE UNCHANGED vars
    BY <1>17, FilesQuiet DEF vars, beside
<1> QED
    BY <1>1, <1>2, <1>3, <1>4, <1>5, <1>6, <1>7, <1>8, <1>9, <1>10, <1>11, <1>12, <1>13,
       <1>14, <1>15, <1>16, <1>17 DEF Next, ImportStep, OtherStep, Fetching, Beginning

(* A batch reads all files of one release, for any number of files,        *)
(* releases anew, failures, crashes and dates that another import works on *)
(* meanwhile: the files that it reads are whole and of the release that    *)
(* the listing found, unless the two have worked on its date at once.      *)
THEOREM WholeReleases == Spec => []BatchReadsWholeRelease
<1>1. Init => FilesInv
    BY InitFiles
<1>2. IInv /\ FilesInv /\ [Next]_vars => FilesInv'
    BY NextFiles
<1>3. FilesInv => BatchReadsWholeRelease
    BY DEF FilesInv
<1> QED
    BY <1>1, <1>2, <1>3, Invariance, PTL DEF Spec

-----------------------------------------------------------------------------
(* The order of the batches. *)

LEMMA YearsFacts ==
    ASSUME IInv, pc # "idle"
    PROVE  /\ 1 \in DOMAIN job.years /\ Head(job.years) = job.years[1]
           /\ \A i \in DOMAIN job.years : i = 1 \/ i = 2
           /\ \A i \in DOMAIN job.years : job.years[i] \in {0, 1, 2}
           /\ \A i \in DOMAIN job.years :
                 i > 1 => /\ Head(job.years) # job.years[i]
                          /\ job.reimport => Head(job.years) < job.years[i]
<1> DEFINE y == job.years
<1>1. IF job.reimport THEN y \in {<<1>>, <<2>>, <<1, 2>>} ELSE y \in {<<2, 1>>, <<1, 0>>, <<1>>, <<0>>}
    BY DEF IInv, YearsInv
<1> HIDE DEF y
<1>2. ASSUME NEW a \in {0, 1, 2}, y = <<a>>
      PROVE  DOMAIN y = {1} /\ Head(y) = y[1] /\ y[1] = a
    BY <1>2
<1>3. ASSUME NEW a \in {0, 1, 2}, NEW b \in {0, 1, 2}, y = <<a, b>>
      PROVE  DOMAIN y = {1, 2} /\ Head(y) = y[1] /\ y[1] = a /\ y[2] = b
    BY <1>3
<1>4. CASE y \in {<<0>>, <<1>>, <<2>>}
  <2>1. PICK a \in {0, 1, 2} : y = <<a>>
      BY <1>4
  <2>2. DOMAIN y = {1} /\ Head(y) = y[1] /\ y[1] = a
      BY <1>2, <2>1
  <2> QED
      BY <2>2 DEF y
<1>5. CASE y = <<1, 2>>
  <2>1. DOMAIN y = {1, 2} /\ Head(y) = y[1] /\ y[1] = 1 /\ y[2] = 2
      BY <1>3, <1>5
  <2> QED
      BY <2>1 DEF y
<1>6. CASE ~job.reimport /\ y \in {<<2, 1>>, <<1, 0>>}
  <2>1. PICK a \in {1, 2} : y = <<a, a - 1>> /\ a - 1 \in {0, 1, 2} /\ a # a - 1
    <3>1. CASE y = <<2, 1>>
      <4>1. 2 - 1 = 1
          OBVIOUS
      <4> QED
          BY <3>1, <4>1
    <3>2. CASE y = <<1, 0>>
      <4>1. 1 - 1 = 0
          OBVIOUS
      <4> QED
          BY <3>2, <4>1
    <3> QED
        BY <1>6, <3>1, <3>2
  <2> DEFINE b == a - 1
  <2>2. y = <<a, b>> /\ b \in {0, 1, 2} /\ a # b /\ a \in {0, 1, 2}
      BY <2>1
  <2> HIDE DEF b
  <2>3. DOMAIN y = {1, 2} /\ Head(y) = y[1] /\ y[1] = a /\ y[2] = b
      BY <1>3, <2>2
  <2> QED
      BY <1>6, <2>2, <2>3 DEF y
<1> QED
    BY <1>1, <1>4, <1>5, <1>6

LEMMA InitOrder == Init => OrderInv
BY DEF Init, OrderInv, NoJob, NoTags, NoFetch

(* The fetch of a date goes on, or nothing of the import changes. *)
LEMMA OrderKept ==
    ASSUME OrderInv, UNCHANGED <<pc, job, queue>>, current' = current \/ current' = None,
           fetch'.step # "none" => fetch.step # "none" /\ fetch'.date = fetch.date
    PROVE  OrderInv'
BY DEF OrderInv, InOrder, Year

(* An import starts, or the process dies. *)
LEMMA OrderFromNothing ==
    ASSUME job'.found = NoTags, job'.begun = {}, queue' = NoTags, fetch' = NoFetch
    PROVE  OrderInv'
BY DEF OrderInv, NoTags, NoFetch

(* What is queued is of the year that was listed. *)
LEMMA OrderQueued ==
    ASSUME IInv, OrderInv, pc = "list", current = None, current' = None, pc' \in {"list", "work"},
           job'.years = job.years, job'.begun = job.begun, job'.reimport = job.reimport,
           \A d \in Dates : job'.found[d] # None =>
               job.found[d] # None \/ Year(d) = Head(job.years),
           pc' = "list" => UNCHANGED <<queue, fetch>>,
           pc' = "work" => /\ \A d \in Dates : queue'[d] # None => job'.found[d] # None
                           /\ fetch'.step # "none" =>
                                 /\ fetch'.date \in Dates /\ job'.found[fetch'.date] # None
                                 /\ \A e \in Dates : queue'[e] # None => fetch'.date < e
    PROVE  OrderInv'
<1>1. \A d \in Dates : job'.found[d] # None => Year(d) = Head(job.years)
    BY DEF OrderInv
<1>2. \A d \in job.begun : Year(d) # Head(job.years) /\ (job.reimport => Year(d) <= Head(job.years))
  <2>1. \A d \in job.begun : job.reimport => Year(d) <= Head(job.years)
      BY DEF OrderInv
  <2>2. 1 \in DOMAIN job.years /\ Head(job.years) = job.years[1]
      BY YearsFacts
  <2>3. \A d \in job.begun : Year(d) # job.years[1]
      BY <2>2 DEF OrderInv
  <2> QED
      BY <2>1, <2>2, <2>3
<1>3. queue = NoTags /\ fetch = NoFetch
    BY DEF IInv, QueueInv
<1>4. \A d \in job.begun, e \in Dates : queue'[e] # None => InOrder(d, e)
    BY <1>1, <1>2, <1>3 DEF InOrder, NoTags
<1>5. fetch'.step # "none" => /\ \A d \in job.begun : InOrder(d, fetch'.date)
                              /\ \A e \in Dates : queue'[e] # None => fetch'.date < e
    BY <1>1, <1>2, <1>3 DEF InOrder, NoTags, NoFetch
<1>6. \A d \in job.begun, i \in DOMAIN job.years :
          i > 1 \/ pc' = "list" => /\ Year(d) # job.years[i]
                                   /\ job.reimport => Year(d) < job.years[i]
    BY DEF OrderInv
<1>7. \A d \in Dates : job'.found[d] # None => pc' # "idle" /\ Year(d) = Head(job'.years)
    BY <1>1
<1> QED
    BY <1>2, <1>4, <1>5, <1>6, <1>7 DEF OrderInv, InOrder, Year

LEMMA OrderListed ==
    ASSUME IInv, OrderInv, ListPage
    PROVE  OrderInv'
<1> DEFINE page == Page(Head(job.years), job.page)
           y == Head(job.years)
<1>1. /\ IInv' /\ page \in Seq(Release)
      /\ job'.found = FoundAfter(page) /\ job'.years = job.years /\ job'.begun = job.begun
      /\ job'.reimport = job.reimport /\ UNCHANGED <<releases, current>>
      /\ \/ /\ pc' = "work" /\ \A d \in Dates : queue'[d] # None => job'.found[d] # None
            /\ fetch'.step # "none" =>
                  /\ job'.found[fetch'.date] # None
                  /\ \A e \in Dates : queue'[e] # None => fetch'.date < e
         \/ pc' = pc /\ UNCHANGED <<queue, fetch>>
    BY ListPageStep
<1>2. /\ pc = "list" /\ TypeOK /\ job.page >= 1 /\ y \in {0} \cup Years /\ current = None
      /\ job \in JobType
    BY HeadOfYears, Types DEF ListPage, IInv, YearsInv, QueueInv
<1>3. ASSUME NEW i \in DOMAIN page PROVE Year(page[i].date) = y
  <2>1. CASE y \in Years
    <3>1. Before + i \in DOMAIN releases[y] /\ page[i] = releases[y][Before + i]
        BY <1>2, <1>3, <2>1, PageFacts
    <3> QED
        BY <2>1, <3>1 DEF IInv, YearsInv
  <2>2. CASE y \notin Years
    <3>1. page = <<>>
        BY <2>2 DEF Page
    <3> QED
        BY <1>3, <3>1
  <2> QED
      BY <2>1, <2>2
<1> HIDE DEF page
<1>4. \A d \in Dates : job'.found[d] # None => job.found[d] # None \/ Year(d) = y
  <2> SUFFICES ASSUME NEW d \in Dates, job'.found[d] # None
               PROVE  job.found[d] # None \/ Year(d) = y
      OBVIOUS
  <2>1. FoundAfter(page)[d] = job.found[d] \/ \E i \in DOMAIN page : page[i].date = d
      BY <1>1, <1>2, FoundOnPage
  <2> QED
      BY <1>1, <1>3, <2>1
<1>5. fetch'.step # "none" /\ pc' = "work" => fetch'.date \in Dates
    BY <1>1 DEF IInv, QueueInv, FetchInv
<1>6. pc' \in {"list", "work"}
    BY <1>1, <1>2
<1>7. /\ pc' = "list" => UNCHANGED <<queue, fetch>>
      /\ pc' = "work" => /\ \A d \in Dates : queue'[d] # None => job'.found[d] # None
                         /\ fetch'.step # "none" =>
                               /\ fetch'.date \in Dates /\ job'.found[fetch'.date] # None
                               /\ \A e \in Dates : queue'[e] # None => fetch'.date < e
    BY <1>1, <1>2, <1>5
<1> QED
    BY <1>1, <1>2, <1>4, <1>6, <1>7, OrderQueued

LEMMA OrderListFails ==
    ASSUME IInv, OrderInv, ListPageFails
    PROVE  OrderInv'
<1>1. /\ IInv' /\ pc' = "work" /\ job'.found = job.found /\ job'.years = job.years
      /\ job'.begun = job.begun /\ job'.reimport = job.reimport /\ UNCHANGED current
      /\ \A d \in Dates : queue'[d] # None => job'.found[d] # None
      /\ fetch'.step # "none" =>
            /\ job'.found[fetch'.date] # None
            /\ \A e \in Dates : queue'[e] # None => fetch'.date < e
    BY ListPageFailsStep
<1>2. pc = "list" /\ current = None
    BY DEF ListPageFails, IInv, QueueInv
<1>3. fetch'.step # "none" => fetch'.date \in Dates
    BY <1>1 DEF IInv, QueueInv, FetchInv
<1> QED
    BY <1>1, <1>2, <1>3, OrderQueued

LEMMA OrderTaken ==
    ASSUME IInv, OrderInv, TakeFetched
    PROVE  OrderInv'
<1>1. /\ UNCHANGED pc /\ pc = "work" /\ current = None /\ fetch.step # "none" /\ fetch.date \in Dates
      /\ job'.found = job.found /\ job'.years = job.years /\ job'.reimport = job.reimport
      /\ \/ current' = None /\ job'.begun = job.begun
         \/ current' = fetch.date /\ job'.begun = job.begun \cup {fetch.date}
      /\ \A d \in Dates : queue'[d] # None => queue[d] # None /\ d # fetch'.date
      /\ fetch'.step # "none" =>
            /\ fetch'.date \in Dates /\ queue[fetch'.date] # None
            /\ \A e \in Dates : queue[e] # None => fetch'.date <= e
    BY TakeFetchedStep
<1>2. job.begun \subseteq Dates /\ \A d \in Dates : d \in Nat
    BY Types, JobFields, ConstantFacts DEF IInv
<1>3. \A d \in job'.begun, e \in Dates : queue[e] # None => InOrder(d, e)
    BY <1>1 DEF OrderInv, InOrder
<1>4. \A d \in job'.begun, e \in Dates : queue'[e] # None => InOrder(d, e)
    BY <1>1, <1>3
<1>5. fetch'.step # "none" => /\ \A d \in job'.begun : InOrder(d, fetch'.date)
                              /\ \A e \in Dates : queue'[e] # None => fetch'.date < e
  <2> SUFFICES ASSUME fetch'.step # "none"
               PROVE  /\ \A d \in job'.begun : InOrder(d, fetch'.date)
                      /\ \A e \in Dates : queue'[e] # None => fetch'.date < e
      OBVIOUS
  <2> DEFINE next == fetch'.date
  <2>1. next \in Dates /\ next \in Nat /\ queue[next] # None
      BY <1>1, <1>2
  <2>2. \A e \in Dates : queue'[e] # None => next <= e /\ e # next
      BY <1>1
  <2> HIDE DEF next
  <2>3. \A e \in Dates : queue'[e] # None => next < e
      BY <1>2, <2>1, <2>2
  <2>4. \A d \in job'.begun : InOrder(d, next)
      BY <1>3, <2>1
  <2> QED
      BY <2>3, <2>4 DEF next
<1>6. Year(fetch.date) = Head(job.years)
  <2>1. job.found[fetch.date] # None
      BY <1>1, FetchFields, ConstantFacts
  <2> QED
      BY <1>1, <2>1 DEF OrderInv
<1>7. \A d \in job'.begun, i \in DOMAIN job.years :
          i > 1 => /\ Year(d) # job.years[i]
                   /\ job.reimport => Year(d) < job.years[i]
  <2>1. \A i \in DOMAIN job.years :
            i > 1 => /\ Head(job.years) # job.years[i]
                     /\ job.reimport => Head(job.years) < job.years[i]
      BY <1>1, YearsFacts
  <2>2. \A d \in job.begun, i \in DOMAIN job.years :
            i > 1 => /\ Year(d) # job.years[i]
                     /\ job.reimport => Year(d) < job.years[i]
      BY DEF OrderInv
  <2> QED
      BY <1>1, <1>6, <2>1, <2>2
<1>8. \A d \in job'.begun : job.reimport => Year(d) <= Head(job.years)
  <2>1. Year(fetch.date) <= Head(job.years)
    <3> DEFINE y == Year(fetch.date)
    <3>1. y \in {1, 2}
        BY <1>1, ConstantFacts DEF Years
    <3> HIDE DEF y
    <3>2. y <= y
        BY <3>1
    <3> QED
        BY <1>6, <3>2 DEF y
  <2> QED
      BY <1>1, <2>1 DEF OrderInv
<1>9. \A d \in job'.begun : current' # None => d = current' \/ InOrder(d, current')
    BY <1>1 DEF OrderInv
<1>10. \A d \in Dates : job'.found[d] # None => pc' # "idle" /\ Year(d) = Head(job'.years)
    BY <1>1 DEF OrderInv
<1> QED
    BY <1>1, <1>4, <1>5, <1>7, <1>8, <1>9, <1>10 DEF OrderInv, InOrder, Year

LEMMA OrderEndQueue ==
    ASSUME IInv, OrderInv, EndQueue
    PROVE  OrderInv'
<1>1. /\ queue' = NoTags /\ fetch' = NoFetch /\ current' = None /\ job'.found = NoTags
      /\ pc = "work"
      /\ \/ pc' = "idle" /\ job' = NoJob
         \/ /\ pc' = "list" /\ job'.reimport = job.reimport /\ job'.begun = job.begun
            /\ DOMAIN job.years = {1, 2} /\ DOMAIN job'.years = {1}
            /\ job'.years[1] = job.years[2]
            /\ job'.years[1] \in {0, 1, 2} /\ Head(job'.years) = job'.years[1]
    BY EndQueueStep
<1>2. CASE job' = NoJob
  <2>1. job'.begun = {}
      BY <1>2 DEF NoJob
  <2> QED
      BY <1>1, <2>1, OrderFromNothing
<1>3. CASE /\ pc' = "list" /\ job'.reimport = job.reimport /\ job'.begun = job.begun
           /\ DOMAIN job.years = {1, 2} /\ DOMAIN job'.years = {1}
           /\ job'.years[1] = job.years[2]
           /\ job'.years[1] \in {0, 1, 2} /\ Head(job'.years) = job'.years[1]
  <2>1. \A d \in job.begun : Year(d) # job.years[2] /\ (job.reimport => Year(d) < job.years[2])
      BY <1>3 DEF OrderInv
  <2>2. \A d \in job.begun : job.reimport => Year(d) <= job.years[2]
    <3>1. \A d \in job.begun : Year(d) \in {1, 2}
        BY Types, JobFields, ConstantFacts DEF IInv, Years
    <3> QED
        BY <1>3, <2>1, <3>1
  <2>3. /\ \A d \in Dates : job'.found[d] = None
        /\ \A d \in Dates : queue'[d] = None
        /\ fetch'.step = "none"
      BY <1>1 DEF NoTags, NoFetch
  <2>4. \A d \in job.begun, i \in DOMAIN job'.years :
            /\ Year(d) # job'.years[i] /\ (job'.reimport => Year(d) < job'.years[i])
      BY <1>3, <2>1
  <2> QED
      BY <1>1, <1>3, <2>2, <2>3, <2>4 DEF OrderInv, InOrder, Year
<1> QED
    BY <1>1, <1>2, <1>3

LEMMA NextOrder == IInv /\ OrderInv /\ [Next]_vars => OrderInv'
<1> SUFFICES ASSUME IInv, OrderInv, [Next]_vars PROVE OrderInv'
    OBVIOUS
<1>1. CASE \E d \in Dates : Publish(d)
    BY <1>1, PublishStep, OrderKept
<1>2. CASE \E today \in Dates : StartScan(today)
  <2>1. pc = "idle" /\ queue = NoTags /\ fetch = NoFetch
      BY <1>2 DEF StartScan, IInv, QueueInv
  <2> QED
      BY <1>2, <2>1, StartScanStep, OrderFromNothing
<1>3. CASE ListPage
    BY <1>3, OrderListed
<1>4. CASE Fetching
    BY <1>4, FetchStepStep, OrderKept DEF Fetching
<1>5. CASE TakeFetched
    BY <1>5, OrderTaken
<1>6. CASE BatchSucceeds \/ BatchFails
    BY <1>6, BatchSucceedsStep, BatchFailsStep, OrderKept
<1>7. CASE EndQueue
    BY <1>7, OrderEndQueue
<1>8. CASE \E dates \in SUBSET Dates : StartReimport(dates)
  <2>1. pc = "idle" /\ queue = NoTags /\ fetch = NoFetch
      BY <1>8 DEF StartReimport, IInv, QueueInv
  <2> QED
      BY <1>8, <2>1, StartReimportStep, OrderFromNothing
<1>9. CASE ListPageFails
    BY <1>9, OrderListFails
<1>10. CASE Crash
  <2>1. NoJob.found = NoTags /\ NoJob.begun = {}
      BY DEF NoJob
  <2> QED
      BY <1>10, <2>1, CrashStep, OrderFromNothing
<1>11. CASE Beginning
    BY <1>11, OtherBeginsStep, OrderKept DEF Beginning
<1>12. CASE OtherTakes \/ OtherSucceeds \/ OtherFails \/ OtherDies
    BY <1>12, OtherTakesStep, OtherSucceedsStep, OtherFailsStep, OtherDiesStep, OrderKept
<1>13. CASE UNCHANGED vars
    BY <1>13, OrderKept DEF vars
<1> QED
    BY <1>1, <1>2, <1>3, <1>4, <1>5, <1>6, <1>7, <1>8, <1>9, <1>10, <1>11, <1>12, <1>13
       DEF Next, ImportStep, OtherStep, Fetching, Beginning

LEMMA OrderInvariance == Spec => [](IInv /\ OrderInv)
<1>1. Init => IInv /\ OrderInv
    BY InitIInv, InitOrder
<1>2. (IInv /\ OrderInv) /\ [Next]_vars => (IInv /\ OrderInv)'
    BY NextIInv, NextOrder
<1> QED
    BY <1>1, <1>2, PTL DEF Spec

LEMMA OrderOfBatches ==
    ASSUME IInv, OrderInv, current # None, NEW d \in job.begun
    PROVE  /\ d \in Dates /\ current \in Dates
           /\ Year(d) = Year(current) => d <= current
           /\ job.reimport => d <= current
<1>1. d \in Dates /\ current \in Dates
    BY Types, JobFields DEF IInv
<1>2. d \in Nat /\ current \in Nat
    BY <1>1, ConstantFacts
<1>3. d = current \/ (Year(d) = Year(current) => d < current)
    BY DEF OrderInv, InOrder
<1>4. Year(d) = Year(current) => d <= current
    BY <1>2, <1>3
<1>5. job.reimport => d <= current
  <2> SUFFICES ASSUME job.reimport, ~(d <= current) PROVE FALSE
      OBVIOUS
  <2>1. current <= d
      BY <1>2
  <2>2. Year(current) <= Year(d) /\ Year(current) \in {1, 2} /\ Year(d) \in {1, 2}
      BY <1>1, <2>1, ConstantFacts DEF Years
  <2>3. Year(d) <= Year(current)
    <3>1. job.found[current] # None
        BY ConstantFacts DEF IInv, QueueInv
    <3> QED
        BY <1>1, <3>1 DEF OrderInv
  <2> QED
      BY <1>4, <2>2, <2>3
<1> QED
    BY <1>1, <1>4, <1>5

(* The batches of a year are begun oldest first in every import, whatever  *)
(* is released, fails or dies while it runs.                               *)
THEOREM OldestFirstInYear ==
    Spec => [](current # None => \A d \in job.begun : Year(d) = Year(current) => d <= current)
<1>1. IInv /\ OrderInv =>
          (current # None => \A d \in job.begun : Year(d) = Year(current) => d <= current)
    BY OrderOfBatches
<1> QED
    BY <1>1, OrderInvariance, PTL

(* An import that an operator asks for begins its batches oldest first,    *)
(* over both years: it lists the years upwards.                            *)
THEOREM ReimportsOldestFirst == Spec => [](job.reimport => OldestFirst)
<1>1. IInv /\ OrderInv => (job.reimport => OldestFirst)
    BY OrderOfBatches DEF OldestFirst
<1> QED
    BY <1>1, OrderInvariance, PTL

(* A scan does where all dates are of one year; it lists the newer of two  *)
(* years first, as MCScheduler_newyear.cfg shows. *)
THEOREM OldestFirstWithinAYear ==
    ASSUME \A d, e \in Dates : Year(d) = Year(e)
    PROVE  Spec => []OldestFirst
<1>1. IInv /\ OrderInv => OldestFirst
    BY OrderOfBatches DEF OldestFirst
<1> QED
    BY <1>1, OrderInvariance, PTL

-----------------------------------------------------------------------------
(* What the listing finds. *)

LEMMA InitList == Init => ListInv
<1> SUFFICES ASSUME Init PROVE ListInv
    OBVIOUS
<1>1. \A y \in Years : DOMAIN releases[y] = {}
    BY DEF Init
<1>2. job.known = {} /\ pc = "idle"
    BY DEF Init, NoJob
<1> QED
    BY <1>1, <1>2 DEF ListInv, AllCandidatesFound

LEMMA ReleasesFacts ==
    ASSUME TypeOK, NEW y \in Years
    PROVE  /\ releases[y] \in Seq(Release) /\ Len(releases[y]) \in Nat
           /\ DOMAIN releases[y] = 1..Len(releases[y])
           /\ \A i \in DOMAIN releases[y] : releases[y][i].date \in Dates
<1>1. releases[y] \in Seq(Release)
    BY Types
<1> QED
    BY <1>1, ReleaseOf

(* A date that is released for the first time goes to the head. *)
LEMMA NewestFirst ==
    ASSUME IInv, ListInv, budget.reissues = 0, NEW d \in Dates, Publish(d)
    PROVE  /\ \A y \in Years : \A i, j \in DOMAIN releases'[y] :
                 i < j => releases'[y][i].date > releases'[y][j].date
           /\ \A y \in Years : \A i \in DOMAIN releases[y] :
                 \E j \in DOMAIN releases'[y] : j >= i /\ releases'[y][j].date = releases[y][i].date
<1>1. TypeOK /\ Released \subseteq Dates /\ Released \subseteq Nat /\ Year(d) \in Years /\ d \in Nat
    BY ReleasedDates, ConstantFacts DEF IInv
<1>2. d = 1 + Max({0} \cup Released)
    BY DEF Publish
<1>3. \A e \in Released : e < d
  <2> DEFINE S == {0} \cup Released
  <2>1. S \subseteq 0..LastDate /\ S # {} /\ LastDate \in Nat
      BY <1>1, ConstantFacts DEF Dates
  <2>2. Max(S) \in S /\ \A x \in S : x <= Max(S)
      BY <2>1, Maximum
  <2> DEFINE m == Max(S)
  <2>3. m \in Nat /\ \A x \in Released : x <= m
      BY <2>1, <2>2
  <2>4. d = 1 + m
      BY <1>2
  <2> HIDE DEF m
  <2> QED
      BY <1>1, <2>3, <2>4
<1>4. PICK tag \in Tags : releases' = [releases EXCEPT ![Year(d)] = <<[date |-> d, tag |-> tag]>> \o @]
    BY PublishStep
<1>5. ASSUME NEW y \in Years
      PROVE  /\ \A i, j \in DOMAIN releases'[y] :
                   i < j => releases'[y][i].date > releases'[y][j].date
             /\ \A i \in DOMAIN releases[y] :
                   \E j \in DOMAIN releases'[y] : j >= i /\ releases'[y][j].date = releases[y][i].date
  <2> DEFINE s == releases[y]
             new == <<[date |-> d, tag |-> tag]>>
  <2>1. /\ s \in Seq(Release) /\ Len(s) \in Nat /\ DOMAIN s = 1..Len(s)
        /\ \A i \in DOMAIN s : s[i].date \in Dates
      BY <1>1, ReleasesFacts
  <2>2. \A i, j \in DOMAIN s : i < j => s[i].date > s[j].date
      BY DEF ListInv
  <2>3. releases \in [Years -> Seq(Release)]
      BY <1>1, Types
  <2>4. CASE y # Year(d)
    <3>1. releases'[y] = s
        BY <1>1, <1>4, <2>3, <2>4
    <3>2. \A i \in DOMAIN s : i >= i
        BY <2>1
    <3> QED
        BY <2>2, <3>1, <3>2
  <2>5. CASE y = Year(d)
    <3> DEFINE t == releases'[y]
    <3>1. t = new \o s
        BY <1>1, <1>4, <2>3, <2>5
    <3>2. new \in Seq(Release) /\ Len(new) = 1 /\ new[1].date = d
      <4>1. [date |-> d, tag |-> tag] \in Release
          BY <1>4 DEF Release
      <4> QED
          BY <4>1
    <3>3. /\ Len(new \o s) = 1 + Len(s) /\ new \o s \in Seq(Release)
          /\ \A k \in 1 .. 1 + Len(s) : (new \o s)[k] = IF k <= 1 THEN new[k] ELSE s[k - 1]
        BY <2>1, <3>2, ConcatProperties
    <3>4. DOMAIN t = 1 .. 1 + Len(s)
        BY <3>1, <3>3, ReleaseOf
    <3>5. \A k \in DOMAIN t : (k = 1 => t[k].date = d) /\ (k # 1 => t[k] = s[k - 1])
        BY <2>1, <3>1, <3>2, <3>3, <3>4
    <3> HIDE DEF t, new
    <3>6. \A k \in DOMAIN s : s[k].date < d
      <4>1. \A k \in DOMAIN s : s[k].date \in Released
          BY DEF Released, ToSet
      <4> QED
          BY <1>3, <4>1
    <3>7. ASSUME NEW i \in DOMAIN t, NEW j \in DOMAIN t, i < j
          PROVE  t[i].date > t[j].date
      <4>1. j # 1 /\ j - 1 \in DOMAIN s /\ t[j] = s[j - 1] /\ j - 1 \in Nat
          BY <2>1, <3>4, <3>5, <3>7
      <4>2. CASE i = 1
        <5>1. t[i].date = d /\ s[j - 1].date < d /\ s[j - 1].date \in Nat
            BY <2>1, <3>5, <3>6, <4>1, <4>2, ConstantFacts
        <5> QED
            BY <1>1, <4>1, <5>1
      <4>3. CASE i # 1
        <5>1. i - 1 \in DOMAIN s /\ t[i] = s[i - 1] /\ i - 1 < j - 1
            BY <2>1, <3>4, <3>5, <3>7, <4>3
        <5> QED
            BY <2>2, <4>1, <5>1
      <4> QED
          BY <4>2, <4>3
    <3>8. ASSUME NEW i \in DOMAIN s
          PROVE  \E j \in DOMAIN t : j >= i /\ t[j].date = s[i].date
      <4> DEFINE n == i + 1
      <4>1. n \in DOMAIN t /\ n >= i /\ n # 1 /\ n - 1 = i
          BY <2>1, <3>4
      <4> HIDE DEF n
      <4>2. t[n] = s[i]
          BY <3>5, <4>1
      <4> QED
          BY <4>1, <4>2
    <3> QED
        BY <3>7, <3>8 DEF t
  <2> QED
      BY <2>4, <2>5
<1> QED
    BY <1>5

LEMMA ListPublished ==
    ASSUME IInv, ListInv, budget.reissues = 0, NEW d \in Dates, Publish(d)
    PROVE  ListInv'
<1>1. UNCHANGED <<status, pc, job, others>>
    BY PublishStep DEF beside
<1>2. /\ \A y \in Years : \A i, j \in DOMAIN releases'[y] :
            i < j => releases'[y][i].date > releases'[y][j].date
      /\ \A y \in Years : \A i \in DOMAIN releases[y] :
            \E j \in DOMAIN releases'[y] : j >= i /\ releases'[y][j].date = releases[y][i].date
    BY NewestFirst
<1>3. job.known \subseteq Dates /\ Before \in Nat
  <2>1. TypeOK /\ job.page >= 1 /\ 0 \in {0} \cup Years
      BY DEF IInv, YearsInv
  <2> QED
      BY <2>1, Types, JobFields, PageFacts
<1>4. ASSUME NEW e \in job.known PROVE Listed(e)' /\ (Ahead(e) => Ahead(e)')
  <2>1. Year(e) \in Years
      BY <1>3, ConstantFacts
  <2>2. Listed(e)'
      BY <1>2, <2>1 DEF ListInv, Listed, Year
  <2>3. ASSUME Ahead(e) PROVE Ahead(e)'
    <3>1. PICK i \in DOMAIN releases[Year(e)] : releases[Year(e)][i].date = e /\ i > Before
        BY <2>3 DEF Ahead
    <3>2. PICK j \in DOMAIN releases'[Year(e)] : j >= i /\ releases'[Year(e)][j].date = e
        BY <1>2, <2>1, <3>1
    <3>3. i \in Nat /\ j \in Nat
      <4>1. TypeOK /\ TypeOK'
          BY PublishStep DEF IInv
      <4>2. \A y \in Years : releases[y] \in Seq(Release) /\ releases'[y] \in Seq(Release)
          BY <4>1 DEF TypeOK, Release
      <4>3. \A s \in Seq(Release) : DOMAIN s \subseteq Nat
          BY ReleaseOf
      <4> QED
          BY <2>1, <3>1, <3>2, <4>2, <4>3
    <3>4. j > Before
        BY <1>3, <3>1, <3>2, <3>3
    <3> QED
      <4>1. Before' = Before /\ Year(e)' = Year(e)
          BY <1>1 DEF Before, Year
      <4> QED
          BY <3>2, <3>4, <4>1 DEF Ahead
  <2> QED
      BY <2>2, <2>3
<1> QED
    BY <1>1, <1>2, <1>4 DEF ListInv, AllCandidatesFound, Candidate, Year

(* Nothing of the listing changes, or a date that was found is begun or    *)
(* ended.                                                                  *)
LEMMA ListKept ==
    ASSUME ListInv, UNCHANGED <<releases, pc>>,
           job'.found = job.found, job'.years = job.years, job'.page = job.page,
           job'.reimport = job.reimport, job'.known = job.known, job'.scanFrom = job.scanFrom,
           job'.clean = job.clean,
           others \subseteq others',
           \A d \in job.known : \/ job.found[d] # None \/ d \in others
                                \/ status'[d] = "succeeded" \/ status[d] # "succeeded"
    PROVE  ListInv'
<1>1. \A y \in Years : \A i, j \in DOMAIN releases'[y] :
          i < j => releases'[y][i].date > releases'[y][j].date
    BY DEF ListInv
<1>2. \A d \in job'.known : Listed(d)'
    BY DEF ListInv, Listed, Year
<1>3. \A d \in job.known : (Ahead(d)' <=> Ahead(d)) /\ (Candidate(d)' <=> Candidate(d))
    BY DEF Ahead, Before, Candidate, Year
<1>4. pc' = "list" /\ ~job'.reimport /\ job'.clean =>
          \A d \in job'.known :
              Candidate(d)' => job'.found[d] # None \/ status'[d] = "succeeded"
                                  \/ d \in others' \/ Ahead(d)'
    BY <1>3 DEF ListInv
<1>5. AllCandidatesFound'
    BY DEF ListInv, AllCandidatesFound, Year
<1> QED
    BY <1>1, <1>2, <1>4, <1>5 DEF ListInv

LEMMA ListNothing ==
    ASSUME ListInv, UNCHANGED releases, job'.known = {}
    PROVE  ListInv'
BY DEF ListInv, AllCandidatesFound

(* The listing of a year begins at its newest release. *)
LEMMA ListFirstPage ==
    ASSUME IInv', ListInv, UNCHANGED releases, pc' = "list", job'.page = 1,
           \A d \in job'.known : Listed(d)
    PROVE  ListInv'
<1>1. \A d \in job'.known : Listed(d)'
    BY DEF Listed, Year
<1>2. Before' = 0
    BY SchedulerConstants DEF Before
<1>3. job'.known \subseteq Dates /\ releases' \in [Years -> Seq(Release)]
    BY Types, JobFields DEF IInv, TypeOK, Release
<1>4. \A d \in job'.known : Ahead(d)'
  <2> SUFFICES ASSUME NEW d \in job'.known PROVE Ahead(d)'
      OBVIOUS
  <2>1. PICK i \in DOMAIN releases'[Year(d)] : releases'[Year(d)][i].date = d
      BY DEF Listed
  <2>2. releases'[Year(d)] \in Seq(Release)
      BY <1>3, ConstantFacts
  <2>3. i \in Nat /\ i > 0
      BY <2>1, <2>2, ReleaseOf
  <2> QED
      BY <1>2, <2>1, <2>3 DEF Ahead, Year
<1> QED
    BY <1>1, <1>4 DEF ListInv, AllCandidatesFound

LEMMA ListStarts ==
    ASSUME IInv, ListInv, NEW today \in Dates, StartScan(today)
    PROVE  ListInv'
<1>1. IInv' /\ pc' = "list" /\ job'.page = 1 /\ job'.known = Released /\ UNCHANGED releases
    BY StartScanStep
<1>2. ASSUME NEW d \in Released PROVE Listed(d)
  <2>1. PICK y \in Years : \E i \in DOMAIN releases[y] : releases[y][i].date = d
      BY DEF Released, ToSet
  <2>2. PICK i \in DOMAIN releases[y] : releases[y][i].date = d
      BY <2>1
  <2>3. Year(d) = y
      BY <2>2 DEF IInv, YearsInv
  <2> QED
      BY <2>2, <2>3 DEF Listed
<1> QED
    BY <1>1, <1>2, ListFirstPage

(* A scan reads a page of a sorted list down to the scan boundary.         *)
LEMMA ReadDown ==
    ASSUME IInv, ListInv, Head(job.years) \in Years
    PROVE  LET page == Page(Head(job.years), job.page)
           IN  \A k \in DOMAIN page : page[k].date > job.scanFrom => k \in ReadOf(page)
<1> DEFINE y == Head(job.years)
           page == Page(y, job.page)
<1>1. /\ TypeOK /\ job.page >= 1 /\ job.scanFrom \in Nat
    BY Types, JobFields DEF IInv, YearsInv
<1>2. /\ page \in Seq(Release) /\ Before \in Nat
      /\ \A i \in DOMAIN page : /\ Before + i \in DOMAIN releases[y]
                                /\ page[i] = releases[y][Before + i]
    BY <1>1, PageFacts
<1>3. DOMAIN page = 1..Len(page) /\ Len(page) \in Nat /\ \A k \in DOMAIN page : page[k].date \in Dates
    BY <1>2, ReleaseOf
<1>4. \A i, j \in DOMAIN releases[y] : i < j => releases[y][i].date > releases[y][j].date
    BY DEF ListInv
<1> HIDE DEF page
<1>5. SUFFICES ASSUME NEW k \in DOMAIN page, page[k].date > job.scanFrom
               PROVE  k \in ReadOf(page)
    BY DEF page
<1>6. ASSUME NEW j \in 1..k PROVE page[j].date > job.scanFrom
  <2>1. j \in DOMAIN page /\ (j = k \/ j < k) /\ j \in Nat /\ k \in Nat
      BY <1>3, <1>5
  <2>2. page[j].date \in Nat /\ page[k].date \in Nat
      BY <1>3, <1>5, <2>1, ConstantFacts
  <2>3. CASE j = k
      BY <1>5, <2>3
  <2>4. CASE j < k
    <3>1. Before + j < Before + k
        BY <1>2, <2>1, <2>4
    <3>2. page[j].date > page[k].date
      <4> DEFINE a == Before + j
                 b == Before + k
      <4>1. a \in DOMAIN releases[y] /\ b \in DOMAIN releases[y] /\ a < b
            /\ page[j] = releases[y][a] /\ page[k] = releases[y][b]
          BY <1>2, <2>1, <3>1
      <4> HIDE DEF a, b
      <4> QED
          BY <1>4, <4>1
    <3> QED
        BY <1>1, <1>5, <2>2, <3>2
  <2> QED
      BY <2>1, <2>3, <2>4
<1> QED
    BY <1>5, <1>6 DEF ReadOf

LEMMA ListListed ==
    ASSUME IInv, ListInv, ListPage
    PROVE  ListInv'
<1> DEFINE y == Head(job.years)
           page == Page(y, job.page)
<1>1. /\ IInv' /\ page \in Seq(Release)
      /\ job'.found = FoundAfter(page) /\ job'.years = job.years
      /\ job'.reimport = job.reimport /\ job'.known = job.known /\ job'.scanFrom = job.scanFrom
      /\ job'.clean = job.clean /\ UNCHANGED <<releases, status, others>>
      /\ \/ pc' = "work" /\ (ReadOf(page) # DOMAIN page \/ Len(page) < PageSize)
         \/ pc' = pc /\ job'.page = job.page + 1
    BY ListPageStep
<1>2. /\ pc = "list" /\ TypeOK /\ job.page >= 1 /\ job.known \subseteq Dates /\ job.scanFrom \in Nat
      /\ job.page \in Nat /\ PageSize \in Nat \ {0} /\ job.reimport \in BOOLEAN
    BY Types, JobFields, SchedulerConstants DEF ListPage, IInv, YearsInv
<1>3. ASSUME ~job.reimport, job.clean, NEW d \in job.known, Candidate(d)
      PROVE  \/ job'.found[d] # None \/ status[d] = "succeeded" \/ d \in others
             \/ pc' = "list" /\ Ahead(d)'
  <2>1. y = Year(d) /\ y \in Years /\ d > job.scanFrom /\ d \in Dates /\ d \in Nat
      BY <1>2, <1>3, ConstantFacts DEF Candidate
  <2>2. CASE job.found[d] # None \/ status[d] = "succeeded" \/ d \in others
      BY <1>1, <1>2, <2>1, <2>2, FoundOnPage
  <2>3. CASE Ahead(d)
    <3>1. PICK j \in DOMAIN releases[y] : releases[y][j].date = d /\ j > Before
        BY <2>1, <2>3 DEF Ahead
    <3>2. /\ Before \in Nat
          /\ \A i \in DOMAIN page : /\ Before + i \in DOMAIN releases[y]
                                    /\ page[i] = releases[y][Before + i]
          /\ \/ j - Before \in DOMAIN page
             \/ Len(page) = PageSize /\ \A i \in DOMAIN page : Before + i < j
        BY <1>2, <2>1, <3>1, PageFacts
    <3>3. /\ DOMAIN page = 1..Len(page) /\ Len(page) \in Nat
          /\ j \in Nat /\ \A k \in DOMAIN page : page[k].date \in Dates
      <4>1. releases[y] \in Seq(Release)
          BY <1>2, <2>1, ReleasesFacts
      <4> QED
          BY <1>1, <3>1, <4>1, ReleaseOf
    <3>4. \A k \in DOMAIN page : page[k].date > job.scanFrom => k \in ReadOf(page)
        BY <2>1, ReadDown
    <3> HIDE DEF page
    <3>5. CASE j - Before \in DOMAIN page
      <4> DEFINE k == j - Before
      <4>1. k \in DOMAIN page /\ Before + k = j
          BY <3>2, <3>3, <3>5
      <4> HIDE DEF k
      <4>2. page[k].date = d
          BY <3>1, <3>2, <4>1
      <4>3. k \in ReadOf(page)
          BY <2>1, <3>4, <4>1, <4>2
      <4> QED
          BY <1>1, <1>2, <2>1, <4>2, <4>3, FoundOnPage
    <3>6. CASE Len(page) = PageSize /\ \A i \in DOMAIN page : Before + i < j
      <4>1. ReadOf(page) = DOMAIN page
        <5>1. ReadOf(page) \subseteq DOMAIN page
            BY DEF ReadOf
        <5>2. ASSUME NEW k \in DOMAIN page PROVE k \in ReadOf(page)
          <6>1. releases[y][Before + k].date > releases[y][j].date
              BY <2>1, <3>1, <3>2, <3>6, <5>2 DEF ListInv
          <6>2. page[k].date > d /\ page[k].date \in Nat
              BY <3>1, <3>2, <3>3, <5>2, <6>1, ConstantFacts
          <6>3. page[k].date > job.scanFrom
              BY <1>2, <2>1, <6>2
          <6> QED
              BY <3>4, <5>2, <6>3
        <5> QED
            BY <5>1, <5>2
      <4>2. ~(Len(page) < PageSize)
          BY <1>2, <3>6
      <4>3. pc' = "list" /\ job'.page = job.page + 1
          BY <1>1, <1>2, <4>1, <4>2
      <4>4. j > Before + PageSize
        <5>1. PageSize \in DOMAIN page
            BY <1>2, <3>3, <3>6
        <5>2. Before + PageSize < j
            BY <3>6, <5>1
        <5> QED
            BY <1>2, <3>2, <3>3, <5>2
      <4>5. Before' = Before + PageSize
        <5> DEFINE k == job.page - 1
        <5>1. k \in Nat /\ job'.page - 1 = k + 1
            BY <1>2, <4>3
        <5>2. Before' = (k + 1) * PageSize
            BY <5>1 DEF Before
        <5>3. Before = k * PageSize
            BY DEF Before
        <5> HIDE DEF k
        <5>4. (k + 1) * PageSize = k * PageSize + PageSize
            BY <1>2, <5>1
        <5> QED
            BY <5>2, <5>3, <5>4
      <4>6. Ahead(d)'
          BY <1>1, <2>1, <3>1, <4>4, <4>5 DEF Ahead, Year
      <4> QED
          BY <4>3, <4>6
    <3> QED
        BY <3>2, <3>5, <3>6
  <2> QED
      BY <1>2, <1>3, <2>2, <2>3 DEF ListInv
<1>4. \A d \in job.known : Candidate(d)' <=> Candidate(d)
    BY <1>1 DEF Candidate, Year
<1>5. \A d \in job'.known : Listed(d)'
    BY <1>1 DEF ListInv, Listed, Year
<1>6. pc' = "list" /\ ~job'.reimport /\ job'.clean =>
          \A d \in job'.known :
              Candidate(d)' => job'.found[d] # None \/ status'[d] = "succeeded"
                                  \/ d \in others' \/ Ahead(d)'
    BY <1>1, <1>3, <1>4
<1>7. AllCandidatesFound'
  <2> SUFFICES ASSUME pc' = "work", ~job.reimport, job.clean, NEW d \in job.known,
                      Year(d) = y, d > job.scanFrom
               PROVE  job'.found[d] # None \/ status[d] = "succeeded" \/ d \in others
      BY <1>1 DEF AllCandidatesFound, Year
  <2>1. Candidate(d)
      BY DEF Candidate
  <2> QED
      BY <1>3, <2>1
<1> QED
    BY <1>1, <1>5, <1>6, <1>7 DEF ListInv

LEMMA ListFails ==
    ASSUME IInv, ListInv, ListPageFails
    PROVE  ListInv'
<1>1. ~job'.clean /\ job'.known = job.known /\ UNCHANGED releases
    BY ListPageFailsStep
<1>2. \A d \in job'.known : Listed(d)'
    BY <1>1 DEF ListInv, Listed, Year
<1> QED
    BY <1>1, <1>2 DEF ListInv, AllCandidatesFound

LEMMA ListWorks ==
    ASSUME IInv, ListInv, TakeFetched \/ BatchSucceeds \/ BatchFails
    PROVE  ListInv'
<1>1. job.known \subseteq Dates
    BY Types, JobFields DEF IInv
<1>2. CASE TakeFetched
  <2>1. job.found[fetch.date] # None /\ fetch.date \in Dates
    <3>1. fetch.step # "none"
        BY <1>2, TakeFetchedStep
    <3> QED
        BY <3>1, FetchFields, ConstantFacts
  <2> QED
      BY <1>1, <1>2, <2>1, TakeFetchedStep, ListKept
<1>3. CASE BatchSucceeds
    BY <1>1, <1>3, BatchSucceedsStep, ListKept
<1>4. CASE BatchFails
  <2>1. job.found[current] # None
      BY <1>4, ConstantFacts DEF BatchFails, IInv, QueueInv
  <2> QED
      BY <1>1, <1>4, <2>1, BatchFailsStep, ListKept
<1> QED
    BY <1>2, <1>3, <1>4

LEMMA ListEndQueue ==
    ASSUME IInv, ListInv, EndQueue
    PROVE  ListInv'
<1>1. /\ IInv' /\ UNCHANGED releases
      /\ \/ pc' = "idle" /\ job' = NoJob
         \/ pc' = "list" /\ job'.page = 1 /\ job'.known = job.known
    BY EndQueueStep
<1>2. CASE job' = NoJob
    BY <1>1, <1>2, ListNothing DEF NoJob
<1>3. CASE pc' = "list" /\ job'.page = 1 /\ job'.known = job.known
  <2>1. \A d \in job'.known : Listed(d)
      BY <1>3 DEF ListInv
  <2> QED
      BY <1>1, <1>3, <2>1, ListFirstPage
<1> QED
    BY <1>1, <1>2, <1>3

LEMMA NextList ==
    ASSUME MaxReissues = 0
    PROVE  IInv /\ ListInv /\ [Next]_vars => ListInv'
<1> SUFFICES ASSUME IInv, ListInv, [Next]_vars PROVE ListInv'
    OBVIOUS
<1>1. CASE \E d \in Dates : Publish(d)
  <2>1. budget.reissues \in 0..0
      BY Types DEF IInv, BudgetType
  <2>2. budget.reissues = 0
      BY <2>1
  <2> QED
      BY <1>1, <2>2, ListPublished
<1>2. CASE \E today \in Dates : StartScan(today)
    BY <1>2, ListStarts
<1>3. CASE ListPage
    BY <1>3, ListListed
<1>4. CASE Fetching
    BY <1>4, FetchStepStep, ListKept DEF Fetching
<1>5. CASE TakeFetched \/ BatchSucceeds \/ BatchFails
    BY <1>5, ListWorks
<1>6. CASE EndQueue
    BY <1>6, ListEndQueue
<1>7. CASE \E dates \in SUBSET Dates : StartReimport(dates)
    BY <1>7, StartReimportStep, ListNothing
<1>8. CASE ListPageFails
    BY <1>8, ListFails
<1>9. CASE Crash
  <2>1. NoJob.known = {}
      BY DEF NoJob
  <2> QED
      BY <1>9, <2>1, CrashStep, ListNothing
<1>10. CASE Beginning
    BY <1>10, OtherBeginsStep, ListKept DEF Beginning
<1>11. CASE OtherTakes \/ OtherSucceeds \/ OtherFails \/ OtherDies
  <2>1. /\ UNCHANGED <<releases, pc, job, others>>
        /\ \A d \in Dates : status'[d] = status[d] \/ d \in others
      BY <1>11, OtherTakesStep, OtherSucceedsStep, OtherFailsStep, OtherDiesStep
  <2>2. job.known \subseteq Dates
      BY Types, JobFields DEF IInv
  <2> QED
      BY <2>1, <2>2, ListKept
<1>12. CASE UNCHANGED vars
    BY <1>12, ListKept DEF vars, beside
<1> QED
    BY <1>1, <1>2, <1>3, <1>4, <1>5, <1>6, <1>7, <1>8, <1>9, <1>10, <1>11, <1>12
       DEF Next, ImportStep, OtherStep, Fetching, Beginning

(* A scan finds every date above its boundary that had been released when  *)
(* it began, on pages of any length and with releases that appear between  *)
(* two requests, as long as no date is released again: that a reissue      *)
(* hides the dates below it is what MCScheduler_reissue.cfg shows.         *)
THEOREM CandidatesFound ==
    ASSUME MaxReissues = 0
    PROVE  Spec => []AllCandidatesFound
<1>1. Init => IInv /\ ListInv
    BY InitIInv, InitList
<1>2. (IInv /\ ListInv) /\ [Next]_vars => (IInv /\ ListInv)'
    BY NextIInv, NextList
<1>3. ListInv => AllCandidatesFound
    BY DEF ListInv
<1> QED
    BY <1>1, <1>2, <1>3, PTL DEF Spec

=============================================================================
