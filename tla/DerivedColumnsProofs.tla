------------------------ MODULE DerivedColumnsProofs ------------------------
(***************************************************************************)
(* What DerivedColumns and Terrain promise, for all flights, tiles and     *)
(* airports, and however the jobs overlap, fail and are killed.            *)
(***************************************************************************)
EXTENDS DerivedColumns, FiniteSetTheorems, WellFoundedInduction, TLAPS

-----------------------------------------------------------------------------
(* The elevation tiles.                                                    *)

(* What each part of the downloader holds is what its tiles on disk show:  *)
(* those it has not got to are absent, the one it writes is partial, and   *)
(* what is absent while it runs has yet to be asked for or has failed.     *)
TileInv ==
    /\ tiles \in [Tiles -> {"absent", "partial", "whole", "marker"}]
    /\ download \in [pc : {"idle", "running", "ended"}, waiting : SUBSET Tiles, fetching : SUBSET Tiles,
                     saving : SUBSET Tiles, errors : SUBSET Tiles, attempt : Nat]
    /\ torn \subseteq Tiles
    /\ \A t \in Tiles :
          /\ tiles[t] = "marker" => t \notin OnLand
          /\ tiles[t] = "whole" => t \in OnLand
          /\ tiles[t] = "partial" => t \in download.saving \cup torn
          /\ t \in download.saving => tiles[t] = "partial" /\ t \in OnLand
          /\ t \in download.waiting \cup download.fetching => tiles[t] = "absent"
          /\ download.pc # "idle" /\ tiles[t] = "absent" =>
                t \in download.waiting \cup download.fetching \cup download.errors
    /\ download.waiting \cap download.fetching = {}
    /\ \A s, t \in download.saving : s = t
    /\ download.pc # "running" => download.waiting \cup download.fetching \cup download.saving = {}

(* A step of the downloader, whatever it is charged to. *)
TerrainStep ==
    \/ StartDownload \/ EndAttempt \/ KillDownload
    \/ \E t \in Tiles : Request(t) \/ NotFound(t) \/ BeginSave(t) \/ EndSave(t) \/ RequestFails(t) \/ SaveFails(t)

(* Every step of the jobs is a step of the downloader or leaves it alone.  *)
LEMMA StepsOfTerrain == Next => TerrainStep \/ UNCHANGED terrainVars
<1>1. DownloadStep => TerrainStep
  BY DEF DownloadStep, Downloading, TerrainStep
<1>2. ASSUME NEW p, StartImport(p) PROVE UNCHANGED terrainVars
  BY <1>2 DEF StartImport
<1>3. ASSUME NEW file, UpsertWaypoints(file) \/ FileFails(file) PROVE UNCHANGED terrainVars
  BY <1>3 DEF UpsertWaypoints, FileFails
<1>4. StartBatch \/ EndBatch => UNCHANGED terrainVars
  BY DEF StartBatch, EndBatch
<1>5. ASSUME NEW k, NEW r, UpsertFlight(k, r) PROVE UNCHANGED terrainVars
  BY <1>5 DEF UpsertFlight
<1>6. StartHeights \/ ReadForHeights \/ FlushHeights \/ EndHeights => UNCHANGED terrainVars
  BY DEF StartHeights, ReadForHeights, FlushHeights, EndHeights
<1>7. ASSUME NEW f, ComputeHeights(f) \/ ComputeFails(f) PROVE UNCHANGED terrainVars
  BY <1>7 DEF ComputeHeights, ComputeFails
<1>8. StartIdents \/ ReadForIdents \/ FlushIdents \/ EndIdents => UNCHANGED terrainVars
  BY DEF StartIdents, ReadForIdents, FlushIdents, EndIdents
<1>9. StartLengths \/ MeasureDay \/ Kill => UNCHANGED terrainVars
  BY DEF StartLengths, MeasureDay, Kill
<1>10. QED
  BY <1>1, <1>2, <1>3, <1>4, <1>5, <1>6, <1>7, <1>8, <1>9 DEF Next

(* TileInv is an invariant of the downloader. *)
LEMMA TileInvStep == TileInv /\ (TerrainStep \/ UNCHANGED terrainVars) => TileInv'
<1> SUFFICES ASSUME TileInv, TerrainStep \/ UNCHANGED terrainVars PROVE TileInv'
  OBVIOUS
<1> USE TerrainConstants
<1>1. CASE UNCHANGED terrainVars
  BY <1>1 DEF TileInv, terrainVars
<1>2. CASE StartDownload
  <2>1. download' = [pc |-> "running", waiting |-> {t \in Tiles : tiles[t] = "absent"},
                     fetching |-> {}, saving |-> {}, errors |-> {}, attempt |-> 0]
    BY <1>2 DEF StartDownload, Attempt
  <2>2. QED
    BY <1>2, <2>1 DEF StartDownload, TileInv
<1>3. CASE EndAttempt
  <2>1. CASE download.errors # {} /\ download.attempt < MaxRetries
    <3>1. download' = [pc |-> "running", waiting |-> {t \in download.errors : tiles[t] = "absent"},
                       fetching |-> {}, saving |-> {}, errors |-> {}, attempt |-> download.attempt + 1]
      BY <1>3, <2>1 DEF EndAttempt, Attempt
    <3>2. QED
      BY <1>3, <3>1 DEF EndAttempt, TileInv
  <2>2. CASE ~(download.errors # {} /\ download.attempt < MaxRetries)
    BY <1>3, <2>2 DEF EndAttempt, TileInv
  <2>3. QED
    BY <2>1, <2>2
<1>4. CASE KillDownload
  BY <1>4 DEF KillDownload, NoDownload, TileInv
<1>5. ASSUME NEW t \in Tiles, Request(t) PROVE TileInv'
  BY <1>5 DEF Request, Busy, TileInv
<1>6. ASSUME NEW t \in Tiles, NotFound(t) PROVE TileInv'
  BY <1>6 DEF NotFound, Missing, Busy, TileInv
<1>7. ASSUME NEW t \in Tiles, RequestFails(t) PROVE TileInv'
  <2>1. download' = [pc |-> download.pc, waiting |-> download.waiting, fetching |-> download.fetching \ {t},
                     saving |-> download.saving, errors |-> download.errors \cup {t}, attempt |-> download.attempt]
    BY <1>7 DEF RequestFails, TileInv
  <2>2. QED
    BY <1>7, <2>1 DEF RequestFails, Busy, TileInv
<1>8. ASSUME NEW t \in Tiles, BeginSave(t) PROVE TileInv'
  <2>1. download' = [pc |-> download.pc, waiting |-> download.waiting, fetching |-> download.fetching \ {t},
                     saving |-> {t}, errors |-> download.errors, attempt |-> download.attempt]
    BY <1>8 DEF BeginSave, TileInv
  <2>2. QED
    BY <1>8, <2>1 DEF BeginSave, Busy, TileInv
<1>9. ASSUME NEW t \in Tiles, EndSave(t) PROVE TileInv'
  BY <1>9 DEF EndSave, TileInv
<1>10. ASSUME NEW t \in Tiles, SaveFails(t) PROVE TileInv'
  <2>1. download' = [pc |-> download.pc, waiting |-> download.waiting, fetching |-> download.fetching, saving |-> {},
                     errors |-> download.errors \cup {t}, attempt |-> download.attempt]
    BY <1>10 DEF SaveFails, TileInv
  <2>2. QED
    BY <1>10, <2>1 DEF SaveFails, Busy, TileInv
<1>11. QED
  BY <1>1, <1>2, <1>3, <1>4, <1>5, <1>6, <1>7, <1>8, <1>9, <1>10 DEF TerrainStep

(* TileInv holds in every state. *)
LEMMA TileInvHolds == Spec => []TileInv
<1>1. Init => TileInv
  BY TerrainConstants DEF Init, TerrainInit, NoDownload, TileInv
<1>2. TileInv /\ [Next]_vars => TileInv'
  BY StepsOfTerrain, TileInvStep DEF vars
<1>3. QED
  BY <1>1, <1>2, PTL DEF Spec

(* The downloader leaves every tile that the bucket has whole on disk, or  *)
(* says that it failed, or was killed while it wrote it                    *)
(* (dem_downloader.py lines 99-152).                                       *)
THEOREM DownloadsComplete == Spec => []TilesComplete
<1>1. TileInv => TilesComplete
  BY TerrainConstants DEF TileInv, TilesComplete
<1>2. QED
  BY <1>1, TileInvHolds, PTL

-----------------------------------------------------------------------------
(* TD-TR. *)

(* What holds of 0 and with each number of the next holds of all.          *)
LEMMA SetInduction ==
    ASSUME NEW S, 0 \in S, \A n \in Nat : n \in S => n + 1 \in S
    PROVE  Nat \subseteq S
<1> SUFFICES ASSUME Nat \ S # {} PROVE FALSE
    OBVIOUS
<1> DEFINE less == {e \in Nat \X Nat : e[1] < e[2]}
           T == Nat \ S
<1>1. IsWellFoundedOn(less, Nat)
    BY NatLessThanWellFounded DEF OpToRel
<1>2. \E x \in T : \A y \in T : ~(<<y, x>> \in less)
  <2> HIDE DEF less
  <2> QED
      BY <1>1, WFMin
<1>3. PICK m \in T : \A y \in T : ~(<<y, m>> \in less)
    BY <1>2
<1>4. \A y \in T : y \in Nat /\ m \in Nat /\ ~(y < m)
    BY <1>3
<1>5. m # 0 /\ m - 1 \in Nat /\ m - 1 < m
    BY <1>3
<1>6. m - 1 \in S
    BY <1>4, <1>5
<1> QED
    BY <1>3, <1>5, <1>6

(* What is multiplied by the same duration keeps its order. *)
LEMMA Times ==
    ASSUME NEW x \in Int, NEW y \in Int, NEW t \in Nat \ {0}
    PROVE  /\ x <= y <=> x * t <= y * t
           /\ x < y <=> x * t < y * t
<1>1. ASSUME x < y PROVE x * t < y * t
  BY <1>1, Z3
<1>2. ASSUME y < x PROVE y * t < x * t
  BY <1>2, Z3
<1>3. x * t \in Int /\ y * t \in Int
  OBVIOUS
<1> QED
  BY <1>1, <1>2, <1>3

(* To be further off for its tolerance is transitive, whatever the         *)
(* tolerances.                                                             *)
LEMMA FurtherStill ==
    ASSUME NEW dp \in Int, NEW dq \in Int, NEW dc \in Int,
           NEW tp \in Nat \ {0}, NEW tq \in Nat \ {0}, NEW tc \in Nat \ {0},
           dq * tp <= dp * tq, dp * tc < dc * tp
    PROVE  dq * tc < dc * tq
<1>1. (dq * tp) * tc <= (dp * tq) * tc
  <2>1. dq * tp \in Int /\ dp * tq \in Int OBVIOUS
  <2> QED BY <2>1, Times
<1>2. (dp * tc) * tq < (dc * tp) * tq
  <2>1. dp * tc \in Int /\ dc * tp \in Int OBVIOUS
  <2> QED BY <2>1, Times
<1>3. (dq * tp) * tc = (dq * tc) * tp BY Z3
<1>4. (dp * tq) * tc = (dp * tc) * tq BY Z3
<1>5. (dc * tp) * tq = (dc * tq) * tp BY Z3
<1>6. dq * tc \in Int /\ dc * tq \in Int OBVIOUS
<1>7. (dq * tc) * tp \in Int /\ (dc * tq) * tp \in Int /\ (dp * tc) * tq \in Int BY <1>6
<1>8. (dq * tc) * tp < (dc * tq) * tp BY <1>1, <1>2, <1>3, <1>4, <1>5, <1>7
<1> QED BY <1>6, <1>8, Times

(* Of the samples of a span, one is the furthest off, and the first of     *)
(* these.                                                                  *)
LEMMA FurthestBetween ==
    ASSUME NEW a \in Nat, NEW b \in Nat, NEW dev, NEW tol, Between(a, b) # {},
           \A p \in Between(a, b) : dev[<<p, a, b>>] \in Int /\ tol[p] \in Nat \ {0}
    PROVE  Furthest(dev, tol, a, b) \in Between(a, b)
<1> DEFINE d(p) == dev[<<p, a, b>>]
           Beats(p, q) == /\ d(q) * tol[p] <= d(p) * tol[q]
                          /\ q < p => d(q) * tol[p] < d(p) * tol[q]
           A == {k \in Nat : a + 1 + k < b =>
                       \E p \in (a + 1)..(a + 1 + k) : \A q \in (a + 1)..(a + 1 + k) : Beats(p, q)}
<1>1. 0 \in A
  <2>1. ASSUME a + 1 < b PROVE Beats(a + 1, a + 1)
    <3>1. a + 1 \in Between(a, b) BY <2>1 DEF Between
    <3>2. d(a + 1) * tol[a + 1] \in Int BY <3>1
    <3> QED BY <3>2
  <2>2. (a + 1)..(a + 1 + 0) = {a + 1} OBVIOUS
  <2> HIDE DEF Beats
  <2> QED BY <2>1, <2>2
<1>2. ASSUME NEW k \in Nat, k \in A PROVE k + 1 \in A
  <2>1. SUFFICES ASSUME a + 1 + (k + 1) < b
                 PROVE  \E p \in (a + 1)..(a + 1 + (k + 1)) :
                            \A q \in (a + 1)..(a + 1 + (k + 1)) : Beats(p, q)
    OBVIOUS
  <2> DEFINE c == a + 1 + (k + 1)
  <2>2. PICK p \in (a + 1)..(a + 1 + k) : \A q \in (a + 1)..(a + 1 + k) : Beats(p, q)
    <3>1. a + 1 + k < b BY <2>1
    <3> HIDE DEF Beats
    <3> QED BY <1>2, <3>1
  <2>3. (a + 1)..c = ((a + 1)..(a + 1 + k)) \cup {c} BY ONLY k \in Nat, a \in Nat
  <2>4. \A q \in (a + 1)..c : d(q) \in Int /\ tol[q] \in Nat \ {0}
    <3> HIDE DEF A, Beats
    <3> TAKE q \in (a + 1)..c
    <3>1. q \in Int /\ a < q /\ q < b BY ONLY <2>1, q \in (a + 1)..c, k \in Nat, a \in Nat, b \in Nat
    <3>2. q \in Between(a, b) BY <3>1 DEF Between
    <3> HIDE DEF c
    <3> QED BY <3>2
  <2>5. CASE d(p) * tol[c] < d(c) * tol[p]
    <3>1. ASSUME NEW q \in (a + 1)..(a + 1 + k) PROVE Beats(c, q)
      <4>1. d(q) * tol[p] <= d(p) * tol[q] BY <2>2
      <4>2. d(q) * tol[c] < d(c) * tol[q]
        <5> HIDE DEF d, c
        <5> QED BY <2>3, <2>4, <2>5, <4>1, FurtherStill
      <4> QED BY <4>2, <2>3, <2>4
    <3>2. Beats(c, c)
      BY <2>3, <2>4
    <3> HIDE DEF Beats
    <3> QED BY <2>3, <3>1, <3>2
  <2>6. CASE ~(d(p) * tol[c] < d(c) * tol[p])
    <3>1. d(p) * tol[c] \in Int /\ d(c) * tol[p] \in Int BY <2>3, <2>4
    <3>2. Beats(p, c) BY <2>6, <3>1
    <3> HIDE DEF Beats
    <3> QED BY <2>2, <2>3, <3>2
  <2> QED BY <2>5, <2>6
<1> DEFINE m == b - a - 2
<1>3. m \in Nat /\ a + 1 + m < b /\ Between(a, b) = (a + 1)..(a + 1 + m) BY DEF Between
<1> HIDE DEF A, m
<1>4. Nat \subseteq A BY <1>1, <1>2, SetInduction
<1>5. m \in A BY <1>3, <1>4
<1>6. \E p \in Between(a, b) : \A q \in Between(a, b) : Beats(p, q)
  <2> HIDE DEF Beats
  <2> QED BY <1>3, <1>5 DEF A
<1> QED BY <1>6 DEF Furthest

(* The middle of a span leaves out nothing that is too far off. *)
Fits(s, dev, tol, a, b) == \A q \in Between(a, b) : dev[<<q, a, b>>] <= tol[q] * Span(s, a, b)

(* What is kept of a span, by what is kept of smaller ones. *)
Reduced(g, s, dev, tol, a, b) ==
    IF Fits(s, dev, tol, a, b) THEN {}
    ELSE {Furthest(dev, tol, a, b)} \cup g[<<a, Furthest(dev, tol, a, b)>>]
                                   \cup g[<<Furthest(dev, tol, a, b), b>>]

Reduces(g, s, dev, tol, first, last) ==
    g = [span \in (first..last) \X (first..last) |-> Reduced(g, s, dev, tol, span[1], span[2])]

(* Deviations are numbers between the ends of a span, and tolerances       *)
(* positive.                                                               *)
Measured(n, dev, tol) ==
    /\ \A a, b \in 1..n : \A p \in Between(a, b) : dev[<<p, a, b>>] \in Int
    /\ \A p \in 1..n : tol[p] \in Nat \ {0}

(* A span that leaves out too much is split between its ends. *)
LEMMA SplitsBetween ==
    ASSUME NEW n \in Nat, NEW s, NEW dev, NEW tol, Measured(n, dev, tol),
           NEW a \in 1..n, NEW b \in 1..n, ~Fits(s, dev, tol, a, b)
    PROVE  /\ Furthest(dev, tol, a, b) \in Int
           /\ a < Furthest(dev, tol, a, b) /\ Furthest(dev, tol, a, b) < b
<1>1. Between(a, b) # {} BY DEF Fits
<1>2. Between(a, b) \subseteq 1..n BY DEF Between
<1>3. Furthest(dev, tol, a, b) \in Between(a, b) BY <1>1, <1>2, FurthestBetween DEF Measured
<1> QED BY <1>3 DEF Between

(* The spans are worked off from the shortest to the longest, so that what *)
(* TD-TR keeps of each of them is defined,                                 *)
LEMMA ReductionExists ==
    ASSUME NEW n \in Nat, NEW s, NEW dev, NEW tol, Measured(n, dev, tol),
           NEW first \in 1..n, NEW last \in first..n
    PROVE  \E g : Reduces(g, s, dev, tol, first, last)
<1> DEFINE I == first..last
           Far(a, b) == Furthest(dev, tol, a, b)
           A == {k \in Nat : \E g : \A a, b \in I : b - a <= k => g[<<a, b>>] = Reduced(g, s, dev, tol, a, b)}
<1>0. I \subseteq 1..n OBVIOUS
<1>1. 0 \in A
  <2> DEFINE g == [span \in I \X I |-> {}]
  <2>1. ASSUME NEW a \in I, NEW b \in I, b - a <= 0 PROVE g[<<a, b>>] = Reduced(g, s, dev, tol, a, b)
    <3>1. Between(a, b) = {} BY <2>1 DEF Between
    <3>2. Fits(s, dev, tol, a, b) BY <3>1 DEF Fits
    <3> QED BY <3>2 DEF Reduced
  <2> HIDE DEF g
  <2> QED BY <2>1
<1>2. ASSUME NEW k \in Nat, k \in A PROVE k + 1 \in A
  <2>1. PICK g : \A a, b \in I : b - a <= k => g[<<a, b>>] = Reduced(g, s, dev, tol, a, b) BY <1>2
  <2> DEFINE h == [span \in I \X I |-> Reduced(g, s, dev, tol, span[1], span[2])]
  <2>2. ASSUME NEW a \in I, NEW b \in I PROVE h[<<a, b>>] = Reduced(g, s, dev, tol, a, b)
    OBVIOUS
  <2> HIDE DEF h
  <2>3. ASSUME NEW a \in I, NEW b \in I, b - a <= k PROVE h[<<a, b>>] = g[<<a, b>>]
    BY <2>1, <2>2, <2>3
  <2>4. ASSUME NEW a \in I, NEW b \in I, b - a <= k + 1
        PROVE  h[<<a, b>>] = Reduced(h, s, dev, tol, a, b)
    <3>1. CASE Fits(s, dev, tol, a, b) BY <2>2, <3>1 DEF Reduced
    <3>2. CASE ~Fits(s, dev, tol, a, b)
      <4> DEFINE p == Far(a, b)
      <4>1. p \in Int /\ a < p /\ p < b BY <1>0, <3>2, SplitsBetween
      <4>2. p \in I /\ p - a <= k /\ b - p <= k BY <4>1, <2>4
      <4>3. h[<<a, p>>] = g[<<a, p>>] /\ h[<<p, b>>] = g[<<p, b>>]
        <5> HIDE DEF p
        <5> QED BY <2>3, <4>2
      <4>4. Reduced(h, s, dev, tol, a, b) = Reduced(g, s, dev, tol, a, b)
        BY <4>3, <3>2 DEF Reduced
      <4> QED BY <2>2, <4>4
    <3> QED BY <3>1, <3>2
  <2> QED BY <2>4
<1> HIDE DEF A
<1>3. Nat \subseteq A BY <1>1, <1>2, SetInduction
<1>4. PICK g : \A a, b \in I : b - a <= last - first => g[<<a, b>>] = Reduced(g, s, dev, tol, a, b)
  <2>1. last - first \in Nat OBVIOUS
  <2> QED BY <1>3, <2>1 DEF A
<1>5. ASSUME NEW a \in I, NEW b \in I PROVE g[<<a, b>>] = Reduced(g, s, dev, tol, a, b)
  <2>1. b - a <= last - first OBVIOUS
  <2> QED BY <1>4, <2>1
<1> DEFINE h == [span \in I \X I |-> g[span]]
<1>6. \A a, b \in I : h[<<a, b>>] = g[<<a, b>>]
  OBVIOUS
<1>7. ASSUME NEW a \in I, NEW b \in I PROVE Reduced(h, s, dev, tol, a, b) = Reduced(g, s, dev, tol, a, b)
  <2>1. CASE Fits(s, dev, tol, a, b) BY <2>1 DEF Reduced
  <2>2. CASE ~Fits(s, dev, tol, a, b)
    <3> DEFINE p == Far(a, b)
    <3>1. p \in Int /\ a < p /\ p < b BY <1>0, <2>2, SplitsBetween
    <3>2. p \in I BY <3>1
    <3>3. h[<<a, p>>] = g[<<a, p>>] /\ h[<<p, b>>] = g[<<p, b>>]
      <4> HIDE DEF p, h
      <4> QED BY <1>6, <3>2
    <3> HIDE DEF h
    <3> QED BY <3>3, <2>2 DEF Reduced
  <2> QED BY <2>1, <2>2
<1>8. h = [span \in I \X I |-> Reduced(h, s, dev, tol, span[1], span[2])]
  <2>1. \A span \in I \X I : span[1] \in I /\ span[2] \in I /\ span = <<span[1], span[2]>> OBVIOUS
  <2>2. \A span \in I \X I : g[span] = Reduced(h, s, dev, tol, span[1], span[2])
    <3> HIDE DEF h, I
    <3> QED BY <2>1, <1>5, <1>7
  <2> QED BY <2>2
<1> HIDE DEF h
<1> QED BY <1>8 DEF Reduces

(* and is what the definition of TdTr says. *)
LEMMA TdTrReduces ==
    ASSUME NEW n \in Nat, NEW s, NEW dev, NEW tol, Measured(n, dev, tol),
           NEW first \in 1..n, NEW last \in first..n
    PROVE  \E g : /\ TdTr(s, dev, tol, first, last) = g[<<first, last>>]
                  /\ \A a, b \in first..last : g[<<a, b>>] = Reduced(g, s, dev, tol, a, b)
<1> DEFINE it == CHOOSE g : Reduces(g, s, dev, tol, first, last)
<1>1. Reduces(it, s, dev, tol, first, last) BY ReductionExists
<1>2. TdTr(s, dev, tol, first, last) = it[<<first, last>>]
  BY DEF TdTr, Reduces, Reduced, Fits
<1>3. \A a, b \in first..last : it[<<a, b>>] = Reduced(it, s, dev, tol, a, b)
  <2> HIDE DEF it
  <2>1. \A a, b \in first..last : <<a, b>> \in (first..last) \X (first..last) OBVIOUS
  <2> QED BY <1>1, <2>1 DEF Reduces
<1> QED BY <1>2, <1>3

(* A set of samples between a and b that leaves out nothing that is too    *)
(* far off the line between its neighbours.                                *)
Covers(K, s, dev, tol, a, b) ==
    /\ K \subseteq Between(a, b)
    /\ \A p \in Between(a, b) \ K : \A x, y \in K \cup {a, b} :
          x < p /\ p < y /\ (\A z \in K : ~(x < z /\ z < y))
             => dev[<<p, x, y>>] <= tol[p] * Span(s, x, y)

(* What covers both halves of a span covers the span with the sample in the*)
(* middle.                                                                 *)
LEMMA HalvesCover ==
    ASSUME NEW s, NEW dev, NEW tol, NEW a \in Int, NEW b \in Int, NEW m \in Int, a < m, m < b,
           NEW K1, NEW K2, Covers(K1, s, dev, tol, a, m), Covers(K2, s, dev, tol, m, b)
    PROVE  Covers({m} \cup K1 \cup K2, s, dev, tol, a, b)
<1> DEFINE K == {m} \cup K1 \cup K2
<1>1. K1 \subseteq Between(a, m) /\ K2 \subseteq Between(m, b) BY DEF Covers
<1>2. K \subseteq Between(a, b) BY <1>1 DEF Between
<1>3. ASSUME NEW p \in Between(a, b) \ K, NEW x \in K \cup {a, b}, NEW y \in K \cup {a, b},
             x < p, p < y, \A z \in K : ~(x < z /\ z < y)
      PROVE  dev[<<p, x, y>>] <= tol[p] * Span(s, x, y)
  <2>1. /\ p \in Int /\ x \in Int /\ y \in Int /\ p # m
        /\ \A z \in K1 : z \in Int /\ a < z /\ z < m
        /\ \A z \in K2 : z \in Int /\ m < z /\ z < b
    BY <1>1, <1>2 DEF Between
  <2>2. ~(x < m /\ m < y) BY <1>3
  <2>3. CASE p < m
    <3>1. x \in K1 \cup {a, m} /\ y \in K1 \cup {a, m} BY <1>3, <2>1, <2>2, <2>3
    <3>2. p \in Between(a, m) \ K1 BY <2>1, <2>3 DEF Between
    <3>3. \A z \in K1 : ~(x < z /\ z < y) BY <1>3
    <3> HIDE DEF K
    <3> QED BY <1>3, <3>1, <3>2, <3>3 DEF Covers
  <2>4. CASE m < p
    <3>1. x \in K2 \cup {m, b} /\ y \in K2 \cup {m, b} BY <1>3, <2>1, <2>2, <2>4
    <3>2. p \in Between(m, b) \ K2 BY <2>1, <2>4 DEF Between
    <3>3. \A z \in K2 : ~(x < z /\ z < y) BY <1>3
    <3> HIDE DEF K
    <3> QED BY <1>3, <3>1, <3>2, <3>3 DEF Covers
  <2> QED BY <2>1, <2>3, <2>4
<1> HIDE DEF K
<1>4. Covers(K, s, dev, tol, a, b) BY <1>2, <1>3 DEF Covers
<1> QED BY <1>4 DEF K

(* TD-TR covers its span. *)
LEMMA TdTrCovers ==
    ASSUME NEW n \in Nat, NEW s, NEW dev, NEW tol, Measured(n, dev, tol),
           NEW first \in 1..n, NEW last \in first..n
    PROVE  Covers(TdTr(s, dev, tol, first, last), s, dev, tol, first, last)
<1> DEFINE I == first..last
<1>1. PICK g : /\ TdTr(s, dev, tol, first, last) = g[<<first, last>>]
               /\ \A a, b \in I : g[<<a, b>>] = Reduced(g, s, dev, tol, a, b)
  BY TdTrReduces
<1> DEFINE A == {k \in Nat : \A a, b \in I : b - a <= k => Covers(g[<<a, b>>], s, dev, tol, a, b)}
<1>2. ASSUME NEW a \in I, NEW b \in I, Fits(s, dev, tol, a, b) PROVE Covers(g[<<a, b>>], s, dev, tol, a, b)
  <2>1. g[<<a, b>>] = {} BY <1>1, <1>2 DEF Reduced
  <2>2. \A p \in Between(a, b), x, y \in {a, b} : x < p /\ p < y => x = a /\ y = b BY DEF Between
  <2> QED BY <1>2, <2>1, <2>2 DEF Covers, Fits
<1>3. 0 \in A
  <2>1. ASSUME NEW a \in I, NEW b \in I, b - a <= 0 PROVE Fits(s, dev, tol, a, b)
    <3>1. Between(a, b) = {} BY <2>1 DEF Between
    <3> QED BY <3>1 DEF Fits
  <2> QED BY <1>2, <2>1
<1>4. ASSUME NEW k \in Nat, k \in A PROVE k + 1 \in A
  <2>1. ASSUME NEW a \in I, NEW b \in I, b - a <= k + 1, ~Fits(s, dev, tol, a, b)
        PROVE  Covers(g[<<a, b>>], s, dev, tol, a, b)
    <3> DEFINE m == Furthest(dev, tol, a, b)
    <3>0. a \in 1..n /\ b \in 1..n OBVIOUS
    <3>1. m \in Int /\ a < m /\ m < b BY <3>0, <2>1, SplitsBetween
    <3>2. m \in I /\ m - a <= k /\ b - m <= k BY <3>1, <2>1
    <3>3. g[<<a, b>>] = {m} \cup g[<<a, m>>] \cup g[<<m, b>>] BY <1>1, <2>1 DEF Reduced
    <3> HIDE DEF m
    <3>4. Covers(g[<<a, m>>], s, dev, tol, a, m) /\ Covers(g[<<m, b>>], s, dev, tol, m, b)
      BY <1>4, <3>2
    <3> QED BY <3>1, <3>3, <3>4, HalvesCover
  <2> QED BY <1>2, <2>1
<1> HIDE DEF A
<1>5. Nat \subseteq A BY <1>3, <1>4, SetInduction
<1>6. last - first \in Nat /\ first \in I /\ last \in I OBVIOUS
<1> QED BY <1>1, <1>5, <1>6 DEF A

(* The neighbours of a sample among those that are kept. *)
LEMMA KeptBefore ==
    ASSUME NEW K \in SUBSET Nat, NEW c \in K, NEW p \in Nat, c <= p
    PROVE  \E a \in K : a \in LastBefore(K, p)
<1> DEFINE A == {k \in Nat : \E a \in K : a \in LastBefore(K, c + k)}
<1>1. 0 \in A BY DEF LastBefore
<1>2. ASSUME NEW k \in Nat, k \in A PROVE k + 1 \in A
  <2>1. CASE c + (k + 1) \in K BY <2>1 DEF LastBefore
  <2>2. CASE c + (k + 1) \notin K
    <3>1. PICK a \in K : a \in LastBefore(K, c + k) BY <1>2
    <3>2. \A e \in K : e <= c + (k + 1) => e <= c + k BY <2>2
    <3>3. a \in LastBefore(K, c + (k + 1)) BY <3>1, <3>2 DEF LastBefore
    <3> QED BY <3>3
  <2> QED BY <2>1, <2>2
<1> HIDE DEF A
<1>3. Nat \subseteq A BY <1>1, <1>2, SetInduction
<1>4. p - c \in Nat /\ c + (p - c) = p OBVIOUS
<1> QED BY <1>3, <1>4 DEF A

(* There is a first one after any sample, if there is one. *)
LEMMA KeptAfter ==
    ASSUME NEW K \in SUBSET Nat, NEW c \in K, NEW p \in Nat, p <= c
    PROVE  \E b \in K : b \in FirstAfter(K, p)
<1> DEFINE A == {k \in Nat : \E b \in K : b \in FirstAfter(K, c - k)}
<1>1. 0 \in A BY DEF FirstAfter
<1>2. ASSUME NEW k \in Nat, k \in A PROVE k + 1 \in A
  <2>1. CASE c - (k + 1) \in K BY <2>1 DEF FirstAfter
  <2>2. CASE c - (k + 1) \notin K
    <3>1. PICK b \in K : b \in FirstAfter(K, c - k) BY <1>2
    <3>2. \A e \in K : e >= c - (k + 1) => e >= c - k BY <2>2
    <3>3. b \in FirstAfter(K, c - (k + 1)) BY <3>1, <3>2 DEF FirstAfter
    <3> QED BY <3>3
  <2> QED BY <2>1, <2>2
<1> HIDE DEF A
<1>3. Nat \subseteq A BY <1>1, <1>2, SetInduction
<1>4. c - p \in Nat /\ c - (c - p) = p OBVIOUS
<1> QED BY <1>3, <1>4 DEF A

(* Whatever is kept to begin with, the samples that are left out lie within *)
(* their tolerance of the line between their neighbours in the end.         *)
LEMMA RefinedWithin ==
    ASSUME NEW n \in Nat, NEW s, DOMAIN s = 1..n, NEW dev, NEW tol, Measured(n, dev, tol),
           NEW kept \in SUBSET (1..n), 1 \in kept, n \in kept
    PROVE  /\ kept \subseteq Refined(s, dev, tol, kept)
           /\ Refined(s, dev, tol, kept) \subseteq 1..n
           /\ Within(s, Refined(s, dev, tol, kept), dev, tol)
<1> DEFINE R == Refined(s, dev, tol, kept)
           T(u, v) == TdTr(s, dev, tol, u, v)
           Apart(u, v) == u \in kept /\ v \in kept /\ u < v /\ Between(u, v) \cap kept = {}
<1>1. \A i : i \in R <=> i \in kept \/ \E u, v : Apart(u, v) /\ i \in T(u, v)
  <2>1. \A u, v : Apart(u, v) <=> <<u, v>> \in Spans(kept) BY DEF Spans
  <2>2. \A span \in Spans(kept) : span = <<span[1], span[2]>> BY DEF Spans
  <2> HIDE DEF Apart, T
  <2>3. \A i : (\E span \in Spans(kept) : i \in T(span[1], span[2]))
                  <=> \E u, v : Apart(u, v) /\ i \in T(u, v)
    BY <2>1, <2>2
  <2>4. R = kept \cup UNION {T(span[1], span[2]) : span \in Spans(kept)} BY DEF Refined, T
  <2>5. \A i : i \in R <=> i \in kept \/ \E span \in Spans(kept) : i \in T(span[1], span[2])
    BY <2>4
  <2> HIDE DEF R
  <2> QED BY <2>3, <2>5
<1>2. ASSUME NEW u, NEW v, Apart(u, v)
      PROVE  /\ u \in 1..n /\ v \in 1..n /\ u < v
             /\ Covers(T(u, v), s, dev, tol, u, v)
             /\ T(u, v) \subseteq Between(u, v) /\ Between(u, v) \subseteq 1..n
  <2>1. u \in 1..n /\ v \in u..n BY <1>2
  <2>2. Covers(T(u, v), s, dev, tol, u, v) BY <2>1, TdTrCovers
  <2> QED BY <1>2, <2>1, <2>2 DEF Covers, Between
<1>3. kept \subseteq R /\ R \subseteq 1..n
  <2> HIDE DEF R, Apart, T
  <2> QED BY <1>1, <1>2
<1>4. ASSUME NEW p \in (1..n) \ R, NEW a \in LastBefore(R, p), NEW b \in FirstAfter(R, p)
      PROVE  dev[<<p, a, b>>] <= tol[p] * Span(s, a, b)
  <2>1. PICK x \in kept : x \in LastBefore(kept, p)
    <3>1. kept \in SUBSET Nat /\ p \in Nat /\ 1 <= p OBVIOUS
    <3> QED BY <3>1, KeptBefore
  <2>2. PICK y \in kept : y \in FirstAfter(kept, p)
    <3>1. kept \in SUBSET Nat /\ p \in Nat /\ p <= n OBVIOUS
    <3> QED BY <3>1, KeptAfter
  <2>3. /\ a \in R /\ b \in R /\ a < p /\ p < b
        /\ \A c \in R : (c <= p => c <= a) /\ (c >= p => c >= b)
    <3>1. a \in R /\ b \in R /\ a <= p /\ p <= b /\ p \notin R
          /\ \A c \in R : (c <= p => c <= a) /\ (c >= p => c >= b)
      BY DEF LastBefore, FirstAfter
    <3> HIDE DEF R
    <3>2. a \in Int /\ b \in Int /\ p \in Int BY <1>3, <3>1
    <3> QED BY <3>1, <3>2
  <2>4. /\ x < p /\ p < y /\ x <= a /\ b <= y
        /\ \A c \in kept : (c <= p => c <= x) /\ (c >= p => c >= y)
    <3>1. x <= p /\ p <= y /\ \A c \in kept : (c <= p => c <= x) /\ (c >= p => c >= y)
      BY <2>1, <2>2 DEF LastBefore, FirstAfter
    <3> HIDE DEF R
    <3>2. x \in R /\ y \in R /\ x \in Int /\ y \in Int /\ p \in Int BY <1>3
    <3> QED BY <2>3, <3>1, <3>2
  <2>5. Apart(x, y)
    <3>1. Between(x, y) \cap kept = {} BY <2>4 DEF Between
    <3> QED BY <2>4, <3>1
  <2>6. ASSUME NEW i \in R, x < i, i < y PROVE i \in T(x, y)
    <3> HIDE DEF T, R
    <3>1. i \in Int BY <1>3
    <3>2. i \notin kept BY <2>4, <2>6, <1>3
    <3>3. PICK u, v : Apart(u, v) /\ i \in T(u, v) BY <1>1, <3>2
    <3>4. u \in 1..n /\ v \in 1..n /\ u < i /\ i < v
      <4> HIDE DEF Apart
      <4> QED BY <1>2, <3>3, <3>1 DEF Between
    <3>5. u <= x /\ y <= v
      <4>1. u \in kept /\ v \in kept /\ x \in Int /\ y \in Int /\ p \in Int BY <3>3
      <4> HIDE DEF Apart
      <4>2. (u <= p => u <= x) /\ (u >= p => u >= y) /\ (v <= p => v <= x) /\ (v >= p => v >= y)
        BY <4>1, <2>4
      <4>3. u \in Int /\ v \in Int /\ i \in Int /\ u < i /\ i < v BY <3>1, <3>4
      <4> QED BY <2>4, <2>6, <4>1, <4>2, <4>3
    <3>6. ~(u < x /\ x < v) /\ ~(u < y /\ y < v) BY <3>3, <3>4 DEF Between
    <3>7. u = x /\ v = y BY <3>4, <3>5, <3>6, <2>4, <2>6
    <3> QED BY <3>3, <3>7
  <2>7. Covers(T(x, y), s, dev, tol, x, y) /\ T(x, y) \subseteq R
    <3> HIDE DEF R, T, Apart
    <3> QED BY <1>1, <1>2, <2>5
  <2>8. a \in T(x, y) \cup {x, y} /\ b \in T(x, y) \cup {x, y}
    <3> HIDE DEF R, T, Apart
    <3>1. a \in Int /\ b \in Int /\ x \in Int /\ y \in Int BY <1>3, <2>3
    <3> QED BY <2>3, <2>4, <2>6, <3>1
  <2>9. p \in Between(x, y) \ T(x, y)
    <3> HIDE DEF R, T, Apart
    <3> QED BY <2>4, <2>7 DEF Between
  <2>10. \A z \in T(x, y) : ~(a < z /\ z < b)
    <3> HIDE DEF R, T, Apart
    <3>1. a \in Int /\ b \in Int /\ p \in Int BY <1>3, <2>3
    <3>2. ASSUME NEW z \in T(x, y) PROVE ~(a < z /\ z < b)
      <4>1. z \in R BY <2>7
      <4>2. z \in Int BY <4>1, <1>3
      <4>3. (z <= p => z <= a) /\ (z >= p => z >= b) BY <4>1, <2>3
      <4> QED BY <3>1, <4>2, <4>3
    <3> QED BY <3>2
  <2> HIDE DEF R, T, Apart
  <2> QED BY <2>3, <2>7, <2>8, <2>9, <2>10 DEF Covers
<1>5. Within(s, R, dev, tol) BY <1>4 DEF Within
<1> QED BY <1>3, <1>5

(* A bound that is multiplied by a duration. *)
LEMMA TimesBounds ==
    ASSUME NEW e \in Int, NEW m \in Int, NEW t \in Nat, -m <= e, e <= m
    PROVE  -(m * t) <= e * t /\ e * t <= m * t
<1>1. CASE t = 0 BY <1>1
<1>2. CASE t # 0
  <2>1. e * t <= m * t BY <1>2, Times
  <2>2. -m \in Int /\ (-m) * t <= e * t BY <1>2, Times
  <2>3. (-m) * t = -(m * t) BY Z3
  <2> QED BY <2>1, <2>2, <2>3
<1> QED BY <1>1, <1>2

(* Three deviations of a line add up to at most twice the largest. *)
LEMMA OffBySum ==
    ASSUME NEW D \in Int, NEW T \in Nat \ {0}, NEW U \in Nat, NEW w \in 0..U, NEW c \in Nat,
           NEW ep \in Int, NEW ea \in Int, NEW eb \in Int,
           -(c * T) <= ep, ep <= c * T, -(c * T) <= ea, ea <= c * T, -(c * T) <= eb, eb <= c * T,
           D * T = ep * U - ea * (U - w) - eb * w
    PROVE  -(2 * c * U) <= D /\ D <= 2 * c * U
<1> DEFINE m == c * T
<1>1. m \in Int /\ U - w \in Nat /\ w \in Nat OBVIOUS
<1>2. -(m * U) <= ep * U /\ ep * U <= m * U BY <1>1, TimesBounds
<1>3. -(m * (U - w)) <= ea * (U - w) /\ ea * (U - w) <= m * (U - w) BY <1>1, TimesBounds
<1>4. -(m * w) <= eb * w /\ eb * w <= m * w BY <1>1, TimesBounds
<1>5. m * (U - w) + m * w = m * U BY <1>1, Z3
<1>6. {ep * U, ea * (U - w), eb * w, m * U, m * (U - w), m * w} \subseteq Int BY <1>1
<1>7. -(2 * (m * U)) <= D * T /\ D * T <= 2 * (m * U)
  <2> DEFINE p1 == ep * U p2 == ea * (U - w) p3 == eb * w
             q1 == m * U q2 == m * (U - w) q3 == m * w DT == D * T
  <2>1. DT = p1 - p2 - p3 OBVIOUS
  <2>2. q2 + q3 = q1 BY <1>5
  <2>3. {p1, p2, p3, q1, q2, q3} \subseteq Int BY <1>6
  <2>4. -q1 <= p1 /\ p1 <= q1 BY <1>2
  <2>5. -q2 <= p2 /\ p2 <= q2 BY <1>3
  <2>6. -q3 <= p3 /\ p3 <= q3 BY <1>4
  <2> HIDE DEF p1, p2, p3, q1, q2, q3, DT
  <2>7. -(2 * q1) <= DT /\ DT <= 2 * q1 BY <2>1, <2>2, <2>3, <2>4, <2>5, <2>6
  <2> QED BY <2>7 DEF q1, DT
<1>8. 2 * (m * U) = (2 * c * U) * T BY Z3
<1>9. -(2 * (m * U)) = (-(2 * c * U)) * T BY Z3
<1>10. 2 * c * U \in Int /\ -(2 * c * U) \in Int OBVIOUS
<1> HIDE DEF m
<1>11. -(2 * c * U) <= D BY <1>7, <1>9, <1>10, Times
<1>12. D <= 2 * c * U BY <1>7, <1>8, <1>10, Times
<1> QED BY <1>11, <1>12

(* Products of natural numbers. *)
LEMMA TimesNat == ASSUME NEW x \in Nat, NEW y \in Nat PROVE x * y \in Nat
OBVIOUS

(* A bound of a distance. *)
LEMMA AbsAtMost == ASSUME NEW e \in Int, NEW m \in Int PROVE Abs(e) <= m <=> -m <= e /\ e <= m
BY DEF Abs

(* Samples that are added to those that are kept move the lines by as much *)
(* as they are off themselves.                                             *)
LEMMA WithinTwice ==
    ASSUME NEW n \in Nat, NEW s, DOMAIN s = 1..n, \A i \in 1..n : s[i].at \in Int,
           \A i, j \in 1..n : i < j => s[i].at < s[j].at,
           NEW v \in [1..n -> Int], NEW dev, NEW c \in Nat,
           \A p, a, b \in 1..n : dev[<<p, a, b>>] = Linear(s, v, p, a, b),
           NEW K \in SUBSET (1..n), NEW L \in SUBSET (1..n), K \subseteq L, 1 \in K, n \in K,
           Within(s, K, dev, Everywhere(s, c))
    PROVE  Within(s, L, dev, Everywhere(s, 2 * c))
<1> SUFFICES ASSUME NEW p \in (1..n) \ L, NEW a \in LastBefore(L, p), NEW b \in FirstAfter(L, p)
             PROVE  dev[<<p, a, b>>] <= Everywhere(s, 2 * c)[p] * Span(s, a, b)
  BY DEF Within
<1>1. PICK x \in K : x \in LastBefore(K, p)
  <2>1. K \in SUBSET Nat /\ p \in Nat /\ 1 <= p OBVIOUS
  <2> QED BY <2>1, KeptBefore
<1>2. PICK y \in K : y \in FirstAfter(K, p)
  <2>1. K \in SUBSET Nat /\ p \in Nat /\ p <= n OBVIOUS
  <2> QED BY <2>1, KeptAfter
<1>3. /\ a \in L /\ b \in L /\ a < p /\ p < b
      /\ x <= a /\ b <= y /\ x < p /\ p < y
  <2>1. a \in L /\ b \in L /\ a <= p /\ p <= b /\ p \notin L
        /\ \A q \in L : (q <= p => q <= a) /\ (q >= p => q >= b)
    BY DEF LastBefore, FirstAfter
  <2>2. x <= p /\ p <= y BY <1>1, <1>2 DEF LastBefore, FirstAfter
  <2> QED BY <2>1, <2>2
<1> DEFINE t(i) == s[i].at
           T == t(y) - t(x)
           E(i) == (v[i] - v[x]) * T - (v[y] - v[x]) * (t(i) - t(x))
<1>4. {x, y, a, b, p} \subseteq 1..n BY <1>3
<1>5. /\ t(x) \in Int /\ t(y) \in Int /\ t(a) \in Int /\ t(b) \in Int /\ t(p) \in Int
      /\ v[x] \in Int /\ v[y] \in Int /\ v[a] \in Int /\ v[b] \in Int /\ v[p] \in Int
  BY <1>4
<1>6. t(x) < t(y) /\ t(a) < t(p) /\ t(p) < t(b)
  <2>1. x < y /\ x \in Int BY <1>3, <1>4
  <2> QED BY <1>3, <1>4, <2>1
<1>7. ASSUME NEW i \in 1..n, x <= i, i <= y PROVE E(i) \in Int /\ -(c * T) <= E(i) /\ E(i) <= c * T
  <2>0. t(i) \in Int /\ v[i] \in Int BY <1>7
  <2>6. T \in Nat
    <3>1. t(x) \in Int /\ t(y) \in Int /\ t(x) < t(y) BY <1>5, <1>6
    <3> HIDE DEF t
    <3> QED BY ONLY <3>1
  <2>7. T \in Int /\ c * T \in Nat
    <3> HIDE DEF T
    <3> QED BY <2>6, TimesNat
  <2>1. E(i) \in Int
    <3>1. v[i] - v[x] \in Int /\ v[y] - v[x] \in Int /\ t(i) - t(x) \in Int
      <4> HIDE DEF t
      <4>1. v[i] \in Int /\ v[x] \in Int /\ v[y] \in Int /\ t(i) \in Int /\ t(x) \in Int BY <1>5, <2>0
      <4> QED BY ONLY <4>1
    <3> DEFINE f == v[i] - v[x]
               g == v[y] - v[x]
               h == t(i) - t(x)
    <3>2. T \in Int BY <2>7
    <3> HIDE DEF T, f, g, h
    <3>3. f \in Int /\ g \in Int /\ h \in Int BY ONLY <3>1 DEF f, g, h
    <3>4. f * T - g * h \in Int BY ONLY <3>2, <3>3
    <3> QED BY <3>4 DEF f, g, h
  <2>5. E(i) = 0 => E(i) \in Int /\ -(c * T) <= E(i) /\ E(i) <= c * T
    <3> DEFINE W == c * T
    <3>1. W \in Nat BY <2>7
    <3> HIDE DEF E, T, W
    <3>2. -W <= 0 /\ 0 <= W BY <3>1
    <3> QED BY <3>2 DEF W
  <2>2. CASE i = x
    <3>1. v[i] - v[x] = 0 /\ t(i) - t(x) = 0 BY <2>2, <2>0
    <3>2. E(i) = 0 * T - (v[y] - v[x]) * 0 BY <3>1
    <3>3. v[y] - v[x] \in Int BY <1>5
    <3>4. E(i) = 0
      <4> HIDE DEF E, T
      <4> QED BY ONLY <3>2, <3>3, <2>7
    <3> QED BY <3>4, <2>5
  <2>3. CASE i = y
    <3>1. E(i) = (v[y] - v[x]) * T - (v[y] - v[x]) * T BY <2>3
    <3>2. v[y] - v[x] \in Int /\ (v[y] - v[x]) * T \in Int
      <4>1. v[y] - v[x] \in Int BY <1>5
      <4> HIDE DEF T
      <4> QED BY ONLY <4>1, <2>7
    <3>3. E(i) = 0
      <4> HIDE DEF E, T
      <4> QED BY <3>1, <3>2
    <3> QED BY <3>3, <2>5
  <2>4. CASE i # x /\ i # y
    <3>1. i \notin K /\ x \in LastBefore(K, i) /\ y \in FirstAfter(K, i)
      <4>1. \A q \in K : (q <= p => q <= x) /\ (q >= p => q >= y)
        BY <1>1, <1>2 DEF LastBefore, FirstAfter
      <4>2. \A q \in K : q \in Int BY <1>4
      <4>3. x < i /\ i < y BY <1>4, <1>7, <2>4
      <4>4. \A q \in K : q <= x \/ q >= y BY <4>1, <4>2, <1>4
      <4>5. i \notin K BY <4>3, <4>4, <1>4
      <4>6. x \in K /\ y \in K /\ x <= i /\ i <= y BY <1>7
      <4>7. \A q \in K : (q <= i => q <= x) /\ (q >= i => q >= y) BY <4>2, <4>3, <4>4, <1>4
      <4> QED BY <4>5, <4>6, <4>7 DEF LastBefore, FirstAfter
    <3>2. dev[<<i, x, y>>] <= Everywhere(s, c)[i] * Span(s, x, y) BY <3>1 DEF Within
    <3>3. Everywhere(s, c)[i] = c BY DEF Everywhere
    <3>4. Linear(s, v, i, x, y) <= c * T BY <3>2, <3>3, <1>4 DEF Span
    <3>5. Abs(E(i)) <= c * T BY <3>4 DEF Linear, Span
    <3> HIDE DEF E, T
    <3> QED BY <3>5, <2>7, <2>1, AbsAtMost
  <2> QED BY <2>2, <2>3, <2>4
<1> DEFINE U == t(b) - t(a)
           w == t(p) - t(a)
           D == (v[p] - v[a]) * U - (v[b] - v[a]) * w
<1>8. T \in Nat \ {0} /\ U \in Nat /\ w \in 0..U /\ D \in Int
  <2> HIDE DEF t
  <2>0. t(x) \in Int /\ t(y) \in Int /\ t(a) \in Int /\ t(b) \in Int /\ t(p) \in Int BY <1>5
  <2>1. T \in Nat \ {0} /\ U \in Nat /\ w \in 0..U
    <3>1. T \in Nat \ {0} BY ONLY <2>0, <1>6
    <3>2. U \in Nat BY ONLY <2>0, <1>6
    <3>3. w \in Nat /\ w <= U BY ONLY <2>0, <1>6
    <3> HIDE DEF T, U, w
    <3> QED BY <3>1, <3>2, <3>3
  <2>2. D \in Int
    <3> DEFINE f == v[p] - v[a]
               g == v[b] - v[a]
    <3>1. f \in Int /\ g \in Int BY ONLY <1>5
    <3>2. w \in Int /\ U \in Int
      <4> HIDE DEF T
      <4> QED BY <2>1
    <3> HIDE DEF T, U, w, f, g
    <3>3. f * U - g * w \in Int BY ONLY <3>1, <3>2
    <3> QED BY <3>3 DEF f, g
  <2> QED BY <2>1, <2>2
<1>9. D * T = E(p) * U - E(a) * (U - w) - E(b) * w
  <2> DEFINE vx == v[x] va == v[a] vp == v[p] vb == v[b] vy == v[y]
             tx == t(x) ta == t(a) tp == t(p) tb == t(b) ty == t(y)
  <2>1. /\ vx \in Int /\ va \in Int /\ vp \in Int /\ vb \in Int /\ vy \in Int
        /\ tx \in Int /\ ta \in Int /\ tp \in Int /\ tb \in Int /\ ty \in Int
    BY <1>5
  <2>2. ((vp - va) * (tb - ta) - (vb - va) * (tp - ta)) * (ty - tx)
               = ((vp - vx) * (ty - tx) - (vy - vx) * (tp - tx)) * (tb - ta)
                 - ((va - vx) * (ty - tx) - (vy - vx) * (ta - tx)) * ((tb - ta) - (tp - ta))
                 - ((vb - vx) * (ty - tx) - (vy - vx) * (tb - tx)) * (tp - ta)
    <3> HIDE DEF vx, va, vp, vb, vy, tx, ta, tp, tb, ty
    <3> QED BY <2>1, Z3
  <2> QED BY <2>2
<1>10. -(2 * c * U) <= D /\ D <= 2 * c * U
  <2>1. /\ E(p) \in Int /\ -(c * T) <= E(p) /\ E(p) <= c * T
        /\ E(a) \in Int /\ -(c * T) <= E(a) /\ E(a) <= c * T
        /\ E(b) \in Int /\ -(c * T) <= E(b) /\ E(b) <= c * T
    <3> HIDE DEF E, T
    <3>1. x <= p /\ p <= y /\ a <= y /\ x <= b BY <1>3, <1>4
    <3> QED BY <1>3, <1>4, <1>7, <3>1
  <2> HIDE DEF E, T, U, w, D
  <2> QED BY <2>1, <1>8, <1>9, OffBySum
<1>11. Linear(s, v, p, a, b) = Abs(D) BY DEF Linear, Span
<1>12. Abs(D) <= 2 * c * U
  <2> HIDE DEF U, D, w, T
  <2> QED BY <1>8, <1>10, AbsAtMost
<1>13. Everywhere(s, 2 * c)[p] = 2 * c /\ Span(s, a, b) = U BY DEF Everywhere, Span
<1> QED BY <1>4, <1>11, <1>12, <1>13

(* The kept indices in order. *)
LEMMA NthKept ==
    ASSUME NEW n \in Nat, NEW K \in SUBSET (1..n)
    PROVE  /\ Cardinality(K) \in Nat
           /\ \A k \in 1..Cardinality(K) : Nth(K, k) \in K
           /\ \A k, l \in 1..Cardinality(K) : k < l => Nth(K, k) < Nth(K, l)
           /\ \A i \in K : \E k \in 1..Cardinality(K) : Nth(K, k) = i
<1> DEFINE m == Cardinality(K)
           Before(i) == {j \in K : j < i}
           Rank(i) == Cardinality(Before(i))
<1>1. IsFiniteSet(K) /\ m \in Nat
  <2>1. IsFiniteSet(1..n) BY FS_Interval
  <2> QED BY <2>1, FS_Subset, FS_CardinalityType
<1>2. ASSUME NEW i \in K PROVE Rank(i) \in 0..(m - 1) /\ IsFiniteSet(Before(i))
  <2>1. Before(i) \in SUBSET K /\ i \notin Before(i) OBVIOUS
  <2>2. IsFiniteSet(Before(i)) /\ Rank(i) <= m /\ Rank(i) # m BY <1>1, <2>1, FS_Subset
  <2>3. Rank(i) \in Nat BY <2>2, FS_CardinalityType
  <2> HIDE DEF Rank, m
  <2> QED BY <1>1, <2>2, <2>3
<1>3. ASSUME NEW i \in K, NEW j \in K, i < j PROVE Rank(i) < Rank(j)
  <2>1. Before(i) \in SUBSET Before(j) /\ i \notin Before(i) /\ i \in Before(j)
    <3>1. \A e \in K : e \in Int OBVIOUS
    <3>2. \A e \in Before(i) : e \in Before(j) BY <1>3, <3>1
    <3>3. i \notin Before(i) BY <3>1
    <3>4. i \in Before(j) BY <1>3
    <3> QED BY <3>2, <3>3, <3>4
  <2>2. Rank(i) <= Rank(j) /\ Rank(i) # Rank(j) BY <1>2, <2>1, FS_Subset
  <2>3. Rank(i) \in Int /\ Rank(j) \in Int BY <1>2
  <2> HIDE DEF Rank
  <2> QED BY <2>2, <2>3
<1>4. ASSUME NEW i \in K, NEW j \in K, Rank(i) = Rank(j) PROVE i = j
  <2>1. ~(i < j) /\ ~(j < i)
    <3>1. Rank(i) \in Int
      <4>1. Rank(i) \in 0..(m - 1) BY <1>2
      <4> HIDE DEF Rank, m
      <4> QED BY <1>1, <4>1
    <3> HIDE DEF Rank
    <3> QED BY <1>3, <1>4, <3>1
  <2> QED BY <2>1
<1> DEFINE rank == [i \in K |-> Rank(i)]
<1>5. \A k \in 0..(m - 1) : \E i \in K : Rank(i) = k
  <2>1. rank \in Injection(K, 0..(m - 1))
    <3>1. rank \in [K -> 0..(m - 1)] BY <1>2
    <3>2. \A i, j \in K : rank[i] = rank[j] => i = j
      <4> HIDE DEF Rank
      <4> QED BY <1>4
    <3> HIDE DEF rank
    <3> QED BY <3>1, <3>2 DEF Injection, IsInjective
  <2>2. IsFiniteSet(0..(m - 1)) /\ Cardinality(0..(m - 1)) = m
    <3> HIDE DEF m
    <3> QED BY <1>1, FS_Interval
  <2>3. rank \in Surjection(K, 0..(m - 1))
    <3> HIDE DEF rank
    <3> QED BY <2>1, <2>2, FS_Injection
  <2>4. \A k \in 0..(m - 1) : \E i \in K : rank[i] = k
    <3> HIDE DEF rank, m
    <3> QED BY <2>3 DEF Surjection
  <2> HIDE DEF Rank, m
  <2> QED BY <2>4
<1>6. ASSUME NEW k \in 1..m PROVE Nth(K, k) \in K /\ Rank(Nth(K, k)) = k - 1
  <2>1. k - 1 \in 0..(m - 1) BY <1>1
  <2>2. \E i \in K : Rank(i) = k - 1
    <3> HIDE DEF Rank, m
    <3> QED BY <1>5, <2>1
  <2>3. Nth(K, k) = CHOOSE i \in K : Rank(i) = k - 1 BY DEF Nth
  <2> HIDE DEF Rank, m
  <2> QED BY <2>2, <2>3
<1> HIDE DEF Rank, m, rank
<1>7. \A k, l \in 1..m : k < l => Nth(K, k) < Nth(K, l)
  <2> SUFFICES ASSUME NEW k \in 1..m, NEW l \in 1..m, k < l PROVE Nth(K, k) < Nth(K, l) OBVIOUS
  <2> DEFINE i == Nth(K, k) j == Nth(K, l)
  <2>1. i \in K /\ j \in K /\ Rank(i) = k - 1 /\ Rank(j) = l - 1 BY <1>6
  <2> HIDE DEF i, j
  <2>2. ~(j < i) /\ i # j BY <1>1, <1>3, <2>1
  <2>3. i < j BY <2>1, <2>2
  <2> QED BY <2>3 DEF i, j
<1>8. \A i \in K : \E k \in 1..m : Nth(K, k) = i
  <2> SUFFICES ASSUME NEW i \in K PROVE \E k \in 1..m : Nth(K, k) = i OBVIOUS
  <2>0. Rank(i) \in 0..(m - 1) BY <1>2
  <2>1. Rank(i) + 1 \in 1..m /\ (Rank(i) + 1) - 1 = Rank(i) BY <1>1, <2>0
  <2>2. Nth(K, Rank(i) + 1) \in K /\ Rank(Nth(K, Rank(i) + 1)) = Rank(i) BY <1>6, <2>1
  <2>3. Nth(K, Rank(i) + 1) = i BY <1>4, <2>2
  <2> QED BY <2>1, <2>3
<1> QED BY <1>1, <1>6, <1>7, <1>8 DEF m

-----------------------------------------------------------------------------
(* The samples of a flight and their codes. *)

(* A column of samples in order of time. *)
InTime(s, n) ==
    /\ DOMAIN s = 1..n
    /\ \A i \in 1..n : s[i].at \in Int
    /\ \A i, j \in 1..n : i < j => s[i].at < s[j].at

(* Samples of a flight with what was missing filled in: from the first     *)
(* code on, there is one.                                                  *)
AreSamples(s, n) ==
    /\ InTime(s, n)
    /\ \A i \in 1..n : /\ s[i].place \in Int /\ s[i].alt \in Int /\ s[i].qnh \in Int
                       /\ s[i].gs \subseteq Int /\ s[i].track \subseteq Int
    /\ \A i, j \in 1..n : i < j /\ s[i].squawk # {} => s[j].squawk # {}

(* The way around the circle is a number. *)
LEMMA ArcType == \A from, to \in Int : Arc(from, to) \in Int
<1>1. Circle \in Nat \ {0} BY SimplificationConstants
<1>2. \A x \in Int : x % Circle \in Int BY <1>1
<1>3. Circle \div 2 \in Int BY <1>1
<1> TAKE from, to \in Int
<1> DEFINE h == Circle \div 2
           x == to - from + h
<1>4. h \in Int /\ x \in Int BY <1>3
<1>5. Arc(from, to) = (x % Circle) - h BY DEF Arc
<1> HIDE DEF x, h
<1> QED BY <1>2, <1>4, <1>5

(* What interpolate_missing_values makes of the samples of a sub-sequence. *)
LEMMA FilledType ==
    ASSUME NEW s \in Seq(Sample), InTimeOrder(s)
    PROVE  /\ AreSamples(Filled(s), Len(s))
           /\ \A i \in 1..Len(s) : /\ Filled(s)[i].at = s[i].at
                                   /\ Filled(s)[i].qnh = s[i].qnh
<1> DEFINE n == Len(s)
           codes == {i \in DOMAIN s : s[i].squawk # {}}
           tracks == {i \in DOMAIN s : s[i].track # {}}
           Turned(i, a, b) ==
               IF a = b THEN The(s[a].track)
               ELSE (The(s[a].track)
                        + ((Arc(The(s[a].track), The(s[b].track)) * Span(s, a, i)) \div Span(s, a, b)))
                    % Circle
           Code(i) == UNION {s[a].squawk : a \in LastBefore(codes, i)}
           Turn(i) == {Turned(i, a, b) : a \in LastBefore(tracks, i), b \in FirstAfter(tracks, i)}
           f == Filled(s)
<1>1. n \in Nat /\ DOMAIN s = 1..n OBVIOUS
<1>2. ASSUME NEW i \in 1..n
      PROVE  /\ s[i].at \in Int /\ s[i].place \in Int /\ s[i].alt \in Int /\ s[i].qnh \in Int
             /\ s[i].gs \subseteq Int /\ s[i].track \subseteq Int
             /\ s[i] = [at |-> s[i].at, place |-> s[i].place, alt |-> s[i].alt, qnh |-> s[i].qnh,
                        squawk |-> s[i].squawk, gs |-> s[i].gs, track |-> s[i].track]
  <2>1. s[i] \in Sample OBVIOUS
  <2> DEFINE x == s[i]
  <2>2. x \in Sample BY <2>1
  <2> HIDE DEF x
  <2>3. /\ x.at \in Int /\ x.place \in Int /\ x.alt \in Int /\ x.qnh \in Int
        /\ x.gs \subseteq Int /\ x.track \subseteq Int
        /\ x = [at |-> x.at, place |-> x.place, alt |-> x.alt, qnh |-> x.qnh,
                squawk |-> x.squawk, gs |-> x.gs, track |-> x.track]
    BY <2>2 DEF Sample
  <2> QED BY <2>3 DEF x
<1>3. ASSUME NEW i \in 1..n
      PROVE  f[i] = [at |-> s[i].at, place |-> s[i].place, alt |-> s[i].alt, qnh |-> s[i].qnh,
                     squawk |-> Code(i), gs |-> s[i].gs, track |-> Turn(i)]
  <2>1. f[i] = [s[i] EXCEPT !.squawk = Code(i), !.track = Turn(i)] BY <1>1 DEF Filled
  <2> HIDE DEF Code, Turn, f
  <2> DEFINE x == s[i] c == Code(i) t == Turn(i)
  <2>2. f[i] = [x EXCEPT !.squawk = c, !.track = t] BY <2>1
  <2>3. x = [at |-> x.at, place |-> x.place, alt |-> x.alt, qnh |-> x.qnh,
             squawk |-> x.squawk, gs |-> x.gs, track |-> x.track] BY <1>2
  <2> HIDE DEF x, c, t
  <2>4. f[i] = [at |-> x.at, place |-> x.place, alt |-> x.alt, qnh |-> x.qnh,
                squawk |-> c, gs |-> x.gs, track |-> t] BY <2>2, <2>3
  <2> QED BY <2>4 DEF x, c, t
<1>4. ASSUME NEW i \in 1..n PROVE Turn(i) \subseteq Int
  <2> SUFFICES \A a \in LastBefore(tracks, i), b \in FirstAfter(tracks, i) : Turned(i, a, b) \in Int
    <3> HIDE DEF Turned, tracks
    <3> QED OBVIOUS
  <2> TAKE a \in LastBefore(tracks, i), b \in FirstAfter(tracks, i)
  <2>1. a \in tracks /\ b \in tracks /\ a <= i /\ i <= b BY DEF LastBefore, FirstAfter
  <2>2. The(s[a].track) \in Int /\ The(s[b].track) \in Int
    <3>1. s[a].track # {} /\ s[a].track \subseteq Int /\ s[b].track # {} /\ s[b].track \subseteq Int
      BY <1>1, <1>2, <2>1
    <3> QED BY <3>1 DEF The
  <2>3. CASE a = b BY <2>2, <2>3
  <2>4. CASE a # b
    <3>1. a < b /\ a \in DOMAIN s /\ b \in DOMAIN s BY <1>1, <2>1, <2>4
    <3>2. s[a].at < s[b].at /\ s[a].at \in Int /\ s[b].at \in Int /\ s[i].at \in Int
      BY <1>1, <1>2, <3>1 DEF InTimeOrder
    <3> DEFINE u == Span(s, a, b) w == Span(s, a, i) arc == Arc(The(s[a].track), The(s[b].track))
               first == The(s[a].track)
    <3>3. u \in Nat \ {0} /\ w \in Int BY <3>2 DEF Span
    <3>4. arc \in Int /\ first \in Int BY <2>2, ArcType
    <3>5. Turned(i, a, b) = (first + ((arc * w) \div u)) % Circle BY <2>4
    <3> HIDE DEF u, w, arc, first
    <3>6. arc * w \in Int BY <3>3, <3>4
    <3>7. (arc * w) \div u \in Int
      <4> DEFINE m == arc * w
      <4>1. m \in Int BY <3>6
      <4> HIDE DEF m
      <4>2. m \div u \in Int BY <4>1, <3>3
      <4> QED BY <4>2 DEF m
    <3> DEFINE e == (arc * w) \div u
    <3>8. e \in Int /\ Turned(i, a, b) = (first + e) % Circle BY <3>5, <3>7
    <3> HIDE DEF e, Turned
    <3> QED BY <3>4, <3>8, SimplificationConstants
  <2> QED BY <2>3, <2>4
<1>5. ASSUME NEW i \in 1..n, NEW j \in 1..n, i < j, Code(i) # {} PROVE Code(j) # {}
  <2>1. PICK a \in LastBefore(codes, i) : s[a].squawk # {} BY <1>5
  <2>2. a \in codes /\ a <= j
    <3>1. a \in codes /\ a <= i BY DEF LastBefore
    <3> QED BY <1>1, <1>5, <3>1
  <2>3. codes \in SUBSET Nat BY <1>1
  <2>4. PICK b \in codes : b \in LastBefore(codes, j)
    <3> HIDE DEF codes
    <3>1. j \in Nat OBVIOUS
    <3> QED BY <2>2, <2>3, <3>1, KeptBefore
  <2>5. s[b].squawk # {} OBVIOUS
  <2> HIDE DEF codes
  <2> QED BY <2>4, <2>5
<1>6. DOMAIN f = 1..n BY <1>1 DEF Filled
<1> HIDE DEF f, Code, Turn, n
<1>10. ASSUME NEW i \in 1..n
       PROVE  /\ f[i].at = s[i].at /\ f[i].place = s[i].place /\ f[i].alt = s[i].alt
              /\ f[i].qnh = s[i].qnh /\ f[i].gs = s[i].gs
              /\ f[i].squawk = Code(i) /\ f[i].track = Turn(i)
  <2> DEFINE x == s[i] y == f[i] c == Code(i) t == Turn(i)
  <2>1. y = [at |-> x.at, place |-> x.place, alt |-> x.alt, qnh |-> x.qnh,
             squawk |-> c, gs |-> x.gs, track |-> t] BY <1>3
  <2> HIDE DEF x, y, c, t
  <2>2. /\ y.at = x.at /\ y.place = x.place /\ y.alt = x.alt /\ y.qnh = x.qnh
        /\ y.gs = x.gs /\ y.squawk = c /\ y.track = t BY <2>1
  <2> QED BY <2>2 DEF x, y, c, t
<1>7. InTime(f, n)
  <2>1. \A i \in 1..n : f[i].at = s[i].at /\ s[i].at \in Int BY <1>2, <1>10
  <2>2. \A i, j \in 1..n : i < j => s[i].at < s[j].at BY <1>1 DEF InTimeOrder
  <2> QED BY <1>6, <2>1, <2>2 DEF InTime
<1>8. \A i \in 1..n : /\ f[i].at = s[i].at /\ f[i].qnh = s[i].qnh
                      /\ f[i].place \in Int /\ f[i].alt \in Int /\ f[i].qnh \in Int
                      /\ f[i].gs \subseteq Int /\ f[i].track \subseteq Int
                      /\ f[i].squawk = Code(i)
  BY <1>2, <1>10, <1>4
<1>9. AreSamples(f, n) BY <1>5, <1>7, <1>8 DEF AreSamples
<1> QED BY <1>8, <1>9 DEF f, n

(* Samples that are picked are samples. *)
LEMMA PickedType ==
    ASSUME NEW s, NEW n \in Nat, AreSamples(s, n), NEW K \in SUBSET (1..n)
    PROVE  AreSamples(Picked(s, K), Cardinality(K))
<1> DEFINE p == Picked(s, K) m == Cardinality(K) N(k) == Nth(K, k)
<1>1. /\ m \in Nat /\ (\A k \in 1..m : N(k) \in 1..n) /\ \A k, l \in 1..m : k < l => N(k) < N(l)
  BY NthKept
<1>2. DOMAIN p = 1..m /\ \A k \in 1..m : p[k] = s[N(k)] BY DEF Picked
<1> HIDE DEF p, m, N
<1>3. InTime(p, m) BY <1>1, <1>2 DEF InTime, AreSamples
<1>4. AreSamples(p, m) BY <1>1, <1>2, <1>3 DEF AreSamples
<1> QED BY <1>4 DEF p, m

(* The code of a vertex is the one that a reader of the runs finds from    *)
(* the time of the vertex on, until the next one.                          *)
CodeAt(p, t) ==
    LET runs == {run \in SquawkRuns(p) : run.at <= t}
    IN  UNION {run.code : run \in {c \in runs : \A d \in runs : d.at <= c.at}}

LEMMA RunsRead ==
    ASSUME NEW m \in Nat, NEW p, Len(p) = m, AreSamples(p, m), NEW k \in 1..m, NEW t \in Int,
           p[k].at <= t, k < m => t < p[k + 1].at
    PROVE  p[k].squawk = CodeAt(p, t)
<1> DEFINE codes == {i \in DOMAIN p : p[i].squawk # {}}
           new == {i \in codes : \A a \in LastBefore(codes \ {i}, i) : p[a].squawk # p[i].squawk}
           last == {p[a].squawk : a \in LastBefore(new, m)}
           Run(i) == [at |-> p[i].at, code |-> p[i].squawk]
           all == {Run(i) : i \in new} \cup {[at |-> p[m].at, code |-> code] : code \in last}
           runs == {run \in all : run.at <= t}
           latest == {c \in runs : \A d \in runs : d.at <= c.at}
<1>0. SquawkRuns(p) = all BY DEF SquawkRuns
<1>1. CodeAt(p, t) = UNION {run.code : run \in latest} BY <1>0 DEF CodeAt
<1>2. /\ DOMAIN p = 1..m /\ (\A i \in 1..m : p[i].at \in Int)
      /\ (\A i, j \in 1..m : i < j => p[i].at < p[j].at)
      /\ (\A i, j \in 1..m : i < j /\ p[i].squawk # {} => p[j].squawk # {})
  BY DEF AreSamples, InTime
<1>3. codes \subseteq 1..m /\ new \subseteq codes BY <1>2
<1>4. ASSUME NEW i \in codes, i - 1 \in codes, i \notin new PROVE p[i].squawk = p[i - 1].squawk
  <2>1. PICK a \in LastBefore(codes \ {i}, i) : p[a].squawk = p[i].squawk BY <1>4
  <2>2. a \in codes /\ a # i /\ a <= i /\ i - 1 <= a BY <1>3, <1>4 DEF LastBefore
  <2>3. a = i - 1 BY <1>3, <2>2
  <2> QED BY <2>1, <2>3
<1>5. ASSUME NEW i \in codes, i \notin new PROVE i - 1 \in codes
  <2>1. PICK a \in LastBefore(codes \ {i}, i) : p[a].squawk = p[i].squawk BY <1>5
  <2>2. a \in codes /\ a # i /\ a <= i BY DEF LastBefore
  <2> QED BY <1>2, <1>3, <2>2
<1>6. ASSUME NEW j \in LastBefore(new, k) PROVE p[k].squawk = p[j].squawk
  <2>1. j \in new /\ j <= k /\ \A c \in new : c <= k => c <= j BY DEF LastBefore
  <2>2. j \in 1..m /\ j \in codes BY <1>3, <2>1
  <2>3. \A i \in j..k : i \in codes
    <3> TAKE i \in j..k
    <3>1. i \in 1..m /\ p[j].squawk # {} /\ (i = j \/ j < i) BY <1>2, <2>2
    <3>2. p[i].squawk # {} BY <1>2, <2>2, <3>1
    <3> QED BY <3>1, <3>2
  <2> HIDE DEF codes, new
  <2> DEFINE A == {d \in Nat : j + d <= k => p[j + d].squawk = p[j].squawk}
  <2>4. 0 \in A BY <2>2
  <2>5. ASSUME NEW d \in Nat, d \in A PROVE d + 1 \in A
    <3> SUFFICES ASSUME j + (d + 1) <= k PROVE p[j + (d + 1)].squawk = p[j].squawk OBVIOUS
    <3> DEFINE i == j + (d + 1)
    <3>1. i \in j..k /\ i - 1 \in j..k /\ i - 1 = j + d BY <2>2
    <3>2. i \notin new BY <2>1, <2>2
    <3>3. p[i].squawk = p[i - 1].squawk BY <1>4, <2>3, <3>1, <3>2
    <3> QED BY <2>5, <3>1, <3>3
  <2>6. k - j \in A
    <3>1. Nat \subseteq A
      <4> HIDE DEF A
      <4> QED BY <2>4, <2>5, SetInduction
    <3> QED BY <2>1, <2>2, <3>1
  <2> QED BY <2>2, <2>6
<1>7. ASSUME NEW i \in codes PROVE \E c \in new : c <= i
  <2> DEFINE A == {d \in Nat : \A c \in codes : c <= d => \E b \in new : b <= c}
  <2>1. 0 \in A BY <1>3
  <2>2. ASSUME NEW d \in Nat, d \in A PROVE d + 1 \in A
    <3> SUFFICES ASSUME NEW c \in codes, c = d + 1, c \notin new PROVE \E b \in new : b <= c
      <4> HIDE DEF codes, new
      <4> QED BY <1>3, <2>2
    <3>1. c - 1 \in codes BY <1>5
    <3> HIDE DEF codes, new
    <3>2. c - 1 = d /\ \A e \in codes : e <= d => \E b \in new : b <= e BY <2>2
    <3>3. PICK b \in new : b <= c - 1 BY <3>1, <3>2
    <3> QED BY <1>3, <3>2, <3>3
  <2>3. Nat \subseteq A
    <3> HIDE DEF A
    <3> QED BY <2>1, <2>2, SetInduction
  <2> HIDE DEF codes, new
  <2>4. i \in A BY <1>3, <2>3
  <2> QED BY <1>3, <2>4
<1>8. \A i \in 1..m : p[i].at <= t <=> i <= k
  <2> TAKE i \in 1..m
  <2>1. CASE i <= k BY <1>2, <2>1
  <2>2. CASE i > k
    <3>1. k + 1 \in 1..m /\ t < p[k + 1].at /\ p[k + 1].at <= p[i].at BY <1>2, <2>2
    <3> QED BY <1>2, <2>2, <3>1
  <2> QED BY <2>1, <2>2
<1>9. CASE p[k].squawk = {}
  <2>1. \A i \in codes : i > k BY <1>2, <1>3, <1>9
  <2>2. ASSUME NEW run \in runs PROVE FALSE
    <3>1. ASSUME NEW i \in new, run = Run(i) PROVE FALSE
      <4>1. run.at = p[i].at /\ run.at <= t BY <3>1
      <4> HIDE DEF runs, codes, new, all, last, latest, Run
      <4>2. i \in 1..m /\ i > k BY <1>3, <2>1
      <4> QED BY <1>8, <4>1, <4>2
    <3>2. ASSUME NEW code \in last, run = [at |-> p[m].at, code |-> code] PROVE FALSE
      <4>1. run.at = p[m].at /\ run.at <= t BY <3>2
      <4>2. m <= k
        <5> HIDE DEF runs, last
        <5> QED BY <1>8, <4>1
      <4>3. PICK a \in LastBefore(new, m) : code = p[a].squawk BY <3>2
      <4>4. a \in codes /\ a <= m BY DEF LastBefore
      <4> HIDE DEF codes, new, last, runs
      <4> QED BY <1>3, <2>1, <4>2, <4>4
    <3> QED BY <3>1, <3>2
  <2>3. latest = {} BY <2>2
  <2> HIDE DEF latest
  <2>4. UNION {run.code : run \in latest} = {} BY <2>3
  <2> QED BY <1>1, <1>9, <2>4
<1>10. CASE p[k].squawk # {}
  <2>1. k \in codes BY <1>2, <1>10
  <2>2. PICK j \in new : j \in LastBefore(new, k)
    <3>1. PICK c \in new : c <= k BY <1>7, <2>1
    <3>2. new \in SUBSET Nat BY <1>3
    <3> HIDE DEF new
    <3> QED BY <3>1, <3>2, KeptBefore
  <2>3. p[j].squawk = p[k].squawk BY <1>6, <2>2
  <2>4. j \in new /\ j \in 1..m /\ j <= k /\ \A c \in new : c <= k => c <= j
    BY <1>3, <2>2 DEF LastBefore
  <2>5. \A run \in all : \/ \E i \in new : run = Run(i)
                        \/ \E code \in last : run = [at |-> p[m].at, code |-> code]
    OBVIOUS
  <2>6. CASE k < m
    <3>1. ASSUME NEW run \in runs PROVE \E i \in new : run = Run(i) /\ run.at = p[i].at /\ i <= j
      <4>1. run \in all /\ run.at <= t OBVIOUS
      <4>2. ASSUME NEW code \in last, run = [at |-> p[m].at, code |-> code] PROVE FALSE
        <5>1. run.at = p[m].at BY <4>2
        <5> HIDE DEF runs, all, last
        <5> QED BY <1>8, <2>6, <4>1, <5>1
      <4>3. PICK i \in new : run = Run(i) BY <2>5, <4>1, <4>2
      <4>4. run.at = p[i].at BY <4>3
      <4>5. i \in 1..m BY <1>3
      <4>6. i <= j
        <5> HIDE DEF runs, all, new, Run
        <5> QED BY <1>8, <2>4, <4>1, <4>4, <4>5
      <4> QED BY <4>3, <4>4, <4>6
    <3>2. Run(j) \in runs /\ Run(j).at = p[j].at /\ Run(j).code = p[j].squawk
      <4>1. Run(j).at = p[j].at /\ Run(j).code = p[j].squawk OBVIOUS
      <4>2. p[j].at <= t BY <1>8, <2>4
      <4> QED BY <2>4, <4>1, <4>2
    <3>3. latest = {Run(j)}
      <4>1. Run(j) \in latest
        <5>1. \A d \in runs : d.at <= p[j].at
          <6> TAKE d \in runs
          <6>1. PICK i \in new : d.at = p[i].at /\ i <= j BY <3>1
          <6>2. i \in 1..m BY <1>3
          <6> HIDE DEF runs, new
          <6> QED BY <1>2, <2>4, <6>1, <6>2
        <5> HIDE DEF runs, Run
        <5> QED BY <3>2, <5>1
      <4>2. ASSUME NEW c \in latest PROVE c = Run(j)
        <5>1. c \in runs /\ \A d \in runs : d.at <= c.at OBVIOUS
        <5>2. PICK i \in new : c = Run(i) /\ c.at = p[i].at /\ i <= j BY <3>1, <5>1
        <5>3. p[j].at <= c.at BY <3>2, <5>1
        <5>4. i \in 1..m BY <1>3
        <5>5. i = j
          <6> HIDE DEF runs, new, latest, Run
          <6> QED BY <1>2, <2>4, <5>2, <5>3, <5>4
        <5> QED BY <5>2, <5>5
      <4> HIDE DEF latest, Run
      <4> QED BY <4>1, <4>2
    <3>4. UNION {run.code : run \in latest} = p[j].squawk
      <4> HIDE DEF latest, Run
      <4> QED BY <3>2, <3>3
    <3> QED BY <1>1, <2>3, <3>4
  <2>7. CASE k = m
    <3>1. LastBefore(new, m) = {j}
      <4> HIDE DEF new
      <4>1. \A i \in new : i \in 1..m BY <1>3
      <4> QED BY <2>2, <2>4, <2>7, <4>1 DEF LastBefore
    <3>2. last = {p[k].squawk} BY <2>3, <3>1
    <3> DEFINE end == [at |-> p[m].at, code |-> p[k].squawk]
    <3>3. end \in all /\ end.at = p[m].at /\ end.code = p[k].squawk BY <3>2
    <3>4. \A run \in all : run = end \/ \E i \in new : run = Run(i) BY <3>2
    <3>5. \A i \in new : Run(i).at = p[i].at /\ Run(i).code = p[i].squawk OBVIOUS
    <3>6. p[m].at <= t BY <1>8, <2>7
    <3>7. end \in runs BY <3>3, <3>6
    <3>8. ASSUME NEW d \in runs PROVE d.at <= p[m].at
      <4>1. d \in all OBVIOUS
      <4>2. ASSUME NEW i \in new, d = Run(i) PROVE d.at <= p[m].at
        <5>1. d.at = p[i].at /\ i \in 1..m BY <1>3, <4>2
        <5> HIDE DEF new, runs, all
        <5> QED BY <1>2, <5>1
      <4>3. ASSUME d = end PROVE d.at <= p[m].at
        <5>1. d.at = p[m].at BY <4>3
        <5>2. p[m].at \in Int BY <1>2
        <5> HIDE DEF end, runs
        <5> QED BY <5>1, <5>2
      <4> QED BY <3>4, <4>1, <4>2, <4>3
    <3>9. end \in latest
      <4> HIDE DEF end, runs
      <4> QED BY <3>3, <3>7, <3>8
    <3>10. ASSUME NEW c \in latest PROVE c.code = p[k].squawk
      <4>1. c \in runs /\ c \in all /\ \A d \in runs : d.at <= c.at OBVIOUS
      <4>2. p[m].at <= c.at
        <5> HIDE DEF end, runs, latest
        <5> QED BY <3>3, <3>7, <4>1
      <4>3. ASSUME NEW i \in new, c = Run(i) PROVE c.code = p[k].squawk
        <5>1. i \in 1..m /\ c.at = p[i].at /\ c.code = p[i].squawk BY <1>3, <3>5, <4>3
        <5>2. i = m
          <6> HIDE DEF new, runs, latest
          <6> QED BY <1>2, <4>2, <5>1
        <5> QED BY <2>7, <5>1, <5>2
      <4> HIDE DEF end
      <4> QED BY <3>3, <3>4, <4>1, <4>3
    <3>11. UNION {run.code : run \in latest} = p[k].squawk
      <4> HIDE DEF latest, end
      <4> QED BY <3>3, <3>9, <3>10
    <3> QED BY <1>1, <3>11
  <2> QED BY <2>6, <2>7
<1> QED BY <1>9, <1>10

-----------------------------------------------------------------------------
(* simplify_flight and simplify_series. *)

(* What is between two places is a place. *)
LEMMA BetweenIn == ASSUME NEW n \in Nat, NEW a \in 1..n, NEW b \in 1..n PROVE Between(a, b) \subseteq 1..n
BY DEF Between

(* A deviation from a line is a number. *)
LEMMA LinearType ==
    ASSUME NEW n \in Nat, NEW s, \A i \in 1..n : s[i].at \in Int, NEW v, \A i \in 1..n : v[i] \in Int,
           NEW p \in 1..n, NEW a \in 1..n, NEW b \in 1..n
    PROVE  Linear(s, v, p, a, b) \in Int
<1> DEFINE x == v[p] - v[a] y == Span(s, a, b) z == v[b] - v[a] w == Span(s, a, p)
<1>1. x \in Int /\ z \in Int OBVIOUS
<1>2. y \in Int /\ w \in Int BY DEF Span
<1>3. Linear(s, v, p, a, b) = Abs(x * y - z * w) BY DEF Linear
<1> HIDE DEF x, y, z, w
<1>4. x * y \in Int /\ z * w \in Int BY <1>1, <1>2
<1> DEFINE e == x * y g == z * w
<1>5. e \in Int /\ g \in Int /\ Linear(s, v, p, a, b) = Abs(e - g) BY <1>3, <1>4
<1> HIDE DEF e, g
<1> QED BY <1>5 DEF Abs

(* Any three samples are a triple. *)
LEMMA TriplesOf ==
    ASSUME NEW n, NEW s, DOMAIN s = 1..n, NEW p \in 1..n, NEW a \in 1..n, NEW b \in 1..n
    PROVE  /\ <<p, a, b>> \in Triples(s)
           /\ <<p, a, b>>[1] = p /\ <<p, a, b>>[2] = a /\ <<p, a, b>>[3] = b
BY DEF Triples

(* A tolerance that is the same everywhere. *)
LEMMA EverywhereType ==
    ASSUME NEW n, NEW s, DOMAIN s = 1..n, NEW t \in Nat \ {0}
    PROVE  \A p \in 1..n : Everywhere(s, t)[p] \in Nat \ {0}
BY DEF Everywhere

(* The two passes of simplify_flight measure numbers. *)
LEMMA MeasuredAltAndPlace ==
    ASSUME NEW n \in Nat, NEW s, AreSamples(s, n)
    PROVE  /\ Measured(n, OffAlt(s), Everywhere(s, AltitudeTolerance))
           /\ Measured(n, OffPlace(s), Everywhere(s, SpatialTolerance))
           /\ \A p, a, b \in 1..n :
                  OffPlace(s)[<<p, a, b>>] = Linear(s, [i \in 1..n |-> s[i].place], p, a, b)
           /\ [i \in 1..n |-> s[i].place] \in [1..n -> Int]
<1>1. /\ DOMAIN s = 1..n /\ (\A i \in 1..n : s[i].at \in Int)
      /\ \A i \in 1..n : s[i].alt \in Int /\ s[i].place \in Int
  BY DEF AreSamples, InTime
<1> DEFINE alts == [i \in 1..n |-> s[i].alt] places == [i \in 1..n |-> s[i].place]
<1>2. (\A i \in 1..n : alts[i] \in Int /\ places[i] \in Int) /\ places \in [1..n -> Int] BY <1>1
<1>3. ASSUME NEW p \in 1..n, NEW a \in 1..n, NEW b \in 1..n
      PROVE  /\ OffAlt(s)[<<p, a, b>>] = Linear(s, alts, p, a, b)
             /\ OffPlace(s)[<<p, a, b>>] = Linear(s, places, p, a, b)
  <2> DEFINE t == <<p, a, b>>
  <2>1. t \in Triples(s) /\ t[1] = p /\ t[2] = a /\ t[3] = b BY <1>1, TriplesOf
  <2> HIDE DEF t, alts, places
  <2>2. OffAlt(s)[t] = Linear(s, alts, t[1], t[2], t[3]) BY <1>1, <2>1 DEF OffAlt, alts
  <2>3. OffPlace(s)[t] = Linear(s, places, t[1], t[2], t[3]) BY <1>1, <2>1 DEF OffPlace, places
  <2>4. OffAlt(s)[t] = Linear(s, alts, p, a, b) /\ OffPlace(s)[t] = Linear(s, places, p, a, b)
    BY <2>1, <2>2, <2>3
  <2> QED BY <2>4 DEF t
<1> HIDE DEF alts, places
<1>4. \A p, a, b \in 1..n : Linear(s, alts, p, a, b) \in Int /\ Linear(s, places, p, a, b) \in Int
  BY <1>1, <1>2, LinearType
<1>5. \A p \in 1..n : /\ Everywhere(s, AltitudeTolerance)[p] \in Nat \ {0}
                      /\ Everywhere(s, SpatialTolerance)[p] \in Nat \ {0}
  BY <1>1, SimplificationConstants, EverywhereType
<1>6. \A p, a, b \in 1..n : OffAlt(s)[<<p, a, b>>] \in Int /\ OffPlace(s)[<<p, a, b>>] \in Int
  BY <1>3, <1>4
<1>7. /\ Measured(n, OffAlt(s), Everywhere(s, AltitudeTolerance))
      /\ Measured(n, OffPlace(s), Everywhere(s, SpatialTolerance))
  BY <1>5, <1>6, BetweenIn DEF Measured
<1> QED BY <1>2, <1>3, <1>7 DEF places

(* What is kept of a flight: its anchors, and enough that neither an       *)
(* altitude nor a place that is left out is off by too much.               *)
LEMMA SimplifiedFlight ==
    ASSUME NEW n \in Nat, n >= 2, NEW s, Len(s) = n, AreSamples(s, n)
    PROVE  /\ Anchors(s) \subseteq SimplifyFlight(s) /\ SimplifyFlight(s) \subseteq 1..n
           /\ Within(s, SimplifyFlight(s), OffAlt(s), Everywhere(s, AltitudeTolerance))
           /\ Within(s, SimplifyFlight(s), OffPlace(s), Everywhere(s, 2 * SpatialTolerance))
<1> DEFINE A == Anchors(s) P == SpatialPass(s) K == SimplifyFlight(s)
           alt == Everywhere(s, AltitudeTolerance) spatial == Everywhere(s, SpatialTolerance)
<1>1. DOMAIN s = 1..n BY DEF AreSamples, InTime
<1>2. A \subseteq 1..n /\ 1 \in A /\ n \in A BY DEF Anchors
<1>3. CASE n <= 2
  <2>1. K = 1..n BY <1>1, <1>3 DEF SimplifyFlight
  <2> HIDE DEF A, K
  <2>2. DOMAIN s \ K = {} BY <1>1, <2>1
  <2>3. Within(s, K, OffAlt(s), alt) /\ Within(s, K, OffPlace(s), Everywhere(s, 2 * SpatialTolerance))
    BY <2>2 DEF Within
  <2>4. A \subseteq K /\ K \subseteq 1..n BY <1>2, <2>1
  <2> QED BY <2>3, <2>4 DEF A, K
<1>4. CASE ~(n <= 2)
  <2>1. K = Refined(s, OffAlt(s), alt, P) BY <1>4 DEF SimplifyFlight
  <2>2. P = Refined(s, OffPlace(s), spatial, A) BY DEF SpatialPass
  <2>3. /\ Measured(n, OffAlt(s), alt) /\ Measured(n, OffPlace(s), spatial)
        /\ \A p, a, b \in 1..n :
               OffPlace(s)[<<p, a, b>>] = Linear(s, [i \in 1..n |-> s[i].place], p, a, b)
        /\ [i \in 1..n |-> s[i].place] \in [1..n -> Int]
    BY MeasuredAltAndPlace
  <2> HIDE DEF A, P, K, alt, spatial
  <2>4. A \subseteq P /\ P \subseteq 1..n /\ Within(s, P, OffPlace(s), spatial)
    BY <1>1, <1>2, <2>2, <2>3, RefinedWithin
  <2>5. 1 \in P /\ n \in P BY <1>2, <2>4
  <2>6. P \subseteq K /\ K \subseteq 1..n /\ Within(s, K, OffAlt(s), alt)
    BY <1>1, <2>1, <2>3, <2>4, <2>5, RefinedWithin
  <2>7. /\ \A i \in 1..n : s[i].at \in Int
        /\ \A i, j \in 1..n : i < j => s[i].at < s[j].at
    BY DEF AreSamples, InTime
  <2>8. SpatialTolerance \in Nat BY SimplificationConstants
  <2> DEFINE v == [i \in 1..n |-> s[i].place] dev == OffPlace(s)
  <2>9. v \in [1..n -> Int] /\ \A p, a, b \in 1..n : dev[<<p, a, b>>] = Linear(s, v, p, a, b)
    BY <2>3
  <2>10. Within(s, P, dev, Everywhere(s, SpatialTolerance)) BY <2>4 DEF spatial
  <2> HIDE DEF v, dev
  <2>11. Within(s, K, dev, Everywhere(s, 2 * SpatialTolerance))
    BY <1>1, <2>4, <2>5, <2>6, <2>7, <2>8, <2>9, <2>10, WithinTwice
  <2> QED BY <2>4, <2>6, <2>11 DEF A, K, alt, dev
<1> QED BY <1>3, <1>4

(* The last sample that is kept has the code of a sample, since it has not *)
(* changed in between.                                                     *)
LEMMA CodeKept ==
    ASSUME NEW n \in Nat, n >= 2, NEW s, Len(s) = n, NEW K \in SUBSET (1..n),
           Anchors(s) \subseteq K, NEW i \in 1..n, NEW a \in LastBefore(K, i)
    PROVE  s[a].squawk = s[i].squawk
<1> DEFINE A == {d \in Nat : a + d <= i => s[a + d].squawk = s[a].squawk}
<1>1. a \in 1..n /\ a <= i /\ \A c \in K : c <= i => c <= a BY DEF LastBefore
<1>2. 0 \in A BY <1>1
<1>3. ASSUME NEW d \in Nat, d \in A PROVE d + 1 \in A
  <2> SUFFICES ASSUME a + (d + 1) <= i PROVE s[a + (d + 1)].squawk = s[a].squawk OBVIOUS
  <2> DEFINE j == a + (d + 1)
  <2>1. j \in 2..n /\ j - 1 = a + d /\ j \notin K BY <1>1
  <2>2. s[j].squawk = s[j - 1].squawk
    <3> HIDE DEF j
    <3> QED BY <2>1 DEF Anchors
  <2>3. s[a + d].squawk = s[a].squawk BY <1>1, <1>3
  <2> QED BY <2>1, <2>2, <2>3
<1>4. Nat \subseteq A
  <2> HIDE DEF A
  <2> QED BY <1>2, <1>3, SetInduction
<1>5. i - a \in A BY <1>1, <1>4
<1> QED BY <1>1, <1>5

(* Hence the runs of the vertices give every sample its code.              *)
LEMMA CodesKept ==
    ASSUME NEW n \in Nat, n >= 2, NEW s, Len(s) = n, AreSamples(s, n), NEW K \in SUBSET (1..n),
           Anchors(s) \subseteq K, NEW i \in 1..n
    PROVE  s[i].squawk = CodeAt(Picked(s, K), s[i].at)
<1> DEFINE p == Picked(s, K) m == Cardinality(K) N(k) == Nth(K, k)
<1>1. 1 \in K /\ n \in K BY DEF Anchors
<1>2. /\ m \in Nat /\ (\A k \in 1..m : N(k) \in K /\ N(k) \in 1..n)
      /\ (\A k, l \in 1..m : k < l => N(k) < N(l)) /\ (\A j \in K : \E k \in 1..m : N(k) = j)
  BY NthKept
<1>3. AreSamples(p, m) BY <1>2, PickedType
<1>4. DOMAIN p = 1..m /\ (\A k \in 1..m : p[k] = s[N(k)]) BY DEF Picked
<1>5. PICK a \in K : a \in LastBefore(K, i)
  <2>1. K \in SUBSET Nat OBVIOUS
  <2> QED BY <1>1, <2>1, KeptBefore
<1> HIDE DEF p, m, N
<1>6. a <= i /\ a \in 1..n /\ \A c \in K : c <= i => c <= a BY <1>5 DEF LastBefore
<1>7. PICK k \in 1..m : N(k) = a BY <1>2, <1>5
<1>8. s[a].squawk = s[i].squawk BY <1>5, CodeKept
<1>9. /\ \A j \in 1..n : s[j].at \in Int
      /\ \A j, l \in 1..n : j < l => s[j].at < s[l].at
  BY DEF AreSamples, InTime
<1>10. p[k].at <= s[i].at
  <2>1. s[a].at <= s[i].at BY <1>6, <1>9
  <2> QED BY <1>4, <1>7, <2>1
<1>11. ASSUME k < m PROVE s[i].at < p[k + 1].at
  <2>1. k + 1 \in 1..m /\ N(k) < N(k + 1) BY <1>2, <1>11
  <2>2. N(k + 1) \in K /\ N(k + 1) \in 1..n BY <1>2, <2>1
  <2>3. i < N(k + 1) BY <1>6, <1>7, <2>1, <2>2
  <2>4. s[i].at < s[N(k + 1)].at BY <1>9, <2>2, <2>3
  <2> QED BY <1>4, <2>1, <2>4
<1>12. Len(p) = m BY <1>2, <1>4
<1>13. p[k].squawk = s[i].squawk BY <1>4, <1>7, <1>8
<1> DEFINE t == s[i].at
<1>14. t \in Int /\ p[k].at <= t /\ (k < m => t < p[k + 1].at) BY <1>9, <1>10, <1>11
<1> HIDE DEF t
<1>15. p[k].squawk = CodeAt(p, t)
  BY <1>2, <1>3, <1>12, <1>14, RunsRead
<1> QED BY <1>13, <1>15 DEF t, p

(* A deviation on the circle is a number. *)
LEMMA AroundType ==
    ASSUME NEW n \in Nat, NEW s, InTime(s, n), NEW a \in 1..n, NEW b \in 1..n, a < b, NEW p \in 1..n,
           The(s[p].track) \in Int, The(s[a].track) \in Int, The(s[b].track) \in Int
    PROVE  Around(s, p, a, b) \in Int
<1>1. s[a].at \in Int /\ s[b].at \in Int /\ s[p].at \in Int /\ s[a].at < s[b].at BY DEF InTime
<1> DEFINE u == Span(s, a, b) w == Span(s, a, p) arc == Arc(The(s[a].track), The(s[b].track))
           x == The(s[p].track) y == The(s[a].track) turn == Circle * u
           on == y * u + arc * w
           off == (x * u - on) % turn
<1>2. u \in Nat \ {0} /\ w \in Int BY <1>1 DEF Span
<1>3. arc \in Int /\ x \in Int /\ y \in Int BY ArcType
<1>4. Around(s, p, a, b) = IF 2 * off <= turn THEN off ELSE turn - off BY DEF Around
<1> HIDE DEF u, w, arc, x, y
<1>5. turn \in Nat \ {0}
  <2>1. Circle \in Nat \ {0} BY SimplificationConstants
  <2> QED BY <1>2, <2>1
<1>6. x * u \in Int /\ y * u \in Int /\ arc * w \in Int BY <1>2, <1>3
<1>7. on \in Int
  <2> DEFINE f == y * u g == arc * w
  <2>1. f \in Int /\ g \in Int /\ on = f + g BY <1>6
  <2> HIDE DEF f, g, on
  <2> QED BY <2>1
<1> DEFINE xu == x * u
<1>8. xu \in Int /\ off = (xu - on) % turn BY <1>6
<1> HIDE DEF xu, on, turn, off
<1>9. xu - on \in Int BY <1>7, <1>8
<1>10. off \in Int BY <1>5, <1>8, <1>9
<1> QED BY <1>4, <1>5, <1>10

(* Ends of a column with samples. *)
LEMMA EndsOf ==
    ASSUME NEW n \in Nat \ {0}, NEW s, Len(s) = n, DOMAIN s = 1..n
    PROVE  Ends(s) \subseteq 1..n /\ 1 \in Ends(s) /\ n \in Ends(s)
BY DEF Ends

(* A series whose values are all reported is as good as its tolerance.     *)
LEMMA SpeedWithin ==
    ASSUME NEW n \in Nat \ {0}, NEW s, Len(s) = n, AreSamples(s, n), AllReport("gs", s, DOMAIN s)
    PROVE  Within(s, SpeedKept(s), OffSpeed(s), Everywhere(s, SpeedTolerance))
<1> DEFINE tol == Everywhere(s, SpeedTolerance) dev == OffSpeed(s) K == Ends(s)
           v == [i \in DOMAIN s |-> The(s[i].gs)]
<1>1. /\ DOMAIN s = 1..n /\ (\A i \in 1..n : s[i].at \in Int)
      /\ \A i \in 1..n : s[i].gs \subseteq Int
  BY DEF AreSamples, InTime
<1>2. \A i \in 1..n : s[i].gs # {} BY <1>1 DEF AllReport
<1>3. \A i \in 1..n : The(s[i].gs) \in Int
  <2> TAKE i \in 1..n
  <2> DEFINE x == s[i].gs
  <2>1. x # {} /\ x \subseteq Int BY <1>1, <1>2
  <2> HIDE DEF x
  <2>2. The(x) \in Int BY <2>1 DEF The
  <2> QED BY <2>2 DEF x
<1>4. \A i \in 1..n : v[i] \in Int BY <1>1, <1>3
<1>5. ASSUME NEW p \in 1..n, NEW a \in 1..n, NEW b \in 1..n
      PROVE  dev[<<p, a, b>>] \in Int
  <2> DEFINE t == <<p, a, b>>
  <2>1. t \in Triples(s) /\ t[1] = p /\ t[2] = a /\ t[3] = b BY <1>1, TriplesOf
  <2> HIDE DEF t, v
  <2>2. dev[t] = IF AllReport("gs", s, {t[1], t[2], t[3]}) THEN Linear(s, v, t[1], t[2], t[3]) ELSE 0
    BY <2>1 DEF OffSpeed, v
  <2>3. Linear(s, v, p, a, b) \in Int BY <1>1, <1>4, LinearType
  <2> HIDE DEF dev
  <2>4. dev[t] \in Int BY <2>1, <2>2, <2>3
  <2> QED BY <2>4 DEF t
<1>6. \A p \in 1..n : tol[p] \in Nat \ {0} BY <1>1, SimplificationConstants, EverywhereType
<1>7. 1 \in K /\ n \in K /\ K \subseteq 1..n BY <1>1, EndsOf
<1>8. SpeedKept(s) = Reported(s, Refined(s, dev, tol, K), "gs") BY DEF SpeedKept
<1> HIDE DEF dev, tol, K, v
<1>9. Measured(n, dev, tol) BY <1>5, <1>6, BetweenIn DEF Measured
<1> DEFINE R == Refined(s, dev, tol, K)
<1>10. R \subseteq 1..n /\ Within(s, R, dev, tol) BY <1>1, <1>7, <1>9, RefinedWithin
<1> HIDE DEF R
<1>11. Reported(s, R, "gs") = R BY <1>2, <1>10 DEF Reported
<1>12. Within(s, SpeedKept(s), dev, tol) BY <1>8, <1>10, <1>11 DEF R
<1> QED BY <1>12 DEF dev, tol

(* The same of the tracks. *)
LEMMA TrackWithin ==
    ASSUME NEW n \in Nat \ {0}, NEW s, Len(s) = n, AreSamples(s, n), AllReport("track", s, DOMAIN s)
    PROVE  Within(s, TrackKept(s), OffTrack(s), Everywhere(s, TrackTolerance))
<1> DEFINE tol == Everywhere(s, TrackTolerance) dev == OffTrack(s) K == Ends(s)
<1>1. DOMAIN s = 1..n /\ InTime(s, n) /\ \A i \in 1..n : s[i].track \subseteq Int
  BY DEF AreSamples, InTime
<1>2. \A i \in 1..n : s[i].track # {} BY <1>1 DEF AllReport
<1>3. \A i \in 1..n : The(s[i].track) \in Int
  <2> TAKE i \in 1..n
  <2> DEFINE x == s[i].track
  <2>1. x # {} /\ x \subseteq Int BY <1>1, <1>2
  <2> HIDE DEF x
  <2>2. The(x) \in Int BY <2>1 DEF The
  <2> QED BY <2>2 DEF x
<1>5. ASSUME NEW a \in 1..n, NEW b \in 1..n, NEW p \in Between(a, b)
      PROVE  dev[<<p, a, b>>] \in Int
  <2> DEFINE t == <<p, a, b>>
  <2>0. p \in 1..n /\ a < b BY BetweenIn DEF Between
  <2>1. t \in Triples(s) /\ t[1] = p /\ t[2] = a /\ t[3] = b BY <1>1, <2>0, TriplesOf
  <2> HIDE DEF t
  <2>2. dev[t] = IF AllReport("track", s, {t[1], t[2], t[3]}) THEN Around(s, t[1], t[2], t[3]) ELSE 0
    BY <2>1 DEF OffTrack
  <2>3. Around(s, p, a, b) \in Int BY <1>1, <1>3, <2>0, AroundType
  <2> HIDE DEF dev
  <2>4. dev[t] \in Int BY <2>1, <2>2, <2>3
  <2> QED BY <2>4 DEF t
<1>6. \A p \in 1..n : tol[p] \in Nat \ {0} BY <1>1, SimplificationConstants, EverywhereType
<1>7. 1 \in K /\ n \in K /\ K \subseteq 1..n BY <1>1, EndsOf
<1>8. TrackKept(s) = Reported(s, Refined(s, dev, tol, K), "track") BY DEF TrackKept
<1> HIDE DEF dev, tol, K
<1>9. Measured(n, dev, tol) BY <1>5, <1>6 DEF Measured
<1> DEFINE R == Refined(s, dev, tol, K)
<1>10. R \subseteq 1..n /\ Within(s, R, dev, tol) BY <1>1, <1>7, <1>9, RefinedWithin
<1> HIDE DEF R
<1>11. Reported(s, R, "track") = R BY <1>2, <1>10 DEF Reported
<1>12. Within(s, TrackKept(s), dev, tol) BY <1>8, <1>10, <1>11 DEF R
<1> QED BY <1>12 DEF dev, tol

(* Heights above ground, whatever they are computed from. *)
LEMMA HeightsWithin ==
    ASSUME NEW n \in Nat \ {0}, NEW s, Len(s) = n, DOMAIN s = 1..n,
           \A i \in 1..n : s[i].at \in Int /\ s[i].agl \in Int
    PROVE  Within(s, AglKept(s), OffHeight(s), Tolerances(s))
<1> DEFINE tol == Tolerances(s) dev == OffHeight(s) K == Ends(s)
           v == [i \in DOMAIN s |-> s[i].agl]
<1>1. AglFraction \in Nat \ {0} /\ AglTolerance \in Nat \ {0} BY SimplificationConstants
<1>2. \A i \in 1..n : v[i] \in Int OBVIOUS
<1>3. ASSUME NEW p \in 1..n, NEW a \in 1..n, NEW b \in 1..n
      PROVE  dev[<<p, a, b>>] \in Int
  <2> DEFINE t == <<p, a, b>>
  <2>1. t \in Triples(s) /\ t[1] = p /\ t[2] = a /\ t[3] = b BY TriplesOf
  <2> HIDE DEF t, v
  <2>2. dev[t] = AglFraction * Linear(s, v, t[1], t[2], t[3])
    BY <2>1 DEF OffHeight, v
  <2>3. Linear(s, v, p, a, b) \in Int BY <1>2, LinearType
  <2> DEFINE l == Linear(s, v, p, a, b)
  <2>4. dev[t] = AglFraction * l /\ l \in Int BY <2>1, <2>2, <2>3
  <2> HIDE DEF dev, l
  <2>5. dev[t] \in Int BY <1>1, <2>4
  <2> QED BY <2>5 DEF t
<1>4. \A p \in 1..n : tol[p] \in Nat \ {0}
  <2> TAKE p \in 1..n
  <2> DEFINE c == AglTolerance * AglFraction g == s[p].agl
  <2>1. tol[p] = IF g < c THEN c ELSE g BY DEF Tolerances
  <2>2. c \in Nat \ {0} BY <1>1
  <2>3. g \in Int OBVIOUS
  <2> HIDE DEF c, g, tol
  <2> QED BY <2>1, <2>2, <2>3
<1>5. 1 \in K /\ n \in K /\ K \subseteq 1..n BY EndsOf
<1>6. AglKept(s) = Refined(s, dev, tol, K) BY DEF AglKept
<1> HIDE DEF dev, tol, K, v
<1>7. Measured(n, dev, tol) BY <1>3, <1>4, BetweenIn DEF Measured
<1>8. Within(s, AglKept(s), dev, tol) BY <1>5, <1>6, <1>7, RefinedWithin
<1> QED BY <1>8 DEF dev, tol

-----------------------------------------------------------------------------
(* Sequences one after the other. *)

(* The function that FlattenSeq is defined by *)
Flat(f, seqs, m) == f = [i \in 1..m |-> IF i = 1 THEN seqs[i] ELSE f[i - 1] \o seqs[i]]

(* exists, *)
LEMMA FlatExists == ASSUME NEW m \in Nat, NEW seqs PROVE \E f : Flat(f, seqs, m)
<1> DEFINE Next1(f, i) == IF i = 1 THEN seqs[i] ELSE f[i - 1] \o seqs[i]
           A == {k \in Nat : \E f : \A i \in 1..k : f[i] = Next1(f, i)}
<1>1. 0 \in A OBVIOUS
<1>2. ASSUME NEW k \in Nat, k \in A PROVE k + 1 \in A
  <2>1. PICK f : \A i \in 1..k : f[i] = Next1(f, i) BY <1>2
  <2> DEFINE g == [i \in 1..(k + 1) |-> IF i <= k THEN f[i] ELSE Next1(f, i)]
  <2>2. \A i \in 1..(k + 1) : g[i] = Next1(g, i)
    <3> TAKE i \in 1..(k + 1)
    <3>1. g[i] = Next1(f, i) BY <2>1
    <3>2. i # 1 => g[i - 1] = f[i - 1] OBVIOUS
    <3> QED BY <3>1, <3>2
  <2> HIDE DEF g, Next1
  <2>3. \E h : \A i \in 1..(k + 1) : h[i] = Next1(h, i) BY <2>2
  <2> QED BY <2>3
<1>3. m \in A
  <2> HIDE DEF A
  <2> QED BY <1>1, <1>2, SetInduction
<1>4. PICK f : \A i \in 1..m : f[i] = Next1(f, i) BY <1>3
<1> DEFINE g == [i \in 1..m |-> f[i]]
<1>5. \A i \in 1..m : Next1(g, i) = f[i]
  <2> TAKE i \in 1..m
  <2>1. i # 1 => g[i - 1] = f[i - 1] OBVIOUS
  <2> QED BY <1>4, <2>1
<1>6. Flat(g, seqs, m) BY <1>5 DEF Flat
<1> QED BY <1>6

(* and is the same for all sequences that begin alike. *)
LEMMA FlatUnique ==
    ASSUME NEW m \in Nat, NEW j \in 0..m, NEW seqs, NEW part, NEW f, NEW g,
           Flat(f, seqs, m), Flat(g, part, j), \A i \in 1..j : part[i] = seqs[i]
    PROVE  \A i \in 1..j : g[i] = f[i]
<1> DEFINE A == {k \in Nat : k + 1 \in 1..j => g[k + 1] = f[k + 1]}
<1>0. /\ \A i \in 1..m : f[i] = IF i = 1 THEN seqs[i] ELSE f[i - 1] \o seqs[i]
      /\ \A i \in 1..j : g[i] = IF i = 1 THEN part[i] ELSE g[i - 1] \o part[i]
  BY DEF Flat
<1>1. 0 \in A BY <1>0
<1>2. ASSUME NEW k \in Nat, k \in A PROVE k + 1 \in A
  <2> SUFFICES ASSUME k + 2 \in 1..j PROVE g[k + 2] = f[k + 2] OBVIOUS
  <2>1. g[k + 1] = f[k + 1] BY <1>2
  <2>2. k + 2 \in 1..m /\ k + 2 # 1 /\ (k + 2) - 1 = k + 1 OBVIOUS
  <2> QED BY <1>0, <2>1, <2>2
<1>3. Nat \subseteq A
  <2> HIDE DEF A
  <2> QED BY <1>1, <1>2, SetInduction
<1> TAKE i \in 1..j
<1>4. i - 1 \in A BY <1>3
<1> QED BY <1>4

(* What a sequence of sequences is flattened to, up to each of them.       *)
FlatTo(seqs, j) == FlattenSeq(SubSeq(seqs, 1, j))

(* They are appended one after the other. *)
LEMMA FlattenSteps ==
    ASSUME NEW T, NEW seqs \in Seq(Seq(T))
    PROVE  /\ FlatTo(seqs, 0) = <<>>
           /\ FlatTo(seqs, Len(seqs)) = FlattenSeq(seqs)
           /\ \A j \in 1..Len(seqs) :
                  FlatTo(seqs, j) = IF j = 1 THEN seqs[1] ELSE FlatTo(seqs, j - 1) \o seqs[j]
<1> DEFINE m == Len(seqs)
<1>1. FlatTo(seqs, 0) = <<>>
  <2>1. SubSeq(seqs, 1, 0) = <<>> OBVIOUS
  <2>2. Len(<<>>) = 0 OBVIOUS
  <2> QED BY <2>1, <2>2 DEF FlatTo, FlattenSeq
<1>2. FlatTo(seqs, m) = FlattenSeq(seqs)
  <2>1. SubSeq(seqs, 1, m) = seqs OBVIOUS
  <2> QED BY <2>1 DEF FlatTo
<1>3. PICK f : Flat(f, seqs, m) BY FlatExists
<1>4. ASSUME NEW j \in 1..m PROVE FlatTo(seqs, j) = f[j]
  <2> DEFINE part == SubSeq(seqs, 1, j)
             g == CHOOSE h : Flat(h, part, Len(part))
  <2>1. Len(part) = j /\ \A i \in 1..j : part[i] = seqs[i] OBVIOUS
  <2> HIDE DEF part
  <2>2. Flat(g, part, j)
    <3>0. j \in Nat OBVIOUS
    <3>1. \E h : Flat(h, part, j) BY <3>0, FlatExists
    <3> QED BY <2>1, <3>1
  <2>3. FlattenSeq(part) = g[j] BY <2>1 DEF FlattenSeq, Flat
  <2> HIDE DEF g
  <2>4. g[j] = f[j] BY <1>3, <2>1, <2>2, FlatUnique
  <2> QED BY <2>3, <2>4 DEF FlatTo, part
<1>5. ASSUME NEW j \in 1..m
      PROVE  FlatTo(seqs, j) = IF j = 1 THEN seqs[1] ELSE FlatTo(seqs, j - 1) \o seqs[j]
  <2>1. f[j] = IF j = 1 THEN seqs[j] ELSE f[j - 1] \o seqs[j] BY <1>3 DEF Flat
  <2>2. j # 1 => FlatTo(seqs, j - 1) = f[j - 1] BY <1>4
  <2>3. FlatTo(seqs, j) = f[j] BY <1>4
  <2> QED BY <2>1, <2>2, <2>3
<1> QED BY <1>1, <1>2, <1>5

(* Where the elements of the sequences come to be.                         *)
Before(seqs, l) == Len(FlatTo(seqs, l - 1))

(* An element of a sequence follows all those of the sequences before it. *)
LEMMA FlattenPlaces ==
    ASSUME NEW T, NEW seqs \in Seq(Seq(T))
    PROVE  /\ FlattenSeq(seqs) \in Seq(T)
           /\ Len(FlattenSeq(seqs)) = Before(seqs, Len(seqs) + 1)
           /\ Before(seqs, 1) = 0
           /\ \A l \in 1..Len(seqs) : /\ Before(seqs, l) \in Nat
                                      /\ Before(seqs, l + 1) = Before(seqs, l) + Len(seqs[l])
                                      /\ Before(seqs, l + 1) <= Len(FlattenSeq(seqs))
           /\ \A l \in 1..Len(seqs) : \A k \in 1..Len(seqs[l]) :
                  FlattenSeq(seqs)[Before(seqs, l) + k] = seqs[l][k]
           /\ \A x \in 1..Len(FlattenSeq(seqs)) :
                  \E l \in 1..Len(seqs) : \E k \in 1..Len(seqs[l]) : x = Before(seqs, l) + k
<1> DEFINE m == Len(seqs) F(j) == FlatTo(seqs, j) B(l) == Before(seqs, l)
           Good(j) == /\ F(j) \in Seq(T) /\ Len(F(j)) = B(j + 1)
                      /\ \A l \in 1..j : /\ B(l) \in Nat /\ B(l + 1) = B(l) + Len(seqs[l])
                                         /\ B(l + 1) <= B(j + 1)
                                         /\ \A k \in 1..Len(seqs[l]) : F(j)[B(l) + k] = seqs[l][k]
                      /\ \A x \in 1..Len(F(j)) : \E l \in 1..j : \E k \in 1..Len(seqs[l]) : x = B(l) + k
           A == {j \in Nat : j <= m => Good(j)}
<1>1. m \in Nat /\ \A l \in 1..m : seqs[l] \in Seq(T) OBVIOUS
<1>2. F(0) = <<>> /\ F(m) = FlattenSeq(seqs)
      /\ \A j \in 1..m : F(j) = IF j = 1 THEN seqs[1] ELSE F(j - 1) \o seqs[j]
  BY FlattenSteps
<1>3. \A j \in 0..m : B(j + 1) = Len(F(j)) BY DEF Before
<1>4. B(1) = 0 BY <1>1, <1>2, <1>3
<1>5. 0 \in A
  <2>0. <<>> \in Seq(T) /\ Len(<<>>) = 0 OBVIOUS
  <2>1. F(0) \in Seq(T) /\ Len(F(0)) = 0 BY <1>2, <2>0
  <2> HIDE DEF F, B
  <2> QED BY <1>4, <2>1
<1>6. ASSUME NEW j \in Nat, j \in A PROVE j + 1 \in A
  <2> SUFFICES ASSUME j + 1 <= m PROVE Good(j + 1) OBVIOUS
  <2> DEFINE s == seqs[j + 1]
  <2>1. Good(j)
    <3> HIDE DEF Good
    <3>1. j <= m BY <1>1
    <3> QED BY <1>6, <3>1
  <2>2. j + 1 \in 1..m /\ j \in 0..m BY <1>1
  <2>3. s \in Seq(T) BY <1>1, <2>2
  <2>4. F(j + 1) = F(j) \o s
    <3>1. CASE j = 0
      <4>1. 1 \in 1..m BY <2>2, <3>1
      <4> HIDE DEF F
      <4>2. F(0) = <<>> /\ F(1) = seqs[1] BY <1>2, <4>1
      <4>3. F(j) = <<>> /\ F(j + 1) = s BY <3>1, <4>2
      <4> HIDE DEF s
      <4>4. <<>> \o s = s BY <2>3
      <4> QED BY <4>3, <4>4
    <3>2. CASE j # 0
      <4> DEFINE i == j + 1
      <4>1. i \in 1..m /\ i # 1 /\ i - 1 = j BY <2>2, <3>2
      <4> HIDE DEF F, i
      <4>2. F(i) = F(i - 1) \o seqs[i] BY <1>2, <4>1
      <4> QED BY <4>1, <4>2 DEF i
    <3> QED BY <3>1, <3>2
  <2>5. B(j + 2) = Len(F(j + 1)) /\ B(j + 1) = Len(F(j)) BY <1>3, <2>2
  <2> HIDE DEF F, B, s, A
  <2>6. F(j) \in Seq(T) BY <2>1
  <2> DEFINE u == F(j) v == F(j + 1)
  <2>13. u \in Seq(T) /\ v = u \o s BY <2>4, <2>6
  <2> HIDE DEF u, v
  <2>14. v \in Seq(T) /\ Len(v) = Len(u) + Len(s) /\ Len(u) \in Nat /\ Len(s) \in Nat BY <2>3, <2>13
  <2>15. /\ \A x \in 1..Len(u) : v[x] = u[x]
         /\ \A k \in 1..Len(s) : v[Len(u) + k] = s[k]
    BY <2>3, <2>13
  <2>7. F(j + 1) \in Seq(T) /\ Len(F(j + 1)) = Len(F(j)) + Len(s) BY <2>14 DEF u, v
  <2>8. Len(F(j)) \in Nat /\ Len(s) \in Nat BY <2>14 DEF u
  <2>9. /\ \A x \in 1..Len(F(j)) : F(j + 1)[x] = F(j)[x]
        /\ \A k \in 1..Len(s) : F(j + 1)[Len(F(j)) + k] = s[k]
    BY <2>15 DEF u, v
  <2>10. ASSUME NEW l \in 1..(j + 1)
         PROVE  /\ B(l) \in Nat /\ B(l + 1) = B(l) + Len(seqs[l]) /\ B(l + 1) <= B(j + 2)
                /\ \A k \in 1..Len(seqs[l]) : F(j + 1)[B(l) + k] = seqs[l][k]
    <3>1. CASE l = j + 1
      <4>1. seqs[l] = s /\ B(l) = Len(F(j)) /\ B(l + 1) = Len(F(j + 1)) /\ l + 1 = j + 2
        BY <2>5, <3>1 DEF s
      <4>2. B(l) \in Nat /\ B(l + 1) = B(l) + Len(seqs[l]) BY <2>7, <2>8, <4>1
      <4>3. B(l + 1) <= B(j + 2)
        <5>1. B(l + 1) \in Nat BY <2>7, <2>8, <4>1
        <5> QED BY <4>1, <5>1
      <4>4. \A k \in 1..Len(seqs[l]) : F(j + 1)[B(l) + k] = seqs[l][k] BY <2>9, <4>1
      <4> QED BY <4>2, <4>3, <4>4
    <3>2. CASE l # j + 1
      <4>1. l \in 1..j BY <3>2
      <4>2. /\ B(l) \in Nat /\ B(l + 1) = B(l) + Len(seqs[l]) /\ B(l + 1) <= B(j + 1)
            /\ \A k \in 1..Len(seqs[l]) : F(j)[B(l) + k] = seqs[l][k]
        BY <2>1, <4>1
      <4>3. l \in 1..m BY <1>1, <2>2, <4>1
      <4>4. Len(seqs[l]) \in Nat BY <1>1, <4>3
      <4>5. \A k \in 1..Len(seqs[l]) : B(l) + k \in 1..Len(F(j))
        <5> DEFINE b == B(l) c == Len(seqs[l]) d == Len(F(j))
        <5>1. b \in Nat /\ c \in Nat /\ d \in Nat BY <2>8, <4>2, <4>4
        <5>2. b + c <= d BY <2>5, <4>2
        <5> HIDE DEF b, c, d
        <5>3. \A k \in 1..c : b + k \in 1..d BY <5>1, <5>2
        <5> QED BY <5>3 DEF b, c, d
      <4>6. B(l + 1) <= B(j + 2)
        <5> DEFINE b == B(l + 1) c == B(j + 1) d == B(j + 2)
        <5>1. b \in Nat
          <6>1. B(l) \in Nat /\ B(l + 1) = B(l) + Len(seqs[l]) BY <4>2
          <6> QED BY <4>4, <6>1
        <5>2. c \in Nat /\ d = c + Len(s) BY <2>5, <2>7, <2>8
        <5>3. b <= c BY <4>2
        <5> HIDE DEF b, c, d
        <5>4. b <= d BY <2>8, <5>1, <5>2, <5>3
        <5> QED BY <5>4 DEF b, d
      <4>7. \A k \in 1..Len(seqs[l]) : F(j + 1)[B(l) + k] = seqs[l][k] BY <2>9, <4>2, <4>5
      <4> QED BY <4>2, <4>6, <4>7
    <3> QED BY <3>1, <3>2
  <2>11. ASSUME NEW x \in 1..Len(F(j + 1))
         PROVE  \E l \in 1..(j + 1) : \E k \in 1..Len(seqs[l]) : x = B(l) + k
    <3>1. CASE x <= Len(F(j))
      <4>1. x \in 1..Len(F(j)) BY <2>7, <2>8, <3>1
      <4>2. PICK l \in 1..j : \E k \in 1..Len(seqs[l]) : x = B(l) + k BY <2>1, <4>1
      <4>3. l \in 1..(j + 1) OBVIOUS
      <4> QED BY <4>2, <4>3
    <3>2. CASE ~(x <= Len(F(j)))
      <4> DEFINE k == x - Len(F(j))
      <4>1. k \in 1..Len(s) /\ x = Len(F(j)) + k BY <2>7, <2>8, <3>2
      <4>2. s = seqs[j + 1] /\ B(j + 1) = Len(F(j)) /\ j + 1 \in 1..(j + 1) BY <2>5 DEF s
      <4> HIDE DEF k
      <4>3. k \in 1..Len(seqs[j + 1]) /\ x = B(j + 1) + k BY <4>1, <4>2
      <4> QED BY <4>2, <4>3
    <3> QED BY <3>1, <3>2
  <2>12. (j + 1) + 1 = j + 2 OBVIOUS
  <2> QED BY <2>5, <2>7, <2>10, <2>11, <2>12
<1>7. Good(m)
  <2>1. Nat \subseteq A
    <3> HIDE DEF A
    <3> QED BY <1>5, <1>6, SetInduction
  <2>2. m \in A BY <1>1, <2>1
  <2> HIDE DEF Good
  <2> QED BY <1>1, <2>2
<1> HIDE DEF m, B
<1>8. F(m) = FlattenSeq(seqs) BY <1>2
<1> HIDE DEF F
<1>9. /\ F(m) \in Seq(T) /\ Len(F(m)) = B(m + 1)
      /\ \A l \in 1..m : /\ B(l) \in Nat /\ B(l + 1) = B(l) + Len(seqs[l]) /\ B(l + 1) <= Len(F(m))
                         /\ \A k \in 1..Len(seqs[l]) : F(m)[B(l) + k] = seqs[l][k]
      /\ \A x \in 1..Len(F(m)) : \E l \in 1..m : \E k \in 1..Len(seqs[l]) : x = B(l) + k
  BY <1>7
<1> QED BY <1>4, <1>8, <1>9 DEF m, B

-----------------------------------------------------------------------------
(* compute_correction_series. *)

(* The largest of numbers up to k is k, if it is among them. *)
LEMMA MaxOfRange ==
    ASSUME NEW k \in Nat, NEW s \in SUBSET (1..k), k \in s
    PROVE  Max(s) = k
<1>1. \A y \in s : k >= y
    OBVIOUS
<1>2. \A x \in s : (\A y \in s : x >= y) => x = k
    OBVIOUS
<1> QED
    BY <1>1, <1>2, Zenon DEF Max

(* What the fold of Corrections does with a vertex. *)
WithVertex(vertices, entries, i) ==
    IF i = 1 \/ i = Len(vertices) \/ Moved(entries, vertices, i)
    THEN Append(entries, Entry(vertices[i])) ELSE entries

(* The function the fold is defined by: its value on a set of places. *)
CorrectionIter(g, v, s, n) ==
    g = [t \in SUBSET (1..n) |-> IF t = {} THEN <<>> ELSE WithVertex(v, g[t \ {Max(t)}], s[Max(t)])]

(* It extends from one length to the next, *)
LEMMA CorrectionIterExtends ==
    ASSUME NEW v, NEW s, NEW k \in Nat, NEW g, CorrectionIter(g, v, s, k)
    PROVE  \E h : CorrectionIter(h, v, s, k + 1)
<1> DEFINE h == [t \in SUBSET (1..(k + 1)) |->
                   IF t \in SUBSET (1..k) THEN g[t] ELSE WithVertex(v, g[t \ {k + 1}], s[k + 1])]
<1>1. ASSUME NEW t \in SUBSET (1..(k + 1))
      PROVE  h[t] = IF t = {} THEN <<>> ELSE WithVertex(v, h[t \ {Max(t)}], s[Max(t)])
  <2>1. CASE t \notin SUBSET (1..k)
    <3>1. k + 1 \in t BY <2>1
    <3>2. Max(t) = k + 1 BY <3>1, MaxOfRange
    <3>3. t \ {k + 1} \in SUBSET (1..k) OBVIOUS
    <3>4. h[t \ {k + 1}] = g[t \ {k + 1}] BY <3>3
    <3>5. h[t] = WithVertex(v, g[t \ {k + 1}], s[k + 1]) BY <2>1
    <3> HIDE DEF h
    <3> QED BY <3>1, <3>2, <3>4, <3>5
  <2>2. CASE t = {}
    <3>1. h[t] = g[t] BY <2>2
    <3>2. g[t] = <<>> BY <2>2 DEF CorrectionIter
    <3> QED BY <2>2, <3>1, <3>2
  <2>3. CASE t \in SUBSET (1..k) /\ t # {}
    <3>1. h[t] = g[t] BY <2>3
    <3>2. g[t] = WithVertex(v, g[t \ {Max(t)}], s[Max(t)]) BY <2>3 DEF CorrectionIter
    <3>3. t \ {Max(t)} \in SUBSET (1..k) BY <2>3
    <3>4. h[t \ {Max(t)}] = g[t \ {Max(t)}] BY <3>3
    <3> HIDE DEF h
    <3> QED BY <2>3, <3>1, <3>2, <3>4
  <2> QED BY <2>1, <2>2, <2>3
<1>2. h = [t \in SUBSET (1..(k + 1)) |->
             IF t = {} THEN <<>> ELSE WithVertex(v, h[t \ {Max(t)}], s[Max(t)])]
  <2>1. h = [t \in SUBSET (1..(k + 1)) |-> h[t]] BY DEF h
  <2> HIDE DEF h
  <2> QED BY <1>1, <2>1
<1> HIDE DEF h
<1> QED BY <1>2 DEF CorrectionIter

(* and so exists for every length. *)
LEMMA CorrectionIterExists ==
    ASSUME NEW v, NEW s, NEW n \in Nat
    PROVE  \E g : CorrectionIter(g, v, s, n)
<1> DEFINE A == {k \in Nat : \E g : CorrectionIter(g, v, s, k)}
<1>1. 0 \in A
  <2> DEFINE g == [t \in SUBSET (1..0) |-> <<>>]
  <2>1. \A t \in SUBSET (1..0) : t = {} OBVIOUS
  <2>2. CorrectionIter(g, v, s, 0) BY <2>1 DEF CorrectionIter
  <2> HIDE DEF g
  <2> QED BY <2>2
<1>2. ASSUME NEW k \in Nat, k \in A PROVE k + 1 \in A
  <2>1. PICK g : CorrectionIter(g, v, s, k) BY <1>2
  <2> QED BY <2>1, CorrectionIterExtends
<1> HIDE DEF A
<1>3. Nat \subseteq A BY <1>1, <1>2, SetInduction
<1> QED BY <1>3 DEF A

(* The series of corrections is built vertex by vertex. *)
LEMMA CorrectionsFold ==
    ASSUME NEW v, NEW n \in Nat, DOMAIN v = 1..n
    PROVE  \E h : /\ h[0] = <<>>
                  /\ \A k \in 1..n : h[k] = WithVertex(v, h[k - 1], k)
                  /\ Corrections(v) = h[n]
<1> DEFINE s == [i \in DOMAIN v |-> i]
           it == CHOOSE g : CorrectionIter(g, v, s, n)
<1>1. DOMAIN s = 1..n /\ \A k \in 1..n : s[k] = k OBVIOUS
<1>2. Corrections(v) = it[1..n]
  <2> HIDE DEF s
  <2> QED BY <1>1 DEF Corrections, FoldLeft, MapThenFoldSet, CorrectionIter, WithVertex, s
<1>3. CorrectionIter(it, v, s, n)
  <2> HIDE DEF s
  <2>1. \E g : CorrectionIter(g, v, s, n) BY CorrectionIterExists
  <2> QED BY <2>1
<1> HIDE DEF s, it
<1> DEFINE h == [k \in 0..n |-> it[1..k]]
<1>4. h[0] = <<>>
  <2>1. 1..0 = {} /\ 1..0 \in SUBSET (1..n) OBVIOUS
  <2> QED BY <1>3, <2>1 DEF CorrectionIter
<1>5. ASSUME NEW k \in 1..n PROVE h[k] = WithVertex(v, h[k - 1], k)
  <2>1. Max(1..k) = k BY MaxOfRange
  <2>2. (1..k) \ {k} = 1..(k - 1) OBVIOUS
  <2>3. 1..k \in SUBSET (1..n) /\ 1..k # {}
    <3>1. k \in 1..k OBVIOUS
    <3>2. 1..k \in SUBSET (1..n) OBVIOUS
    <3> QED BY <3>1, <3>2
  <2>4. it[1..k] = WithVertex(v, it[1..(k - 1)], s[k])
      BY <1>3, <2>1, <2>2, <2>3 DEF CorrectionIter
  <2>5. h[k] = it[1..k] /\ h[k - 1] = it[1..(k - 1)] OBVIOUS
  <2> HIDE DEF h
  <2> QED BY <1>1, <2>4, <2>5
<1>6. h[n] = it[1..n] OBVIOUS
<1> HIDE DEF h
<1> QED BY <1>2, <1>4, <1>5, <1>6

(* A correction series. *)
Entries == Seq([at : Int, value : Int])

(* The entry that is in effect at a vertex is off by less than the         *)
(* threshold.                                                              *)
InEffect(e, v, i, c) ==
    /\ e[c].at <= v[i].at
    /\ c < Len(e) => v[i].at < e[c + 1].at
    /\ Abs(e[c].value - v[i].qnh) < Threshold

(* A series for the first k of the vertices v: it is in order of time, it  *)
(* begins with the first of them, and one of its entries is in effect at   *)
(* each.                                                                   *)
Follows(e, v, k) ==
    /\ e \in Entries /\ Len(e) \in 1..k
    /\ \A c, d \in 1..Len(e) : c < d => e[c].at < e[d].at
    /\ e[1].at = v[1].at /\ e[Len(e)].at <= v[k].at
    /\ \A i \in 1..k : \E c \in 1..Len(e) : InEffect(e, v, i, c)
    /\ k = Len(v) => e[Len(e)].at = v[k].at

(* An entry has the time and the correction of its vertex. *)
LEMMA EntryType ==
    ASSUME NEW w, w.at \in Int, w.qnh \in Int
    PROVE  Entry(w) \in [at : Int, value : Int] /\ Entry(w).at = w.at /\ Entry(w).value = w.qnh
BY DEF Entry

(* compute_correction_series gives such a series for all vertices. *)
LEMMA CorrectionsFollow ==
    ASSUME NEW n \in Nat \ {0}, NEW v, Len(v) = n, InTime(v, n), \A i \in 1..n : v[i].qnh \in Int
    PROVE  Follows(Corrections(v), v, n)
<1>1. /\ DOMAIN v = 1..n /\ (\A i \in 1..n : v[i].at \in Int)
      /\ \A i, j \in 1..n : i < j => v[i].at < v[j].at
  BY DEF InTime
<1>2. PICK h : /\ h[0] = <<>>
               /\ \A k \in 1..n : h[k] = WithVertex(v, h[k - 1], k)
               /\ Corrections(v) = h[n]
  BY <1>1, CorrectionsFold
<1>t. Threshold \in Nat \ {0} BY StoredFlightConstants
<1>e. ASSUME NEW i \in 1..n
      PROVE  /\ Entry(v[i]) \in [at : Int, value : Int]
             /\ Entry(v[i]).at = v[i].at /\ Entry(v[i]).value = v[i].qnh
  BY <1>1, EntryType
<1> DEFINE A == {k \in Nat : k + 1 \in 1..n => Follows(h[k + 1], v, k + 1)}
<1>3. 0 \in A
  <2> DEFINE x == Entry(v[1])
  <2>1. h[1] = WithVertex(v, h[0], 1) BY <1>2
  <2>2. h[1] = Append(<<>>, x) BY <1>2, <2>1 DEF WithVertex
  <2>3. x \in [at : Int, value : Int] /\ x.at = v[1].at /\ x.value = v[1].qnh BY <1>e
  <2> HIDE DEF x
  <2> DEFINE e == h[1]
  <2>4. e \in Entries /\ Len(e) = 1 /\ e[1] = x BY <2>2, <2>3 DEF Entries
  <2> HIDE DEF e
  <2>5. v[1].at \in Int /\ v[1].qnh \in Int BY <1>1
  <2>6. InEffect(e, v, 1, 1) BY <1>t, <2>3, <2>4, <2>5 DEF InEffect, Abs
  <2>7. Follows(e, v, 1) BY <2>3, <2>4, <2>5, <2>6 DEF Follows
  <2> QED BY <2>7 DEF e
<1>4. ASSUME NEW j \in Nat, j \in A PROVE j + 1 \in A
  <2> SUFFICES ASSUME j + 2 \in 1..n PROVE Follows(h[j + 2], v, j + 2) OBVIOUS
  <2> DEFINE k == j + 1 e == h[k] f == h[k + 1] l == Len(e)
  <2>1. k \in 1..n /\ k + 1 \in 1..n /\ k + 1 = j + 2 OBVIOUS
  <2>2. Follows(e, v, k) BY <1>4, <2>1
  <2>3. f = WithVertex(v, e, k + 1)
    <3>1. (k + 1) - 1 = k /\ k + 1 \in 1..n OBVIOUS
    <3> HIDE DEF k
    <3> QED BY <1>2, <3>1
  <2> HIDE DEF A, k, e, f
  <2>4. /\ e \in Entries /\ l \in 1..k /\ e[1].at = v[1].at /\ e[l].at <= v[k].at
        /\ \A c, d \in 1..l : c < d => e[c].at < e[d].at
        /\ \A i \in 1..k : \E c \in 1..l : InEffect(e, v, i, c)
    BY <2>2 DEF Follows
  <2>5. \A c \in 1..l : e[c] \in [at : Int, value : Int]
    <3> DEFINE R == [at : Int, value : Int]
    <3>1. e \in Seq(R) BY <2>4 DEF Entries
    <3> HIDE DEF R
    <3>2. \A c \in 1..l : e[c] \in R BY <3>1
    <3> QED BY <3>2 DEF R
  <2>6. \A c \in 1..l : e[c].at \in Int /\ e[c].value \in Int BY <2>5
  <2>7. v[k].at \in Int /\ v[k + 1].at \in Int /\ v[k].at < v[k + 1].at /\ v[k + 1].qnh \in Int
    <3>1. k < k + 1 BY <2>1
    <3> QED BY <1>1, <2>1, <3>1
  <2>8. \A i \in 1..k : v[i].at <= v[k].at /\ v[i].at \in Int BY <1>1, <2>1
  <2>9. CASE k + 1 = 1 \/ k + 1 = Len(v) \/ Moved(e, v, k + 1)
    <3> DEFINE x == Entry(v[k + 1])
    <3>1. f = Append(e, x) BY <2>3, <2>9 DEF WithVertex
    <3>2. x \in [at : Int, value : Int] /\ x.at = v[k + 1].at /\ x.value = v[k + 1].qnh BY <1>e, <2>1
    <3> HIDE DEF x
    <3>3. l \in Nat BY <2>4 DEF Entries
    <3>4. f \in Entries /\ Len(f) = l + 1 /\ (\A c \in 1..l : f[c] = e[c]) /\ f[l + 1] = x
      BY <2>4, <3>1, <3>2 DEF Entries
    <3> HIDE DEF l
    <3>5. \A c, d \in 1..(l + 1) : c < d => f[c].at < f[d].at
      <4> TAKE c, d \in 1..(l + 1)
      <4> SUFFICES ASSUME c < d PROVE f[c].at < f[d].at OBVIOUS
      <4>1. c \in 1..l BY <3>3
      <4>2. CASE d \in 1..l BY <2>4, <3>4, <4>1, <4>2
      <4>3. CASE d = l + 1
        <5>1. e[c].at <= e[l].at /\ e[c].at \in Int /\ e[l].at \in Int
          <6>1. l \in 1..l BY <3>3, <4>1
          <6> QED BY <2>4, <2>6, <4>1, <6>1
        <5>2. e[c].at < x.at BY <2>4, <2>7, <3>2, <5>1
        <5> QED BY <3>4, <4>1, <4>3, <5>2
      <4> QED BY <3>3, <4>2, <4>3
    <3>6. ASSUME NEW i \in 1..(k + 1) PROVE \E c \in 1..(l + 1) : InEffect(f, v, i, c)
      <4>1. CASE i = k + 1
        <5>1. l + 1 \in 1..(l + 1) BY <3>3
        <5>2. InEffect(f, v, i, l + 1) BY <1>t, <2>7, <3>2, <3>3, <3>4, <4>1 DEF InEffect, Abs
        <5> QED BY <5>1, <5>2
      <4>2. CASE i # k + 1
        <5>1. i \in 1..k BY <2>1, <4>2
        <5>2. PICK c \in 1..l : InEffect(e, v, i, c) BY <2>4, <5>1
        <5>3. f[c] = e[c] /\ c \in 1..(l + 1) BY <3>3, <3>4
        <5>4. v[i].at < f[c + 1].at
          <6>1. CASE c = l
            <7>1. f[c + 1].at = v[k + 1].at BY <3>2, <3>4, <6>1
            <7> QED BY <2>7, <2>8, <5>1, <7>1
          <6>2. CASE c # l
            <7>1. c < l /\ c + 1 \in 1..l BY <3>3, <6>2
            <7>2. f[c + 1] = e[c + 1] BY <3>4, <7>1
            <7> QED BY <5>2, <7>1, <7>2 DEF InEffect, l
          <6> QED BY <6>1, <6>2
        <5>5. InEffect(f, v, i, c) BY <5>2, <5>3, <5>4 DEF InEffect
        <5> QED BY <5>3, <5>5
      <4> QED BY <4>1, <4>2
    <3>7. f[1].at = v[1].at
      <4>1. 1 \in 1..l BY <2>4, <3>3
      <4> QED BY <2>4, <3>4, <4>1
    <3>8. Follows(f, v, k + 1)
      <4>1. l + 1 \in 1..(k + 1) BY <2>1, <2>4, <3>3
      <4>2. f[l + 1].at = v[k + 1].at BY <3>2, <3>4
      <4> QED BY <2>7, <3>4, <3>5, <3>6, <3>7, <4>1, <4>2 DEF Follows
    <3> QED BY <2>1, <3>8 DEF f
  <2>10. CASE ~(k + 1 = 1 \/ k + 1 = Len(v) \/ Moved(e, v, k + 1))
    <3>1. f = e BY <2>3, <2>10 DEF WithVertex
    <3>2. l \in 1..l /\ Last(e) = e[l]
      <4>1. l \in Nat BY <2>4 DEF Entries
      <4> QED BY <2>4, <4>1 DEF Last
    <3>3. ~(Abs(v[k + 1].qnh - e[l].value) >= Threshold) BY <2>10, <3>2 DEF Moved
    <3>4. InEffect(e, v, k + 1, l)
      <4>1. e[l].at \in Int /\ e[l].value \in Int BY <2>6, <3>2
      <4>2. e[l].at <= v[k + 1].at BY <2>4, <2>7, <4>1
      <4>3. Abs(e[l].value - v[k + 1].qnh) < Threshold
        <5> DEFINE a == e[l].value b == v[k + 1].qnh
        <5>1. a \in Int /\ b \in Int /\ ~(Abs(b - a) >= Threshold) BY <2>7, <3>3, <4>1
        <5> HIDE DEF a, b
        <5>2. Abs(a - b) < Threshold BY <1>t, <5>1 DEF Abs
        <5> QED BY <5>2 DEF a, b
      <4> QED BY <4>2, <4>3 DEF InEffect, l
    <3>5. \A i \in 1..(k + 1) : \E c \in 1..l : InEffect(e, v, i, c)
      <4> TAKE i \in 1..(k + 1)
      <4>1. i = k + 1 \/ i \in 1..k BY <2>1
      <4> HIDE DEF l
      <4> QED BY <2>4, <3>2, <3>4, <4>1
    <3>6. l \in 1..(k + 1) /\ e[l].at <= v[k + 1].at
      <4>1. e[l].at \in Int BY <2>6, <3>2
      <4> QED BY <2>1, <2>4, <2>7, <4>1
    <3>7. Follows(e, v, k + 1) BY <2>4, <2>10, <3>5, <3>6 DEF Follows
    <3> QED BY <2>1, <3>1, <3>7 DEF f
  <2> QED BY <2>9, <2>10
<1>5. Nat \subseteq A
  <2> HIDE DEF A
  <2> QED BY <1>3, <1>4, SetInduction
<1>6. n - 1 \in A BY <1>5
<1>7. (n - 1) + 1 = n OBVIOUS
<1> QED BY <1>2, <1>6, <1>7

-----------------------------------------------------------------------------
(* What is stored of a flight. *)

(* The sub-sequences of a raw flight are in order of time, and follow each *)
(* other (batch.py lines 297-302).                                         *)
LEMMA RawFacts ==
    ASSUME NEW r \in DOMAIN Raws
    PROVE  /\ Raws[r].seqs \in Seq(Seq(Sample)) /\ Len(Raws[r].seqs) \in Nat \ {0}
           /\ \A q \in 1..Len(Raws[r].seqs) :
                  /\ Raws[r].seqs[q] \in Seq(Sample) /\ Len(Raws[r].seqs[q]) >= 2
                  /\ InTimeOrder(Raws[r].seqs[q])
           /\ \A q \in 2..Len(Raws[r].seqs) :
                  \A i \in 1..Len(Raws[r].seqs[q - 1]) : Raws[r].seqs[q - 1][i].at < Raws[r].seqs[q][1].at
<1> DEFINE x == Raws[r] seqs == x.seqs
<1>1. x \in [rotor : BOOLEAN, seqs : Seq(Seq(Sample))]
  <2> DEFINE R == [rotor : BOOLEAN, seqs : Seq(Seq(Sample))]
  <2>1. Raws \in Seq(R) BY StoredFlightConstants
  <2> HIDE DEF R
  <2>2. Raws[r] \in R BY <2>1
  <2> QED BY <2>2 DEF R
<1>2. /\ seqs # <<>>
      /\ \A q \in DOMAIN seqs : Len(seqs[q]) >= 2 /\ InTimeOrder(seqs[q])
      /\ \A q \in 2..Len(seqs) : Last(seqs[q - 1]).at < seqs[q][1].at
  BY StoredFlightConstants
<1>3. seqs \in Seq(Seq(Sample))
  <2> HIDE DEF x
  <2> QED BY <1>1
<1> DEFINE N == Len(seqs)
<1> HIDE DEF seqs
<1>4. N \in Nat \ {0} /\ DOMAIN seqs = 1..N /\ \A q \in 1..N : seqs[q] \in Seq(Sample) BY <1>2, <1>3
<1>5. ASSUME NEW q \in 2..N, NEW i \in 1..Len(seqs[q - 1])
      PROVE  seqs[q - 1][i].at < seqs[q][1].at
  <2> DEFINE s == seqs[q - 1] n == Len(s) y == s[n] t == seqs[q][1].at
  <2>1. q - 1 \in 1..N /\ q \in 1..N BY <1>4
  <2>2. s \in Seq(Sample) /\ n \in Nat /\ n >= 2 /\ InTimeOrder(s) BY <1>2, <1>4, <2>1
  <2>3. Last(s) = y BY DEF Last
  <2>4. y.at < t BY <1>2, <2>3
  <2> HIDE DEF s, y, t
  <2>5. \A j \in 1..n : s[j] \in Sample BY <2>2
  <2>6. \A j \in 1..n : s[j].at \in Int
    <3> TAKE j \in 1..n
    <3> DEFINE z == s[j]
    <3>1. z \in Sample BY <2>5
    <3> HIDE DEF z
    <3>2. z.at \in Int BY <3>1 DEF Sample
    <3> QED BY <3>2 DEF z
  <2>7. DOMAIN s = 1..n /\ i \in 1..n BY <2>2 DEF s
  <2>8. s[i].at <= s[n].at
    <3>0. n \in Nat /\ i \in 1..n BY <2>2, <2>7
    <3> HIDE DEF n
    <3>1. i = n \/ i < n BY <3>0
    <3>2. n \in 1..n BY <2>2
    <3>3. i < n => s[i].at < s[n].at BY <2>2, <2>7, <3>2 DEF InTimeOrder
    <3> QED BY <2>6, <2>7, <3>1, <3>2, <3>3
  <2>9. t \in Int
    <3> DEFINE u == seqs[q] z == u[1]
    <3>1. u \in Seq(Sample) /\ Len(u) >= 2 BY <1>2, <1>4, <2>1
    <3> HIDE DEF u
    <3>2. z \in Sample BY <3>1
    <3> HIDE DEF z
    <3>3. z.at \in Int BY <3>2 DEF Sample
    <3> QED BY <3>3 DEF z, t, u
  <2>10. s[i].at < t
    <3>1. n \in 1..n BY <2>2
    <3> QED BY <2>4, <2>6, <2>7, <2>8, <2>9, <3>1 DEF y
  <2> QED BY <2>10 DEF s, t
<1> QED BY <1>2, <1>3, <1>4, <1>5 DEF seqs

(* A sub-sequence of a flight, and what is stored of it. *)
LEMMA StoredPart ==
    ASSUME NEW r \in DOMAIN Raws, NEW q \in 1..Len(Raws[r].seqs)
    PROVE  LET raw  == Raws[r].seqs[q]
               n    == Len(raw)
               s    == Samples[r][q]
               kept == Kept[r][q]
               path == PathOf[r][q]
           IN  /\ n \in Nat /\ n >= 2 /\ Len(s) = n /\ DOMAIN s = 1..n /\ AreSamples(s, n)
               /\ Anchors(s) \subseteq kept /\ kept \subseteq 1..n
               /\ Within(s, kept, OffAlt(s), Everywhere(s, AltitudeTolerance))
               /\ Within(s, kept, OffPlace(s), Everywhere(s, 2 * SpatialTolerance))
               /\ path = Picked(s, kept)
               /\ Len(path) \in Nat \ {0} /\ AreSamples(path, Len(path))
               /\ path = [k \in 1..Len(path) |-> path[k]]
               /\ \A k \in 1..Len(path) : \E i \in 1..n : path[k].at = raw[i].at
<1> DEFINE raw == Raws[r].seqs[q] n == Len(raw) s == Samples[r][q]
           kept == Kept[r][q] path == PathOf[r][q] m == Cardinality(kept)
<1>1. raw \in Seq(Sample) /\ n >= 2 /\ InTimeOrder(raw) /\ DOMAIN Raws[r].seqs = 1..Len(Raws[r].seqs)
  <2> DEFINE seqs == Raws[r].seqs
  <2>1. seqs \in Seq(Seq(Sample)) BY RawFacts
  <2>2. DOMAIN seqs = 1..Len(seqs)
    <3> HIDE DEF seqs
    <3> QED BY <2>1
  <2>3. raw \in Seq(Sample) /\ n >= 2 /\ InTimeOrder(raw) BY RawFacts
  <2> QED BY <2>2, <2>3
<1>2. s = Filled(raw) BY <1>1 DEF Samples
<1>3. kept = SimplifyFlight(s) BY <1>1 DEF Kept
<1>4. path = Picked(s, kept) BY <1>1 DEF PathOf
<1> HIDE DEF raw, s, kept, path
<1>5. n \in Nat BY <1>1
<1>6. AreSamples(s, n) /\ \A i \in 1..n : s[i].at = raw[i].at BY <1>1, <1>2, FilledType
<1>7. DOMAIN s = 1..n BY <1>6 DEF AreSamples, InTime
<1>8. Len(s) = n BY <1>5, <1>7
<1>9. /\ Anchors(s) \subseteq kept /\ kept \subseteq 1..n
      /\ Within(s, kept, OffAlt(s), Everywhere(s, AltitudeTolerance))
      /\ Within(s, kept, OffPlace(s), Everywhere(s, 2 * SpatialTolerance))
  BY <1>1, <1>3, <1>5, <1>6, <1>8, SimplifiedFlight
<1>10. 1 \in kept BY <1>9 DEF Anchors
<1>11. /\ m \in Nat /\ (\A k \in 1..m : Nth(kept, k) \in kept)
       /\ (\A j \in kept : \E k \in 1..m : Nth(kept, k) = j)
  BY <1>5, <1>9, NthKept
<1>12. AreSamples(path, m) BY <1>4, <1>5, <1>6, <1>9, PickedType
<1>13. DOMAIN path = 1..m /\ \A k \in 1..m : path[k] = s[Nth(kept, k)] BY <1>4 DEF Picked
<1> HIDE DEF m
<1>14. Len(path) = m BY <1>11, <1>13
<1>15. m # 0 BY <1>10, <1>11
<1>16. \A k \in 1..m : \E i \in 1..n : path[k].at = raw[i].at
  <2> TAKE k \in 1..m
  <2>1. Nth(kept, k) \in 1..n BY <1>9, <1>11
  <2>2. path[k].at = raw[Nth(kept, k)].at BY <1>6, <1>13, <2>1
  <2> QED BY <2>1, <2>2
<1>17. /\ n \in Nat /\ n >= 2 /\ Len(s) = n /\ DOMAIN s = 1..n /\ AreSamples(s, n)
       /\ Len(path) \in Nat \ {0} /\ AreSamples(path, Len(path))
       /\ \A k \in 1..Len(path) : \E i \in 1..n : path[k].at = raw[i].at
  BY <1>1, <1>5, <1>6, <1>7, <1>8, <1>11, <1>12, <1>14, <1>15, <1>16
<1>18. path = [k \in 1..Len(path) |-> path[k]]
  <2>1. path = [k \in DOMAIN path |-> path[k]] BY <1>4 DEF Picked
  <2> QED BY <1>13, <1>14, <2>1
<1> QED BY <1>4, <1>9, <1>17, <1>18 DEF raw, s, kept, path

(* The vertices of a flight, one after the other. *)
Vertices(r) == FlattenSeq(PathOf[r])

(* They are in order of time, and their places and corrections are known. *)
LEMMA VerticesInTime ==
    ASSUME NEW r \in DOMAIN Raws
    PROVE  /\ Len(Vertices(r)) \in Nat \ {0} /\ InTime(Vertices(r), Len(Vertices(r)))
           /\ \A i \in 1..Len(Vertices(r)) : Vertices(r)[i].qnh \in Int /\ Vertices(r)[i].place \in Int
           /\ \E T : PathOf[r] \in Seq(Seq(T))
<1> DEFINE path == PathOf[r] seqs == Raws[r].seqs N == Len(seqs)
           T == {path[q][k] : q \in 1..N, k \in Nat}
           v == FlattenSeq(path) L(q) == Len(path[q]) B(q) == Before(path, q)
<1>1. N \in Nat \ {0} /\ DOMAIN seqs = 1..N BY RawFacts
<1>2. DOMAIN path = 1..N BY <1>1 DEF PathOf
<1>3. ASSUME NEW q \in 1..N
      PROVE  L(q) \in Nat \ {0} /\ AreSamples(path[q], L(q))
             /\ path[q] = [k \in 1..L(q) |-> path[q][k]]
             /\ (\A k \in 1..L(q) : \E i \in 1..Len(seqs[q]) : path[q][k].at = seqs[q][i].at)
  BY StoredPart
<1>4. ASSUME NEW q \in 1..N, NEW k \in 1..L(q)
      PROVE  path[q][k].at \in Int /\ path[q][k].qnh \in Int /\ path[q][k].place \in Int
             /\ \A l \in 1..L(q) : k < l => path[q][k].at < path[q][l].at
  BY <1>3 DEF AreSamples, InTime
<1> HIDE DEF path
<1>5. path \in Seq(Seq(T))
  <2>1. ASSUME NEW q \in 1..N PROVE path[q] \in Seq(T)
    <3> DEFINE p == path[q] m == L(q)
    <3>1. m \in Nat /\ p = [k \in 1..m |-> p[k]] BY <1>3
    <3>2. \A k \in 1..m : p[k] \in T BY <3>1
    <3> HIDE DEF p, m, T
    <3>3. p \in [1..m -> T] BY <3>1, <3>2
    <3>4. p \in Seq(T) BY <3>1, <3>3
    <3> QED BY <3>4 DEF p
  <2>2. path = [q \in 1..N |-> path[q]] BY DEF PathOf, path
  <2> HIDE DEF T, N
  <2>3. path \in [1..N -> Seq(T)] BY <2>1, <2>2
  <2> QED BY <1>1, <2>3
<1>6. Len(path) = N BY <1>1, <1>2
<1> HIDE DEF T, N
<1>7. /\ v \in Seq(T) /\ Len(v) = B(N + 1) /\ B(1) = 0
      /\ \A l \in 1..N : B(l) \in Nat /\ B(l + 1) = B(l) + L(l) /\ B(l + 1) <= Len(v)
      /\ \A l \in 1..N : \A k \in 1..L(l) : v[B(l) + k] = path[l][k]
      /\ \A x \in 1..Len(v) : \E l \in 1..N : \E k \in 1..L(l) : x = B(l) + k
  BY <1>5, <1>6, FlattenPlaces
<1> HIDE DEF L, B, v
(* Sub-sequences follow each other. *)
<1>8. ASSUME NEW q \in 1..N, NEW k \in 1..L(q), NEW p \in (q + 1)..N, NEW l \in 1..L(p)
      PROVE  path[q][k].at < path[p][l].at
  <2> DEFINE A == {d \in Nat : q + 1 + d \in 1..N =>
                        \A j \in 1..Len(seqs[q + 1 + d]) : path[q][k].at < seqs[q + 1 + d][j].at}
  <2> DEFINE t == path[q][k].at
  <2>1. t \in Int BY <1>4
  <2>2. PICK i \in 1..Len(seqs[q]) : t = seqs[q][i].at BY <1>3 DEF L
  <2>3. \A c \in 1..N : \A j \in 1..Len(seqs[c]) : seqs[c][1].at <= seqs[c][j].at
    <3> TAKE c \in 1..N
    <3> TAKE j \in 1..Len(seqs[c])
    <3> DEFINE s == seqs[c]
    <3>1. s \in Seq(Sample) /\ Len(s) >= 2 /\ InTimeOrder(s) /\ j \in 1..Len(s) BY RawFacts DEF N
    <3> HIDE DEF s
    <3>2. s[1] \in Sample /\ s[j] \in Sample BY <3>1
    <3>3. s[1].at \in Int
      <4> DEFINE z == s[1]
      <4>1. z \in Sample BY <3>2
      <4> HIDE DEF z
      <4>2. z.at \in Int BY <4>1 DEF Sample
      <4> QED BY <4>2 DEF z
    <3>4. j = 1 \/ 1 < j BY <3>1
    <3>5. 1 < j => s[1].at < s[j].at BY <3>1 DEF InTimeOrder
    <3>6. s[j].at \in Int
      <4> DEFINE z == s[j]
      <4>1. z \in Sample BY <3>2
      <4> HIDE DEF z
      <4>2. z.at \in Int BY <4>1 DEF Sample
      <4> QED BY <4>2 DEF z
    <3>7. s[1].at <= s[j].at BY <3>3, <3>4, <3>5, <3>6
    <3> QED BY <3>7 DEF s
  <2>4. \A c \in 1..N : \A j \in 1..Len(seqs[c]) : seqs[c][j].at \in Int
    <3> TAKE c \in 1..N
    <3> TAKE j \in 1..Len(seqs[c])
    <3> DEFINE s == seqs[c] z == s[j]
    <3>1. s \in Seq(Sample) /\ j \in 1..Len(s) BY RawFacts DEF N
    <3> HIDE DEF s
    <3>2. z \in Sample BY <3>1
    <3> HIDE DEF z
    <3>3. z.at \in Int BY <3>2 DEF Sample
    <3> QED BY <3>3 DEF z, s
  <2>5. \A c \in 2..N : \A j \in 1..Len(seqs[c - 1]) : seqs[c - 1][j].at < seqs[c][1].at
    BY RawFacts DEF N
  <2>6. \A c \in 1..N : Len(seqs[c]) >= 2 /\ Len(seqs[c]) \in Nat
    <3> TAKE c \in 1..N
    <3> DEFINE s == seqs[c]
    <3>1. s \in Seq(Sample) /\ Len(s) >= 2 BY RawFacts DEF N
    <3> HIDE DEF s
    <3>2. Len(s) \in Nat BY <3>1
    <3> QED BY <3>1, <3>2 DEF s
  <2> HIDE DEF seqs, t
  <2>7. 0 \in A
    <3> SUFFICES ASSUME q + 1 \in 1..N, NEW j \in 1..Len(seqs[q + 1]) PROVE t < seqs[q + 1][j].at
      BY DEF t
    <3>1. q + 1 \in 2..N /\ (q + 1) - 1 = q BY <1>1
    <3>2. t < seqs[q + 1][1].at BY <2>2, <2>5, <3>1
    <3>3. 1 \in 1..Len(seqs[q + 1]) BY <2>6
    <3> QED BY <2>1, <2>3, <2>4, <3>2, <3>3
  <2>8. ASSUME NEW d \in Nat, d \in A PROVE d + 1 \in A
    <3> DEFINE c == q + 1 + d
    <3> SUFFICES ASSUME c + 1 \in 1..N, NEW j \in 1..Len(seqs[c + 1]) PROVE t < seqs[c + 1][j].at
      <4>1. q + 1 + (d + 1) = c + 1 OBVIOUS
      <4> QED BY <4>1 DEF t
    <3>1. c \in 1..N /\ c + 1 \in 2..N /\ (c + 1) - 1 = c BY <1>1
    <3>2. \A i2 \in 1..Len(seqs[c]) : t < seqs[c][i2].at BY <2>8, <3>1 DEF t
    <3> HIDE DEF c
    <3>3. 1 \in 1..Len(seqs[c]) /\ 1 \in 1..Len(seqs[c + 1]) BY <2>6, <3>1
    <3> DEFINE a1 == seqs[c][1].at
               a2 == seqs[c + 1][1].at
               a3 == seqs[c + 1][j].at
    <3>4. t < a1 /\ a1 < a2 BY <2>5, <3>1, <3>2, <3>3
    <3>5. a2 <= a3 BY <2>3
    <3>6. t \in Int /\ a1 \in Int /\ a2 \in Int /\ a3 \in Int BY <2>1, <2>4, <3>1, <3>3
    <3>7. t < a3
      <4> HIDE DEF A, a1, a2, a3
      <4> QED BY <3>4, <3>5, <3>6
    <3> QED BY <3>7
  <2>9. Nat \subseteq A
    <3> HIDE DEF A
    <3> QED BY <2>7, <2>8, SetInduction
  <2>10. p - (q + 1) \in A /\ q + 1 + (p - (q + 1)) = p /\ p \in 1..N
    <3> HIDE DEF A
    <3>1. p - (q + 1) \in Nat /\ q + 1 + (p - (q + 1)) = p /\ p \in 1..N BY <1>1
    <3> QED BY <2>9, <3>1
  <2>11. \A j \in 1..Len(seqs[p]) : t < seqs[p][j].at BY <2>10 DEF t
  <2>12. PICK j \in 1..Len(seqs[p]) : path[p][l].at = seqs[p][j].at BY <1>3, <2>10 DEF L, seqs
  <2> QED BY <2>11, <2>12 DEF t
<1>9. \A q \in 1..N : L(q) \in Nat \ {0} BY <1>3 DEF L
<1>10. \A x \in 1..Len(v) : v[x].at \in Int /\ v[x].qnh \in Int /\ v[x].place \in Int
  <2> TAKE x \in 1..Len(v)
  <2>1. PICK q \in 1..N : \E k \in 1..L(q) : x = B(q) + k BY <1>7
  <2>2. PICK k \in 1..L(q) : x = B(q) + k BY <2>1
  <2>3. v[x] = path[q][k] BY <1>7, <2>2
  <2> QED BY <1>4, <2>3 DEF L
<1>11. \A x, y \in 1..Len(v) : x < y => v[x].at < v[y].at
  <2> TAKE x, y \in 1..Len(v)
  <2> SUFFICES ASSUME x < y PROVE v[x].at < v[y].at OBVIOUS
  <2>1. PICK q \in 1..N : \E k \in 1..L(q) : x = B(q) + k BY <1>7
  <2>2. PICK p \in 1..N : \E l \in 1..L(p) : y = B(p) + l BY <1>7
  <2>7. PICK k \in 1..L(q) : x = B(q) + k BY <2>1
  <2>8. PICK l \in 1..L(p) : y = B(p) + l BY <2>2
  <2>3. v[x] = path[q][k] /\ v[y] = path[p][l] BY <1>7, <2>7, <2>8
  <2>4. q <= p
    <3> SUFFICES ASSUME p < q PROVE FALSE OBVIOUS
    <3>1. B(p + 1) <= B(q)
      <4> DEFINE A == {d \in Nat : p + 1 + d <= q => B(p + 1) <= B(p + 1 + d)}
      <4>0. \A c \in 1..N : B(c) \in Nat BY <1>7
      <4>1. 0 \in A
        <5> SUFFICES ASSUME p + 1 <= q PROVE B(p + 1) <= B(p + 1 + 0) OBVIOUS
        <5>1. p + 1 \in 1..N /\ p + 1 + 0 = p + 1 BY <1>1
        <5> QED BY <4>0, <5>1
      <4>2. ASSUME NEW d \in Nat, d \in A PROVE d + 1 \in A
        <5> SUFFICES ASSUME p + 1 + (d + 1) <= q PROVE B(p + 1) <= B(p + 1 + (d + 1)) OBVIOUS
        <5> DEFINE c == p + 1 + d
        <5>1. c \in 1..N /\ p + 1 + (d + 1) = c + 1 /\ p + 1 \in 1..N BY <1>1
        <5>2. B(p + 1) <= B(c) BY <4>2
        <5> HIDE DEF c
        <5>3. B(c + 1) = B(c) + L(c) /\ B(c) \in Nat /\ L(c) \in Nat /\ B(p + 1) \in Nat BY <1>7, <1>9, <5>1
        <5>4. B(p + 1) <= B(c + 1) BY <5>2, <5>3
        <5> QED BY <5>1, <5>4
      <4>3. Nat \subseteq A
        <5> HIDE DEF A
        <5> QED BY <4>1, <4>2, SetInduction
      <4>4. q - (p + 1) \in A /\ p + 1 + (q - (p + 1)) = q
        <5> HIDE DEF A
        <5>1. q - (p + 1) \in Nat /\ p + 1 + (q - (p + 1)) = q BY <1>1
        <5> QED BY <4>3, <5>1
      <4> QED BY <4>4
    <3>2. B(p + 1) = B(p) + L(p) /\ B(p) \in Nat /\ B(q) \in Nat /\ L(p) \in Nat /\ L(q) \in Nat
      BY <1>7, <1>9
    <3>3. y <= B(p + 1) /\ B(q) < x BY <2>7, <2>8, <3>2
    <3> QED BY <3>1, <3>2, <3>3
  <2>5. CASE q = p
    <3>1. k < l
      <4>1. B(p) \in Nat /\ L(p) \in Nat BY <1>7, <1>9
      <4> QED BY <2>7, <2>8, <2>5, <4>1
    <3> QED BY <1>4, <2>3, <2>5, <3>1 DEF L
  <2>6. CASE q < p
    <3>1. p \in (q + 1)..N BY <2>6
    <3> QED BY <1>8, <2>3, <3>1
  <2> QED BY <2>4, <2>5, <2>6
<1>12. Len(v) \in Nat \ {0}
  <2>1. 1 \in 1..N BY <1>1
  <2>2. B(2) = B(1) + L(1) /\ B(2) <= Len(v)
    <3>1. 1 + 1 = 2 OBVIOUS
    <3> QED BY <1>7, <2>1, <3>1
  <2>3. Len(v) \in Nat BY <1>7
  <2> QED BY <1>7, <1>9, <2>1, <2>2, <2>3
<1>13. InTime(v, Len(v))
  <2>1. DOMAIN v = 1..Len(v) BY <1>7
  <2> QED BY <1>10, <1>11, <2>1 DEF InTime
<1> QED BY <1>5, <1>10, <1>12, <1>13 DEF Vertices, v, path

(* The entry in effect at a time is the last one that is not later.        *)
LEMMA CorrectionAtIs ==
    ASSUME NEW e, NEW l \in Nat, DOMAIN e = 1..l, e # <<>>, NEW c \in 1..l, NEW t \in Int,
           \A i \in 1..l : e[i].at \in Int,
           \A i, j \in 1..l : i < j => e[i].at < e[j].at,
           e[c].at <= t, c < l => t < e[c + 1].at
    PROVE  CorrectionAt(e, t) = e[c].value
<1> DEFINE before == {i \in DOMAIN e : e[i].at <= t}
<1>1. c \in before OBVIOUS
<1>2. \A i \in before : i <= c
  <2> TAKE i \in before
  <2> SUFFICES ASSUME c < i PROVE FALSE OBVIOUS
  <2>1. i \in 1..l /\ e[i].at <= t OBVIOUS
  <2>2. c + 1 \in 1..l /\ (c + 1 = i \/ c + 1 < i) BY <2>1
  <2>3. e[c + 1].at <= e[i].at BY <2>1, <2>2
  <2> QED BY <2>1, <2>2, <2>3
<1>3. \A i \in before : i \in Int OBVIOUS
<1> HIDE DEF before
<1>4. \A x \in before : (\A j \in before : j <= x) => x = c BY <1>1, <1>2, <1>3
<1>5. (CHOOSE i \in before : \A j \in before : j <= i) = c BY <1>1, <1>2, <1>4, Zenon
<1>6. before # {} BY <1>1
<1> QED BY <1>5, <1>6 DEF CorrectionAt, before

(* It is a number. *)
LEMMA CorrectionAtType ==
    ASSUME NEW e \in Entries, NEW t \in Int
    PROVE  CorrectionAt(e, t) \in Int
<1> DEFINE R == [at : Int, value : Int] l == Len(e)
           before == {i \in DOMAIN e : e[i].at <= t}
<1>1. e \in Seq(R) BY DEF Entries
<1> HIDE DEF R
<1>2. DOMAIN e = 1..l /\ l \in Nat /\ \A i \in 1..l : e[i] \in R BY <1>1
<1>3. \A i \in 1..l : e[i].at \in Int /\ e[i].value \in Int BY <1>2 DEF R
<1>4. CASE e = <<>> BY <1>4 DEF CorrectionAt
<1>5. CASE e # <<>> /\ before = {}
  <2>1. l # 0 BY <1>1, <1>5
  <2>2. 1 \in 1..l BY <1>2, <2>1
  <2>3. CorrectionAt(e, t) = e[1].value BY <1>5 DEF CorrectionAt
  <2> QED BY <1>3, <2>2, <2>3
<1>6. CASE e # <<>> /\ before # {}
  <2>1. PICK b \in before : TRUE BY <1>6
  <2>2. b \in Nat /\ b <= l BY <1>2, <2>1
  <2>3. before \in SUBSET Nat BY <1>2
  <2>4. PICK a \in before : a \in LastBefore(before, l)
    <3> HIDE DEF before, l
    <3> QED BY <1>2, <2>1, <2>2, <2>3, KeptBefore
  <2>5. \A c \in before : c <= a
    <3>1. \A c \in before : c <= l BY <1>2
    <3> HIDE DEF before
    <3> QED BY <2>4, <3>1 DEF LastBefore
  <2> DEFINE x == CHOOSE i \in before : \A j \in before : j <= i
  <2>6. x \in before
    <3> HIDE DEF before
    <3> QED BY <2>4, <2>5
  <2>7. CorrectionAt(e, t) = e[x].value BY <1>6 DEF CorrectionAt
  <2>8. x \in 1..l BY <1>2, <2>6
  <2> HIDE DEF x
  <2> QED BY <1>3, <2>7, <2>8
<1> QED BY <1>4, <1>5, <1>6

(* The samples that heights are computed at. *)
Dense == [at : Int, place : Int, alt : Int]

(* A segment has samples at times, places and altitudes, *)
LEMMA SegmentType ==
    ASSUME NEW v, NEW w, v.at \in Int, v.place \in Int, v.alt \in Int,
           w.at \in Int, w.place \in Int, w.alt \in Int
    PROVE  Segment(v, w) \in Seq(Dense)
<1> DEFINE n == IF Abs(w.place - v.place) > 1 THEN Abs(w.place - v.place) ELSE 1
           S(i) == [at    |-> v.at + ((i * (w.at - v.at)) \div n),
                    place |-> v.place + ((i * (w.place - v.place)) \div n),
                    alt   |-> v.alt + ((i * (w.alt - v.alt)) \div n)]
<1>1. n \in Nat \ {0} BY DEF Abs
<1>2. Segment(v, w) = [i \in 1..n |-> S(i)] BY DEF Segment
<1> HIDE DEF n
<1>3. ASSUME NEW i \in 1..n, NEW a \in Int, NEW b \in Int PROVE a + ((i * (b - a)) \div n) \in Int
  <2> DEFINE d == b - a e == i * d
  <2>1. d \in Int OBVIOUS
  <2> HIDE DEF d
  <2>2. e \in Int BY <1>1, <2>1
  <2> HIDE DEF e
  <2>3. e \div n \in Int BY <1>1, <2>2
  <2>4. a + (e \div n) \in Int BY <2>3
  <2> QED BY <2>4 DEF d, e
<1>4. \A i \in 1..n : S(i) \in Dense BY <1>3 DEF Dense
<1> HIDE DEF S
<1>5. [i \in 1..n |-> S(i)] \in [1..n -> Dense] BY <1>4
<1> QED BY <1>1, <1>2, <1>5

(* a path has at least one, *)
LEMMA DensifyType ==
    ASSUME NEW m \in Nat \ {0}, NEW p, Len(p) = m, AreSamples(p, m)
    PROVE  Densify(p) \in Seq(Dense) /\ Len(Densify(p)) >= 1
<1>1. DOMAIN p = 1..m /\ \A i \in 1..m : p[i].at \in Int /\ p[i].place \in Int /\ p[i].alt \in Int
  BY DEF AreSamples, InTime
<1> DEFINE one == [at |-> p[1].at, place |-> p[1].place, alt |-> p[1].alt]
           D == [i \in DOMAIN p |-> IF i = 1 THEN <<one>> ELSE Segment(p[i - 1], p[i])]
<1>2. 1 \in 1..m OBVIOUS
<1>3. one \in Dense BY <1>1, <1>2 DEF Dense
<1>4. Densify(p) = FlattenSeq(D) BY DEF Densify
<1> HIDE DEF one
<1>5. ASSUME NEW i \in 1..m PROVE D[i] \in Seq(Dense)
  <2>1. CASE i = 1
    <3>1. D[i] = <<one>> BY <1>1, <2>1
    <3>2. <<one>> \in Seq(Dense) BY <1>3
    <3> QED BY <3>1, <3>2
  <2>2. CASE i # 1
    <3>1. i - 1 \in 1..m BY <2>2
    <3>2. D[i] = Segment(p[i - 1], p[i]) BY <1>1, <2>2
    <3>3. Segment(p[i - 1], p[i]) \in Seq(Dense) BY <1>1, <3>1, SegmentType
    <3> QED BY <3>2, <3>3
  <2> QED BY <2>1, <2>2
<1>6. D[1] = <<one>> BY <1>1, <1>2
<1>7. D = [i \in 1..m |-> D[i]] BY <1>1
<1> HIDE DEF D
<1>8. D \in [1..m -> Seq(Dense)] BY <1>5, <1>7
<1>9. D \in Seq(Seq(Dense)) /\ Len(D) = m BY <1>8
<1> DEFINE d == FlattenSeq(D)
<1>10. d \in Seq(Dense) /\ Before(D, 1) = 0 /\ Before(D, 1 + 1) = Before(D, 1) + Len(D[1])
       /\ Before(D, 1 + 1) <= Len(d)
  BY <1>2, <1>9, FlattenPlaces
<1>11. Len(D[1]) = 1 BY <1>6
<1> HIDE DEF d
<1>12. Len(d) \in Nat BY <1>10
<1>13. Len(d) >= 1 BY <1>10, <1>11, <1>12
<1> QED BY <1>4, <1>10, <1>13 DEF d

(* and so its heights above ground are numbers, of which there is at least *)
(* one.                                                                    *)
LEMMA HeightsType ==
    ASSUME NEW m \in Nat \ {0}, NEW p, Len(p) = m, AreSamples(p, m),
           NEW e \in Entries, NEW readable \in SUBSET OnLand
    PROVE  \E n \in Nat \ {0} :
              LET h == Heights(p, e, readable)
              IN  /\ Len(h) = n /\ DOMAIN h = 1..n
                  /\ \A i \in 1..n : h[i].at \in Int /\ h[i].agl \in Int
<1> DEFINE dense == Densify(p) n == Len(dense) h == Heights(p, e, readable)
<1>1. dense \in Seq(Dense) /\ n >= 1 BY DensifyType
<1>2. h = [i \in DOMAIN dense |->
              [at  |-> dense[i].at,
               agl |-> dense[i].alt + CorrectionAt(e, dense[i].at) - Ground(dense[i].place, readable)]]
  BY DEF Heights
<1> HIDE DEF dense, h
<1>3. n \in Nat \ {0} /\ DOMAIN dense = 1..n BY <1>1
<1>4. DOMAIN h = 1..n BY <1>2, <1>3
<1>5. Len(h) = n BY <1>3, <1>4
<1>6. ASSUME NEW i \in 1..n PROVE h[i].at \in Int /\ h[i].agl \in Int
  <2> DEFINE x == dense[i] c == CorrectionAt(e, x.at) g == Ground(x.place, readable)
  <2>1. x \in Dense BY <1>1, <1>3
  <2>2. h[i] = [at |-> x.at, agl |-> x.alt + c - g] BY <1>2, <1>3
  <2> HIDE DEF x
  <2>3. x.at \in Int /\ x.place \in Int /\ x.alt \in Int BY <2>1 DEF Dense
  <2>4. c \in Int BY <2>3, CorrectionAtType
  <2>5. g \in Int
    <3>1. Elevation \in [OnLand -> Int] BY TerrainConstants
    <3>2. \A t \in readable : Elevation[t] \in Int BY <3>1
    <3> QED BY <3>2 DEF Ground
  <2> HIDE DEF c, g
  <2>6. x.alt + c - g \in Int BY <2>3, <2>4, <2>5
  <2> DEFINE a == x.alt + c - g
  <2>7. a \in Int /\ h[i] = [at |-> x.at, agl |-> a] BY <2>2, <2>6
  <2> HIDE DEF a
  <2> QED BY <2>3, <2>7
<1> QED BY <1>3, <1>4, <1>5, <1>6 DEF h

(* The correction series of a flight. *)
LEMMA CorrectionOfFlight ==
    ASSUME NEW r \in DOMAIN Raws
    PROVE  /\ CorrectionOf[r] = Corrections(Vertices(r))
           /\ Follows(CorrectionOf[r], Vertices(r), Len(Vertices(r)))
           /\ CorrectionOf[r] \in Entries
<1>1. CorrectionOf[r] = Corrections(Vertices(r)) BY DEF CorrectionOf, Vertices
<1> DEFINE v == Vertices(r) n == Len(v)
<1>2. n \in Nat \ {0} /\ InTime(v, n) /\ \A i \in 1..n : v[i].qnh \in Int BY VerticesInTime
<1> HIDE DEF v
<1>3. Follows(Corrections(v), v, n) BY <1>2, CorrectionsFollow
<1> QED BY <1>1, <1>3 DEF v, Follows

(* Every flight is simplified within the tolerances: each series by what   *)
(* TD-TR covers, the codes by the anchors that the spatial pass begins     *)
(* with.                                                                   *)
LEMMA FlightSimplified == \A r \in DOMAIN Raws : Simplified[r]
<1> TAKE r \in DOMAIN Raws
<1> DEFINE Part(q) ==
        LET s    == Samples[r][q]
            path == PathOf[r][q]
        IN  /\ Within(s, Kept[r][q], OffAlt(s), Everywhere(s, AltitudeTolerance))
            /\ Within(s, Kept[r][q], OffPlace(s), Everywhere(s, 2 * SpatialTolerance))
            /\ AllReport("gs", path, DOMAIN path) =>
                  Within(path, SpeedKept(path), OffSpeed(path), Everywhere(path, SpeedTolerance))
            /\ AllReport("track", path, DOMAIN path) =>
                  Within(path, TrackKept(path), OffTrack(path), Everywhere(path, TrackTolerance))
            /\ \A readable \in SUBSET OnLand :
                  LET h == Heights(path, CorrectionOf[r], readable)
                  IN  Within(h, AglKept(h), OffHeight(h), Tolerances(h))
            /\ \A i \in DOMAIN s :
                  LET runs == {run \in SquawkRuns(path) : run.at <= s[i].at}
                  IN  s[i].squawk = UNION {run.code : run \in {c \in runs : \A d \in runs : d.at <= c.at}}
<1>1. Simplified[r] = \A q \in DOMAIN PathOf[r] : Part(q) BY DEF Simplified
<1>2. DOMAIN PathOf[r] = 1..Len(Raws[r].seqs)
  <2> DEFINE seqs == Raws[r].seqs
  <2>1. seqs \in Seq(Seq(Sample)) BY RawFacts
  <2>2. DOMAIN PathOf[r] = DOMAIN seqs BY DEF PathOf
  <2> HIDE DEF seqs
  <2>3. DOMAIN seqs = 1..Len(seqs) BY <2>1
  <2> QED BY <2>2, <2>3 DEF seqs
<1>3. ASSUME NEW q \in 1..Len(Raws[r].seqs) PROVE Part(q)
  <2> DEFINE n == Len(Raws[r].seqs[q]) s == Samples[r][q] kept == Kept[r][q]
             path == PathOf[r][q] m == Len(path)
  <2>1. /\ n \in Nat /\ n >= 2 /\ Len(s) = n /\ DOMAIN s = 1..n /\ AreSamples(s, n)
        /\ Anchors(s) \subseteq kept /\ kept \subseteq 1..n
        /\ Within(s, kept, OffAlt(s), Everywhere(s, AltitudeTolerance))
        /\ Within(s, kept, OffPlace(s), Everywhere(s, 2 * SpatialTolerance))
        /\ path = Picked(s, kept)
        /\ m \in Nat \ {0} /\ AreSamples(path, m)
    BY StoredPart
  <2> HIDE DEF n, s, kept, path
  <2>2. AllReport("gs", path, DOMAIN path) =>
           Within(path, SpeedKept(path), OffSpeed(path), Everywhere(path, SpeedTolerance))
    BY <2>1, SpeedWithin
  <2>3. AllReport("track", path, DOMAIN path) =>
           Within(path, TrackKept(path), OffTrack(path), Everywhere(path, TrackTolerance))
    BY <2>1, TrackWithin
  <2>4. ASSUME NEW readable \in SUBSET OnLand
        PROVE  LET h == Heights(path, CorrectionOf[r], readable)
               IN  Within(h, AglKept(h), OffHeight(h), Tolerances(h))
    <3> DEFINE h == Heights(path, CorrectionOf[r], readable)
    <3>1. CorrectionOf[r] \in Entries BY CorrectionOfFlight
    <3>2. PICK d \in Nat \ {0} : /\ Len(h) = d /\ DOMAIN h = 1..d
                                 /\ \A i \in 1..d : h[i].at \in Int /\ h[i].agl \in Int
      BY <2>1, <3>1, HeightsType
    <3> HIDE DEF h
    <3>3. Within(h, AglKept(h), OffHeight(h), Tolerances(h)) BY <3>2, HeightsWithin
    <3> QED BY <3>3 DEF h
  <2>5. ASSUME NEW i \in DOMAIN s
        PROVE  LET runs == {run \in SquawkRuns(path) : run.at <= s[i].at}
               IN  s[i].squawk = UNION {run.code : run \in {c \in runs : \A d \in runs : d.at <= c.at}}
    <3>1. s[i].squawk = CodeAt(path, s[i].at) BY <2>1, CodesKept
    <3> QED BY <3>1 DEF CodeAt
  <2>6. /\ Within(s, kept, OffAlt(s), Everywhere(s, AltitudeTolerance))
        /\ Within(s, kept, OffPlace(s), Everywhere(s, 2 * SpatialTolerance))
    BY <2>1
  <2> QED BY <2>2, <2>3, <2>4, <2>5, <2>6 DEF s, kept, path
<1> HIDE DEF Part
<1> QED BY <1>1, <1>2, <1>3

(* Of what is in effect in the whole series, a part of it knows as much,   *)
(* from its first entry to its last.                                       *)
LEMMA PartFollows ==
    ASSUME NEW v, NEW k \in Nat, NEW e, Follows(e, v, k), NEW b \in Nat, NEW u \in Nat, u <= Len(e),
           NEW part, part = SubSeq(e, b + 1, u), part # <<>>, NEW i \in 1..k, v[i].at \in Int,
           part[1].at <= v[i].at, v[i].at <= Last(part).at
    PROVE  Abs(CorrectionAt(part, v[i].at) - v[i].qnh) < Threshold
<1> DEFINE R == [at : Int, value : Int] l == Len(e) t == v[i].at n == u - b
<1>1. e \in Seq(R) /\ (\A c, d \in 1..l : c < d => e[c].at < e[d].at) BY DEF Follows, Entries
<1>2. PICK c \in 1..l : InEffect(e, v, i, c) BY DEF Follows
<1> HIDE DEF R
<1>3. l \in Nat /\ DOMAIN e = 1..l /\ \A j \in 1..l : e[j] \in R BY <1>1
<1>4. \A j \in 1..l : e[j].at \in Int BY <1>3 DEF R
<1>5. n \in Nat \ {0} /\ Len(part) = n /\ DOMAIN part = 1..n /\ \A j \in 1..n : part[j] = e[b + j]
  <2>1. b + 1 <= u
    <3> SUFFICES ASSUME u < b + 1 PROVE FALSE OBVIOUS
    <3>1. SubSeq(e, b + 1, u) = <<>> BY <1>1
    <3> QED BY <3>1
  <2>2. \A j \in (b + 1)..u : e[j] \in R BY <1>3, <2>1
  <2>3. part \in Seq(R) /\ Len(part) = n /\ \A j \in 1..n : part[j] = e[b + j] BY <1>1, <1>3, <2>1, <2>2
  <2>4. n \in Nat \ {0} BY <2>1
  <2> QED BY <2>3, <2>4
<1> HIDE DEF l, t
<1>6. e[c].at <= t /\ (c < l => t < e[c + 1].at) /\ Abs(e[c].value - v[i].qnh) < Threshold
  BY <1>2 DEF InEffect, l, t
<1>7. Last(part) = e[u] /\ part[1] = e[b + 1]
  <2>1. Last(part) = part[n] BY <1>5 DEF Last
  <2>2. b + n = u /\ n \in 1..n /\ 1 \in 1..n BY <1>5
  <2> QED BY <1>5, <2>1, <2>2
<1>8. t \in Int /\ e[b + 1].at <= t /\ t <= e[u].at BY <1>7 DEF t
<1>9. b + 1 \in 1..l /\ u \in 1..l BY <1>3, <1>5 DEF l
<1>10. b + 1 <= c
  <2> SUFFICES ASSUME c < b + 1 PROVE FALSE BY <1>3
  <2>1. c + 1 \in 1..l /\ (c + 1 = b + 1 \/ c + 1 < b + 1) BY <1>3, <1>9
  <2>2. t < e[c + 1].at BY <1>3, <1>6, <2>1
  <2>3. e[c + 1].at <= e[b + 1].at
    <3>1. CASE c + 1 = b + 1 BY <1>4, <1>9, <3>1
    <3>2. CASE c + 1 < b + 1
      <4>1. e[c + 1].at < e[b + 1].at BY <1>1, <1>9, <2>1, <3>2 DEF l
      <4>2. e[c + 1].at \in Int /\ e[b + 1].at \in Int BY <1>4, <1>9, <2>1
      <4> QED BY <4>1, <4>2
    <3> QED BY <2>1, <3>1, <3>2
  <2>4. e[c + 1].at \in Int /\ e[b + 1].at \in Int BY <1>4, <1>9, <2>1
  <2> QED BY <1>8, <2>2, <2>3, <2>4
<1>11. c <= u
  <2> SUFFICES ASSUME u < c PROVE FALSE BY <1>3
  <2>1. e[u].at < e[c].at BY <1>1, <1>9 DEF l
  <2> QED BY <1>4, <1>6, <1>8, <1>9, <2>1
<1> DEFINE d == c - b
<1>12. d \in 1..n /\ b + d = c BY <1>3, <1>10, <1>11
<1>13. \A j \in 1..n : part[j].at \in Int
  <2> TAKE j \in 1..n
  <2>1. b + j \in 1..l BY <1>3, <1>9
  <2> QED BY <1>4, <1>5, <2>1
<1>14. \A j, m \in 1..n : j < m => part[j].at < part[m].at
  <2> TAKE j, m \in 1..n
  <2>1. b + j \in 1..l /\ b + m \in 1..l /\ (j < m => b + j < b + m) BY <1>3, <1>9
  <2> QED BY <1>1, <1>5, <2>1 DEF l
<1> HIDE DEF n, d
<1>15. part[d].at <= t /\ part[d].value = e[c].value BY <1>5, <1>6, <1>12
<1>16. d < n => t < part[d + 1].at
  <2> SUFFICES ASSUME d < n PROVE t < part[d + 1].at OBVIOUS
  <2>1. d + 1 \in 1..n /\ b + (d + 1) = c + 1 BY <1>3, <1>5, <1>12
  <2>2. c < l BY <1>3, <1>9, <1>12, <2>1 DEF n
  <2> QED BY <1>5, <1>6, <2>1, <2>2
<1>17. CorrectionAt(part, t) = part[d].value
  <2>1. n \in Nat /\ DOMAIN part = 1..n /\ part # <<>> /\ d \in 1..n /\ t \in Int
    BY <1>5, <1>8, <1>12
  <2>2. part[d].at <= t /\ (d < n => t < part[d + 1].at) BY <1>15, <1>16
  <2> QED BY ONLY <1>13, <1>14, <2>1, <2>2, CorrectionAtIs
<1> QED BY <1>6, <1>15, <1>17 DEF t

(* The parts of the series that are stored are in effect wherever they are *)
(* defined, and if there is one sub-sequence they are the whole series.    *)
LEMMA CorrectionStored ==
    ASSUME NEW r \in DOMAIN Raws, NEW i \in 1..Len(Vertices(r))
    PROVE  LET v     == Vertices(r)[i]
               parts == PartsAt(StoredCorrectionOf[r], v.at)
           IN  /\ Len(PathOf[r]) = 1 => parts # {}
               /\ \A part \in parts : Abs(CorrectionAt(part, v.at) - v.qnh) < Threshold
<1> DEFINE path == PathOf[r] V == Vertices(r) k == Len(V) e == CorrectionOf[r] l == Len(e)
           N == Len(Raws[r].seqs)
           upTo(n) == IF n < l THEN n ELSE l
           B(q) == Before(path, q)
           parts == [q \in DOMAIN path |-> SubSeq(e, B(q) + 1, upTo(B(q) + Len(path[q])))]
           S == {q \in DOMAIN path : parts[q] # <<>>}
           stored == StoredCorrectionOf[r]
<1>1. /\ k \in Nat \ {0} /\ InTime(V, k)
      /\ \A j \in 1..k : V[j].qnh \in Int
  BY VerticesInTime
<1>2. PICK T : path \in Seq(Seq(T)) BY VerticesInTime
<1>3. Follows(e, V, k) BY CorrectionOfFlight
<1>4. stored = Picked(parts, S)
  BY DEF StoredCorrectionOf, StoredCorrection, Before, FlatTo
<1>5. N \in Nat \ {0} /\ DOMAIN path = 1..N /\ Len(path) = N
  <2> DEFINE seqs == Raws[r].seqs
  <2>1. seqs \in Seq(Seq(Sample)) /\ N \in Nat \ {0} BY RawFacts
  <2>2. DOMAIN path = DOMAIN seqs BY DEF PathOf
  <2> HIDE DEF path, seqs
  <2>3. DOMAIN seqs = 1..N BY <2>1 DEF seqs
  <2> QED BY <2>1, <2>2, <2>3
<1>6. /\ V = FlattenSeq(path) /\ Len(V) = Before(path, Len(path) + 1) /\ B(1) = 0
      /\ \A q \in 1..Len(path) : /\ B(q) \in Nat /\ B(q + 1) = B(q) + Len(path[q])
                                 /\ B(q + 1) <= Len(V)
  BY <1>2, FlattenPlaces DEF Vertices
<1>7. \A q \in 1..N : Len(path[q]) \in Nat
  <2> TAKE q \in 1..N
  <2> HIDE DEF path, N
  <2>1. path[q] \in Seq(T) BY <1>2, <1>5
  <2> QED BY <2>1
<1>8. V[i].at \in Int BY <1>1 DEF InTime
<1>9. l \in Nat /\ l >= 1 /\ l <= k BY <1>1, <1>3 DEF Follows
<1> HIDE DEF path, V, e, N
<1>10. /\ Cardinality(S) \in Nat
       /\ \A j \in 1..Cardinality(S) : Nth(S, j) \in S
       /\ \A q \in S : \E j \in 1..Cardinality(S) : Nth(S, j) = q
  <2>1. S \in SUBSET (1..N) BY <1>5
  <2> HIDE DEF S
  <2> QED BY <1>5, <2>1, NthKept
<1>11. ToSet(stored) = {parts[q] : q \in S}
  <2>1. DOMAIN stored = 1..Cardinality(S) /\ \A j \in 1..Cardinality(S) : stored[j] = parts[Nth(S, j)]
    BY <1>4 DEF Picked
  <2>2. ToSet(stored) = {stored[j] : j \in DOMAIN stored} BY DEF ToSet
  <2> HIDE DEF S, parts, stored
  <2>3. ASSUME NEW x \in ToSet(stored) PROVE x \in {parts[q] : q \in S} BY <1>10, <2>1, <2>2
  <2>4. ASSUME NEW q \in S PROVE parts[q] \in ToSet(stored)
    <3>1. PICK j \in 1..Cardinality(S) : Nth(S, j) = q BY <1>10
    <3>2. stored[j] = parts[q] /\ j \in DOMAIN stored BY <2>1, <3>1
    <3> QED BY <2>2, <3>2
  <2> QED BY <2>3, <2>4
<1>12. ASSUME NEW part \in PartsAt(stored, V[i].at)
       PROVE  Abs(CorrectionAt(part, V[i].at) - V[i].qnh) < Threshold
  <2>1. part \in ToSet(stored) /\ part[1].at <= V[i].at /\ V[i].at <= Last(part).at BY DEF PartsAt
  <2>2. PICK q \in S : part = parts[q]
    <3> HIDE DEF stored, parts, S
    <3> QED BY <1>11, <2>1
  <2>3. q \in 1..N /\ parts[q] # <<>> BY <1>5
  <2> DEFINE b == B(q) u == upTo(B(q) + Len(path[q]))
  <2>4. part = SubSeq(e, b + 1, u) BY <1>5, <2>2, <2>3
  <2>5. b \in Nat /\ Len(path[q]) \in Nat BY <1>5, <1>6, <1>7, <2>3
  <2>6. u \in Nat /\ u <= l BY <1>9, <2>5
  <2>7. part # <<>> BY <2>2, <2>3
  <2>8. k \in Nat /\ i \in 1..k BY <1>1 DEF V
  <2> HIDE DEF b, u, parts, S, stored
  <2> QED BY <1>3, <1>8, <2>1, <2>4, <2>5, <2>6, <2>7, <2>8, PartFollows
<1>13. ASSUME Len(path) = 1 PROVE PartsAt(stored, V[i].at) # {}
  <2>1. N = 1 /\ 1 \in 1..Len(path) /\ 1 \in DOMAIN path BY <1>5, <1>13
  <2>2. Len(path[1]) = k /\ B(1) = 0
    <3>1. B(1 + 1) = B(1) + Len(path[1]) /\ B(1) = 0 /\ Len(V) = B(1 + 1) /\ Len(path[1]) \in Nat
      BY <1>6, <1>7, <1>13, <2>1
    <3> HIDE DEF B
    <3> QED BY <3>1
  <2>3. upTo(B(1) + Len(path[1])) = l BY <1>1, <1>9, <2>2
  <2>4. parts[1] = SubSeq(e, 1, l)
    <3>1. B(1) + 1 = 1 BY <2>2
    <3>2. parts[1] = SubSeq(e, B(1) + 1, upTo(B(1) + Len(path[1]))) BY <2>1
    <3> HIDE DEF B, upTo, parts
    <3> QED BY <2>3, <3>1, <3>2
  <2>5. e \in Seq([at : Int, value : Int]) BY <1>3 DEF Follows, Entries
  <2>6. parts[1] = e
    <3> DEFINE R == [at : Int, value : Int]
    <3>1. e \in Seq(R) BY <2>5
    <3> HIDE DEF R, parts
    <3>2. SubSeq(e, 1, l) = e BY <3>1
    <3> QED BY <2>4, <3>2
  <2>7. e # <<>> BY <1>9
  <2>8. 1 \in S BY <2>1, <2>6, <2>7
  <2>9. e \in ToSet(stored)
    <3> HIDE DEF S, parts, stored
    <3> QED BY <1>11, <2>6, <2>8
  <2>10. e[1].at = V[1].at /\ Last(e) = e[l] /\ e[l].at = V[k].at
    <3>1. Last(e) = e[l] BY DEF Last
    <3> QED BY <1>3, <3>1 DEF Follows
  <2>11. V[1].at <= V[i].at /\ V[i].at <= V[k].at
    <3>1. i \in 1..k /\ 1 \in 1..k /\ k \in 1..k BY <1>1 DEF V
    <3>2. (i = 1 \/ 1 < i) /\ (i = k \/ i < k) BY <1>1, <3>1
    <3>3. (\A a \in 1..k : V[a].at \in Int) /\ \A a, b \in 1..k : a < b => V[a].at < V[b].at
      BY <1>1 DEF InTime
    <3> HIDE DEF k
    <3>4. V[1].at <= V[i].at BY <3>1, <3>2, <3>3
    <3>5. V[i].at <= V[k].at BY <3>1, <3>2, <3>3
    <3> QED BY <3>4, <3>5
  <2>12. e \in PartsAt(stored, V[i].at)
    <3> HIDE DEF stored
    <3> QED BY <2>9, <2>10, <2>11 DEF PartsAt
  <2> QED BY <2>12
<1> HIDE DEF stored
<1> QED BY <1>12, <1>13 DEF path, V, stored

(* So are those of every row. *)
LEMMA EveryCorrectionFollows ==
    ASSUME \A f \in DOMAIN flights : flights[f].raw \in DOMAIN Raws
    PROVE  CorrectionFollowsPressure
<1> SUFFICES ASSUME NEW f \in DOMAIN flights, NEW v \in ToSet(FlattenSeq(PathOf[flights[f].raw]))
             PROVE  LET r     == flights[f].raw
                        parts == PartsAt(StoredCorrectionOf[r], v.at)
                    IN  /\ Len(PathOf[r]) = 1 => parts # {}
                        /\ \A part \in parts : Abs(CorrectionAt(part, v.at) - v.qnh) < Threshold
  BY DEF CorrectionFollowsPressure
<1> DEFINE r == flights[f].raw
<1>1. r \in DOMAIN Raws OBVIOUS
<1> HIDE DEF r
<1>2. Len(Vertices(r)) \in Nat /\ InTime(Vertices(r), Len(Vertices(r))) BY <1>1, VerticesInTime
<1>3. PICK i \in DOMAIN Vertices(r) : v = Vertices(r)[i] BY DEF ToSet, Vertices, r
<1>4. i \in 1..Len(Vertices(r)) BY <1>2, <1>3 DEF InTime
<1> DEFINE parts == PartsAt(StoredCorrectionOf[r], v.at)
<1>5. /\ Len(PathOf[r]) = 1 => parts # {}
      /\ \A part \in parts : Abs(CorrectionAt(part, v.at) - v.qnh) < Threshold
  BY <1>1, <1>3, <1>4, CorrectionStored
<1> QED BY <1>5 DEF r

(* It is known whether a flight is one of a rotorcraft. *)
LEMMA RotorKnown == \A r \in DOMAIN Raws : Raws[r].rotor \in BOOLEAN
<1> DEFINE R == [rotor : BOOLEAN, seqs : Seq(Seq(Sample))]
<1>1. Raws \in Seq(R) BY StoredFlightConstants
<1>2. \A x \in R : x.rotor \in BOOLEAN
  <2> DEFINE S == Seq(Seq(Sample))
  <2> HIDE DEF S
  <2> QED OBVIOUS
<1> HIDE DEF R
<1> QED BY <1>1, <1>2

(* A path begins and ends at a place. *)
LEMMA PathsHaveEnds ==
    \A r \in DOMAIN Raws :
        LET v == FlattenSeq(PathOf[r]) IN v[1].place \in Int /\ Last(v).place \in Int
<1> TAKE r \in DOMAIN Raws
<1> DEFINE v == Vertices(r) n == Len(v)
<1>1. n \in Nat \ {0} /\ \A i \in 1..n : v[i].place \in Int BY VerticesInTime
<1>2. 1 \in 1..n /\ n \in 1..n BY <1>1
<1>3. Last(v) = v[n] BY DEF Last
<1> HIDE DEF v
<1>4. v[1].place \in Int /\ Last(v).place \in Int BY <1>1, <1>2, <1>3
<1> QED BY <1>4 DEF v, Vertices

-----------------------------------------------------------------------------
(* The table and what the backfills hold of it.                            *)

IsRow(x)  == x = [raw |-> x.raw, agl |-> x.agl, airports |-> x.airports, length |-> x.length]
IsItem(x) == x = [raw |-> x.raw, done |-> x.done, agl |-> x.agl]

IsTable(t)  == t = [f \in DOMAIN t |-> t[f]] /\ \A f \in DOMAIN t : IsRow(t[f]) /\ t[f].raw \in DOMAIN Raws
AreItems(t) == t = [f \in DOMAIN t |-> t[f]] /\ \A f \in DOMAIN t : IsItem(t[f])

(* The fields of the records that the jobs keep. *)

HeightsShape ==
    /\ heights = [pc |-> heights.pc, asked |-> heights.asked, todo |-> heights.todo, pending |-> heights.pending,
                  missed |-> heights.missed, failed |-> heights.failed]
    /\ AreItems(heights.pending)

IdentsShape ==
    /\ idents = [pc |-> idents.pc, index |-> idents.index, asked |-> idents.asked, todo |-> idents.todo,
                 pending |-> idents.pending]
    /\ idents.index \in [fields : SUBSET Airports, heliports : SUBSET Airports]

Bounds == [keys : SUBSET Flights, raws : SUBSET DOMAIN Raws, jobs : Nat, failures : Nat, kills : Nat]

Shapes ==
    /\ load \in Bounds
    /\ IsTable(flights)
    /\ HeightsShape
    /\ IdentsShape
    /\ raced = [heights |-> raced.heights, idents |-> raced.idents]

(* Whatever is charged to the bounds of a behaviour leaves them bounds. *)
LEMMA LoadStep ==
    ASSUME load \in Bounds, StartsJob \/ Fails \/ Killed \/ UNCHANGED load
    PROVE  load' \in Bounds
BY DEF StartsJob, Fails, Killed, Bounds

(* A row stays one when one of its columns is written. *)
LEMMA RowWithHeights ==
    ASSUME NEW x, IsRow(x), NEW v
    PROVE  [x EXCEPT !.agl = v] = [raw |-> x.raw, agl |-> v, airports |-> x.airports, length |-> x.length]
BY DEF IsRow

LEMMA RowWithAirports ==
    ASSUME NEW x, IsRow(x), NEW v
    PROVE  [x EXCEPT !.airports = v] = [raw |-> x.raw, agl |-> x.agl, airports |-> v, length |-> x.length]
BY DEF IsRow

LEMMA RowWithLength ==
    ASSUME NEW x, IsRow(x), NEW v
    PROVE  [x EXCEPT !.length = v] = [raw |-> x.raw, agl |-> x.agl, airports |-> x.airports, length |-> v]
BY DEF IsRow

(* The heights that a path has over some of the tiles of the bucket. *)
Sound(r) == {AglOf[r][readable] : readable \in SUBSET OnLand}

LEMMA ReadableOnLand == ASSUME TileInv, NEW missed PROVE Readable(missed) \in SUBSET OnLand
BY DEF TileInv, Readable

(* What each action that writes the table leaves in it. *)

LEMMA UpsertRow ==
    ASSUME TileInv, Shapes, NEW k, NEW r \in load.raws, UpsertFlight(k, r)
    PROVE  /\ IsTable(flights') /\ DOMAIN flights' = DOMAIN flights \cup {k}
           /\ \A f \in DOMAIN flights' : f # k => flights'[f] = flights[f]
           /\ flights'[k].raw = r /\ flights'[k].length = {LengthOf[r]}
           /\ flights'[k].agl # {} /\ flights'[k].agl \subseteq Sound(r)
<1>1. PICK missed : 
          flights' = [f \in DOMAIN flights \cup {k} |->
             IF f = k THEN [raw |-> r, agl |-> {AglOf[r][Readable(missed)]},
                            airports |-> AirportsOf(batch.index, r, {AglOf[r][Readable(missed)]}),
                            length |-> {LengthOf[r]}]
             ELSE flights[f]]
  BY Zenon DEF UpsertFlight, Upserted
<1>2. PICK x : x = [raw |-> r, agl |-> {AglOf[r][Readable(missed)]},
                    airports |-> AirportsOf(batch.index, r, {AglOf[r][Readable(missed)]}),
                    length |-> {LengthOf[r]}]
  OBVIOUS
<1>3. flights' = [f \in DOMAIN flights \cup {k} |-> IF f = k THEN x ELSE flights[f]]
  BY <1>1, <1>2
<1>4. IsRow(x) /\ x.raw = r /\ x.length = {LengthOf[r]} /\ x.agl = {AglOf[r][Readable(missed)]}
  BY <1>2 DEF IsRow
<1>5. r \in DOMAIN Raws
  BY DEF Shapes, HeightsShape, IdentsShape, Bounds
<1>6. x.agl # {} /\ x.agl \subseteq Sound(r)
  BY <1>4, ReadableOnLand DEF Sound
<1>7. DOMAIN flights' = DOMAIN flights \cup {k} /\ flights'[k] = x
      /\ \A f \in DOMAIN flights' : f # k => flights'[f] = flights[f]
  BY <1>3
<1>8. flights' = [f \in DOMAIN flights' |-> flights'[f]]
  BY <1>3
<1>9. ASSUME NEW f \in DOMAIN flights' PROVE IsRow(flights'[f]) /\ flights'[f].raw \in DOMAIN Raws
  <2>1. CASE f = k
    BY <2>1, <1>4, <1>5, <1>7
  <2>2. CASE f # k
    BY <2>2, <1>7 DEF Shapes, IsTable
  <2>3. QED
    BY <2>1, <2>2
<1>10. QED
  BY <1>4, <1>6, <1>7, <1>8, <1>9 DEF IsTable

LEMMA EndBatchRows ==
    ASSUME Shapes, EndBatch
    PROVE  \E gone : /\ IsTable(flights') /\ DOMAIN flights' = DOMAIN flights \ gone
                     /\ \A f \in DOMAIN flights' : flights'[f] = flights[f]
                     /\ raced' = Changed(gone)
<1>1. PICK gone : gone = batch.existing \ batch.upserted
  OBVIOUS
<1>2. flights' = [f \in DOMAIN flights \ gone |-> flights[f]] /\ raced' = Changed(gone)
  BY <1>1 DEF EndBatch
<1>3. DOMAIN flights' = DOMAIN flights \ gone /\ \A f \in DOMAIN flights' : flights'[f] = flights[f]
  BY <1>2
<1>4. IsTable(flights')
  BY <1>2, <1>3 DEF Shapes, IsTable
<1>5. QED
  BY <1>2, <1>3, <1>4

LEMMA FlushHeightsRows ==
    ASSUME Shapes, FlushHeights
    PROVE  /\ IsTable(flights') /\ DOMAIN flights' = DOMAIN flights
           /\ \A f \in DOMAIN flights :
                 /\ flights'[f].raw = flights[f].raw /\ flights'[f].length = flights[f].length
                 /\ f \in DOMAIN heights.pending /\ heights.pending[f].agl # {} =>
                       flights'[f].agl = heights.pending[f].agl
                 /\ ~(f \in DOMAIN heights.pending /\ heights.pending[f].agl # {}) => flights'[f] = flights[f]
<1>1. flights' = [f \in DOMAIN flights |->
                    IF f \in DOMAIN heights.pending /\ heights.pending[f].agl # {}
                    THEN [flights[f] EXCEPT !.agl = heights.pending[f].agl] ELSE flights[f]]
  BY DEF FlushHeights, Flushed
<1>2. DOMAIN flights' = DOMAIN flights /\ flights' = [f \in DOMAIN flights' |-> flights'[f]]
  BY <1>1
<1>3. ASSUME NEW f \in DOMAIN flights
      PROVE  /\ IsRow(flights'[f]) /\ flights'[f].raw = flights[f].raw /\ flights'[f].length = flights[f].length
             /\ f \in DOMAIN heights.pending /\ heights.pending[f].agl # {} =>
                   flights'[f].agl = heights.pending[f].agl
             /\ ~(f \in DOMAIN heights.pending /\ heights.pending[f].agl # {}) => flights'[f] = flights[f]
  <2>1. IsRow(flights[f])
    BY DEF Shapes, IsTable
  <2>2. CASE f \in DOMAIN heights.pending /\ heights.pending[f].agl # {}
    <3>1. PICK v : v = heights.pending[f].agl
      OBVIOUS
    <3>2. flights'[f] = [flights[f] EXCEPT !.agl = v]
      BY <1>1, <2>2, <3>1
    <3>3. flights'[f] = [raw |-> flights[f].raw, agl |-> v, airports |-> flights[f].airports,
                         length |-> flights[f].length]
      BY <3>2, <2>1, RowWithHeights
    <3>4. QED
      BY <3>1, <3>3, <2>2 DEF IsRow
  <2>3. CASE ~(f \in DOMAIN heights.pending /\ heights.pending[f].agl # {})
    <3>1. flights'[f] = flights[f]
      BY <1>1, <2>3
    <3>2. QED
      BY <3>1, <2>1, <2>3
  <2>4. QED
    BY <2>2, <2>3
<1>4. QED
  BY <1>2, <1>3 DEF Shapes, IsTable

LEMMA FlushIdentsRows ==
    ASSUME Shapes, FlushIdents
    PROVE  /\ IsTable(flights') /\ DOMAIN flights' = DOMAIN flights
           /\ \A f \in DOMAIN flights :
                 /\ flights'[f].raw = flights[f].raw /\ flights'[f].length = flights[f].length
                 /\ flights'[f].agl = flights[f].agl
                 /\ flights'[f].airports = IF f \in DOMAIN idents.pending THEN idents.pending[f]
                                           ELSE flights[f].airports
<1>1. flights' = [f \in DOMAIN flights |->
                    IF f \in DOMAIN idents.pending
                    THEN [flights[f] EXCEPT !.airports = idents.pending[f]] ELSE flights[f]]
  BY DEF FlushIdents
<1>2. DOMAIN flights' = DOMAIN flights /\ flights' = [f \in DOMAIN flights' |-> flights'[f]]
  BY <1>1
<1>3. ASSUME NEW f \in DOMAIN flights
      PROVE  /\ IsRow(flights'[f]) /\ flights'[f].raw = flights[f].raw /\ flights'[f].length = flights[f].length
             /\ flights'[f].agl = flights[f].agl
             /\ flights'[f].airports = IF f \in DOMAIN idents.pending THEN idents.pending[f]
                                       ELSE flights[f].airports
  <2>1. IsRow(flights[f])
    BY DEF Shapes, IsTable
  <2>2. CASE f \in DOMAIN idents.pending
    <3>1. PICK v : v = idents.pending[f]
      OBVIOUS
    <3>2. flights'[f] = [flights[f] EXCEPT !.airports = v]
      BY <1>1, <2>2, <3>1
    <3>3. flights'[f] = [raw |-> flights[f].raw, agl |-> flights[f].agl, airports |-> v,
                         length |-> flights[f].length]
      BY <3>2, <2>1, RowWithAirports
    <3>4. QED
      BY <3>1, <3>3, <2>2 DEF IsRow
  <2>3. CASE f \notin DOMAIN idents.pending
    <3>1. flights'[f] = flights[f]
      BY <1>1, <2>3
    <3>2. QED
      BY <3>1, <2>1, <2>3
  <2>4. QED
    BY <2>2, <2>3
<1>4. QED
  BY <1>2, <1>3 DEF Shapes, IsTable

LEMMA MeasureRows ==
    ASSUME Shapes, MeasureDay
    PROVE  /\ IsTable(flights') /\ DOMAIN flights' = DOMAIN flights
           /\ \A f \in DOMAIN flights :
                 /\ flights'[f].raw = flights[f].raw /\ flights'[f].agl = flights[f].agl
                 /\ flights'[f].airports = flights[f].airports
                 /\ flights'[f].length \in {flights[f].length, {LengthOf[flights[f].raw]}}
<1>1. flights' = [f \in DOMAIN flights |->
                    IF f \in Unmeasured /\ Day[f] = lengths.day
                    THEN [flights[f] EXCEPT !.length = {LengthOf[flights[f].raw]}] ELSE flights[f]]
  BY DEF MeasureDay
<1>2. DOMAIN flights' = DOMAIN flights /\ flights' = [f \in DOMAIN flights' |-> flights'[f]]
  BY <1>1
<1>3. ASSUME NEW f \in DOMAIN flights
      PROVE  /\ IsRow(flights'[f]) /\ flights'[f].raw = flights[f].raw /\ flights'[f].agl = flights[f].agl
             /\ flights'[f].airports = flights[f].airports
             /\ flights'[f].length \in {flights[f].length, {LengthOf[flights[f].raw]}}
  <2>1. IsRow(flights[f])
    BY DEF Shapes, IsTable
  <2>2. PICK v : v = {LengthOf[flights[f].raw]}
    OBVIOUS
  <2>3. CASE flights'[f] = [flights[f] EXCEPT !.length = v]
    <3>1. flights'[f] = [raw |-> flights[f].raw, agl |-> flights[f].agl, airports |-> flights[f].airports,
                         length |-> v]
      BY <2>3, <2>1, RowWithLength
    <3>2. QED
      BY <3>1, <2>2 DEF IsRow
  <2>4. CASE flights'[f] = flights[f]
    BY <2>4, <2>1
  <2>5. QED
    BY <1>1, <2>2, <2>3, <2>4
<1>4. QED
  BY <1>2, <1>3 DEF Shapes, IsTable

(* What has been read goes from what is to be read to what is held. *)

LEMMA WithItem ==
    ASSUME NEW held, NEW f, NEW item
    PROVE  /\ DOMAIN With(held, f, item) = DOMAIN held \cup {f}
           /\ With(held, f, item)[f] = item
           /\ \A g \in DOMAIN held : g # f => With(held, f, item)[g] = held[g]
           /\ AreItems(held) /\ IsItem(item) => AreItems(With(held, f, item))
BY DEF With, AreItems

LEMMA WithoutItem ==
    ASSUME NEW todo, NEW f
    PROVE  /\ DOMAIN Without(todo, f) = DOMAIN todo \ {f}
           /\ \A g \in DOMAIN Without(todo, f) : Without(todo, f)[g] = todo[g]
BY DEF Without, Restrict

LEMMA NothingHeld == DOMAIN Empty = {} /\ AreItems(Empty)
BY DEF Empty, AreItems

LEMMA RowsRead ==
    ASSUME NEW keys
    PROVE  DOMAIN Rows(keys) = keys /\ \A f \in keys : Rows(keys)[f] = flights[f]
BY DEF Rows

(* What each action of backfill-agl does to what it holds. *)

LEMMA ReadHeightsHolds ==
    ASSUME Shapes, ReadForHeights
    PROVE  \E f \in DOMAIN heights.todo :
              heights' = [pc |-> heights.pc, asked |-> heights.asked, todo |-> Without(heights.todo, f),
                          pending |-> With(heights.pending, f, [raw |-> heights.todo[f].raw, done |-> FALSE, agl |-> {}]),
                          missed |-> heights.missed, failed |-> heights.failed]
<1>1. PICK f \in Newest(heights.todo) :
         heights' = [heights EXCEPT !.todo = Without(@, f),
                                    !.pending = With(@, f, [raw |-> heights.todo[f].raw, done |-> FALSE, agl |-> {}])]
  BY DEF ReadForHeights
<1>2. f \in DOMAIN heights.todo
  BY DEF Newest
<1>3. PICK v, w : /\ v = Without(heights.todo, f)
                  /\ w = With(heights.pending, f, [raw |-> heights.todo[f].raw, done |-> FALSE, agl |-> {}])
  OBVIOUS
<1>4. heights' = [heights EXCEPT !.todo = v, !.pending = w]
  BY <1>1, <1>3
<1>5. heights' = [pc |-> heights.pc, asked |-> heights.asked, todo |-> v, pending |-> w,
                  missed |-> heights.missed, failed |-> heights.failed]
  BY <1>4 DEF Shapes, HeightsShape, IdentsShape, Bounds
<1>6. QED
  BY <1>2, <1>3, <1>5

LEMMA ComputeHolds ==
    ASSUME Shapes, TileInv, NEW f \in DOMAIN heights.pending, ComputeHeights(f) \/ ComputeFails(f)
    PROVE  \E item :
              /\ IsItem(item) /\ item.raw = heights.pending[f].raw
              /\ item.agl \subseteq Sound(item.raw) \/ item.agl = heights.pending[f].agl
              /\ \E failed : /\ heights.failed \subseteq failed
                             /\ item.agl = {} => f \in failed
                             /\ \E missed : heights' = [pc |-> heights.pc, asked |-> heights.asked, todo |-> heights.todo,
                                                        pending |-> [heights.pending EXCEPT ![f] = item],
                                                        missed |-> missed, failed |-> failed]
<1>0. IsItem(heights.pending[f])
  BY DEF Shapes, HeightsShape, AreItems
<1>1. CASE ComputeHeights(f)
  <2>1. PICK item, missed :
           /\ item = [raw |-> heights.pending[f].raw, done |-> TRUE,
                      agl |-> {AglOf[heights.pending[f].raw][Readable(heights.missed)]}]
           /\ missed = MissedAfter(heights.missed, Crossed(heights.pending[f].raw))
    OBVIOUS
  <2>2. heights' = [heights EXCEPT !.pending[f] = item, !.missed = missed]
    BY <1>1, <2>1 DEF ComputeHeights
  <2>3. heights' = [pc |-> heights.pc, asked |-> heights.asked, todo |-> heights.todo,
                    pending |-> [heights.pending EXCEPT ![f] = item], missed |-> missed, failed |-> heights.failed]
    BY <2>2 DEF Shapes, HeightsShape, IdentsShape, Bounds
  <2>4. /\ IsItem(item) /\ item.raw = heights.pending[f].raw /\ item.agl # {}
        /\ item.agl = {AglOf[item.raw][Readable(heights.missed)]}
    BY <2>1 DEF IsItem
  <2>5. item.agl \subseteq Sound(item.raw)
    BY <2>4, ReadableOnLand DEF Sound
  <2>6. QED
    BY <2>3, <2>4, <2>5
<1>2. CASE ComputeFails(f)
  <2>1. PICK item, failed :
           item = [heights.pending[f] EXCEPT !.done = TRUE] /\ failed = heights.failed \cup {f}
    OBVIOUS
  <2>2. item = [raw |-> heights.pending[f].raw, done |-> TRUE, agl |-> heights.pending[f].agl]
    BY <1>0, <2>1 DEF IsItem
  <2>3. heights' = [heights EXCEPT !.pending[f] = item, !.failed = failed]
    BY <1>2, <2>1 DEF ComputeFails
  <2>4. heights' = [pc |-> heights.pc, asked |-> heights.asked, todo |-> heights.todo,
                    pending |-> [heights.pending EXCEPT ![f] = item], missed |-> heights.missed, failed |-> failed]
    BY <2>3 DEF Shapes, HeightsShape, IdentsShape, Bounds
  <2>5. IsItem(item) /\ item.raw = heights.pending[f].raw /\ item.agl = heights.pending[f].agl
    BY <2>2 DEF IsItem
  <2>6. QED
    BY <2>1, <2>4, <2>5
<1>3. QED
  BY <1>1, <1>2

LEMMA StartHeightsHolds ==
    ASSUME StartHeights
    PROVE  LET asked == {f \in DOMAIN flights : flights[f].agl = {}}
           IN  heights' = [pc |-> "running", asked |-> asked, todo |-> Rows(asked), pending |-> Empty,
                           missed |-> {}, failed |-> {}]
<1>1. PICK n, asked, todo : /\ n = NoHeights /\ asked = {f \in DOMAIN flights : flights[f].agl = {}}
                            /\ todo = Rows(asked)
  OBVIOUS
<1>2. n = [pc |-> n.pc, asked |-> n.asked, todo |-> n.todo, pending |-> n.pending, missed |-> n.missed,
           failed |-> n.failed]
      /\ n.pending = Empty /\ n.missed = {} /\ n.failed = {}
  BY <1>1 DEF NoHeights
<1>3. heights' = [n EXCEPT !.pc = "running", !.asked = asked, !.todo = todo]
  BY <1>1 DEF StartHeights
<1>4. heights' = [pc |-> "running", asked |-> asked, todo |-> todo, pending |-> Empty, missed |-> {}, failed |-> {}]
  BY <1>2, <1>3
<1>5. QED
  BY <1>1, <1>4

(* What each action of backfill-airports does to what it holds. *)

LEMMA StartIdentsHolds ==
    ASSUME StartIdents
    PROVE  idents' = [pc |-> "running", index |-> Index, asked |-> DOMAIN flights, todo |-> Rows(DOMAIN flights),
                      pending |-> Empty]
<1>1. PICK n, index, asked, todo : /\ n = NoIdents /\ index = Index /\ asked = DOMAIN flights
                                   /\ todo = Rows(DOMAIN flights)
  OBVIOUS
<1>2. n = [pc |-> n.pc, index |-> n.index, asked |-> n.asked, todo |-> n.todo, pending |-> n.pending]
      /\ n.pending = Empty
  BY <1>1 DEF NoIdents
<1>3. idents' = [n EXCEPT !.pc = "running", !.index = index, !.asked = asked, !.todo = todo]
  BY <1>1 DEF StartIdents
<1>4. idents' = [pc |-> "running", index |-> index, asked |-> asked, todo |-> todo, pending |-> Empty]
  BY <1>2, <1>3
<1>5. QED
  BY <1>1, <1>4

LEMMA ReadIdentsHolds ==
    ASSUME Shapes, ReadForIdents
    PROVE  \E f \in DOMAIN idents.todo :
              idents' = [pc |-> idents.pc, index |-> idents.index, asked |-> idents.asked,
                         todo |-> Without(idents.todo, f),
                         pending |-> With(idents.pending, f,
                                          AirportsOf(idents.index, idents.todo[f].raw, idents.todo[f].agl))]
<1>1. PICK f \in Newest(idents.todo) :
         idents' = [idents EXCEPT !.todo = Without(@, f),
                                  !.pending = With(@, f, AirportsOf(idents.index, idents.todo[f].raw, idents.todo[f].agl))]
  BY DEF ReadForIdents
<1>2. f \in DOMAIN idents.todo
  BY DEF Newest
<1>3. PICK v, w : /\ v = Without(idents.todo, f)
                  /\ w = With(idents.pending, f, AirportsOf(idents.index, idents.todo[f].raw, idents.todo[f].agl))
  OBVIOUS
<1>4. idents' = [idents EXCEPT !.todo = v, !.pending = w]
  BY <1>1, <1>3
<1>5. idents' = [pc |-> idents.pc, index |-> idents.index, asked |-> idents.asked, todo |-> v, pending |-> w]
  BY <1>4 DEF Shapes, HeightsShape, IdentsShape, Bounds
<1>6. QED
  BY <1>2, <1>3, <1>5

LEMMA ChangedRaced ==
    ASSUME NEW keys
    PROVE  /\ Changed(keys) = [heights |-> Changed(keys).heights, idents |-> Changed(keys).idents]
           /\ Changed(keys).heights =
                 (raced.heights \ keys) \cup (keys \cap (DOMAIN heights.todo \cup DOMAIN heights.pending))
           /\ Changed(keys).idents = raced.idents \cup keys
BY DEF Changed

-----------------------------------------------------------------------------
(* The records keep their fields, and rows stay rows.                      *)

LEMMA StepsOfLoad ==
    Next => StartsJob \/ Fails \/ Killed \/ UNCHANGED load
<1>1. DownloadStep => StartsJob \/ Fails \/ Killed \/ UNCHANGED load
  BY DEF DownloadStep
<1>2. ASSUME NEW p, StartImport(p) PROVE StartsJob
  BY <1>2 DEF StartImport
<1>3. ASSUME NEW file, UpsertWaypoints(file) \/ FileFails(file) PROVE Fails \/ UNCHANGED load
  BY <1>3 DEF UpsertWaypoints, FileFails
<1>4. StartBatch \/ EndBatch => StartsJob \/ UNCHANGED load
  BY DEF StartBatch, EndBatch
<1>5. ASSUME NEW k, NEW r, UpsertFlight(k, r) PROVE UNCHANGED load
  BY <1>5 DEF UpsertFlight
<1>6. StartHeights \/ ReadForHeights \/ FlushHeights \/ EndHeights => StartsJob \/ UNCHANGED load
  BY DEF StartHeights, ReadForHeights, FlushHeights, EndHeights
<1>7. ASSUME NEW f, ComputeHeights(f) \/ ComputeFails(f) PROVE Fails \/ UNCHANGED load
  BY <1>7 DEF ComputeHeights, ComputeFails
<1>8. StartIdents \/ ReadForIdents \/ FlushIdents \/ EndIdents => StartsJob \/ UNCHANGED load
  BY DEF StartIdents, ReadForIdents, FlushIdents, EndIdents
<1>9. StartLengths \/ MeasureDay \/ Kill => StartsJob \/ Killed \/ UNCHANGED load
  BY DEF StartLengths, MeasureDay, Kill
<1>10. QED
  BY <1>1, <1>2, <1>3, <1>4, <1>5, <1>6, <1>7, <1>8, <1>9 DEF Next

(* The steps that leave the table and what the backfills hold alone. *)
Quiet == UNCHANGED <<flights, heights, idents, raced>>

LEMMA QuietSteps ==
    /\ DownloadStep => Quiet
    /\ \A p : StartImport(p) => Quiet
    /\ \A file : UpsertWaypoints(file) \/ FileFails(file) => Quiet
    /\ StartBatch \/ StartLengths => Quiet
<1>1. DownloadStep => Quiet
  BY DEF DownloadStep, Quiet, tableVars, jobVars
<1>2. ASSUME NEW p, StartImport(p) PROVE Quiet
  BY <1>2 DEF StartImport, Quiet, tableVars
<1>3. ASSUME NEW file, UpsertWaypoints(file) \/ FileFails(file) PROVE Quiet
  BY <1>3 DEF UpsertWaypoints, FileFails, Quiet, tableVars
<1>4. StartBatch \/ StartLengths => Quiet
  BY DEF StartBatch, StartLengths, Quiet, tableVars
<1>5. QED
  BY <1>1, <1>2, <1>3, <1>4

LEMMA KillsOne ==
    ASSUME Kill
    PROVE  /\ flights' = flights /\ raced' = raced
           /\ heights' \in {heights, NoHeights}
           /\ idents' \in {idents, NoIdents}
BY DEF Kill, tableVars

LEMMA NothingRead ==
    /\ NoHeights = [pc |-> NoHeights.pc, asked |-> {}, todo |-> Empty, pending |-> Empty, missed |-> NoHeights.missed,
                    failed |-> NoHeights.failed]
    /\ NoIdents = [pc |-> NoIdents.pc, index |-> NoIdents.index, asked |-> {}, todo |-> Empty, pending |-> Empty]
    /\ NoIdents.index \in [fields : SUBSET Airports, heliports : SUBSET Airports]
BY DEF NoHeights, NoIdents, NoIndex

LEMMA HeightsShapeStep ==
    ASSUME Shapes, TileInv, Next PROVE HeightsShape'
<1> USE DEF HeightsShape
<1>1. CASE heights' = heights
  BY <1>1 DEF Shapes
<1>2. CASE StartHeights
  <2>1. PICK asked, todo : heights' = [pc |-> "running", asked |-> asked, todo |-> todo, pending |-> Empty,
                                       missed |-> {}, failed |-> {}]
    BY <1>2, StartHeightsHolds
  <2>2. QED
    BY <2>1, NothingHeld
<1>3. CASE ReadForHeights
  <2>1. PICK f \in DOMAIN heights.todo :
              heights' = [pc |-> heights.pc, asked |-> heights.asked, todo |-> Without(heights.todo, f),
                          pending |-> With(heights.pending, f, [raw |-> heights.todo[f].raw, done |-> FALSE, agl |-> {}]),
                          missed |-> heights.missed, failed |-> heights.failed]
    BY <1>3, ReadHeightsHolds
  <2>2. PICK item : item = [raw |-> heights.todo[f].raw, done |-> FALSE, agl |-> {}]
    OBVIOUS
  <2>3. IsItem(item)
    BY <2>2 DEF IsItem
  <2>4. AreItems(With(heights.pending, f, item))
    BY <2>3, WithItem DEF Shapes
  <2>5. PICK todo, pending : todo = Without(heights.todo, f) /\ pending = With(heights.pending, f, item)
    OBVIOUS
  <2>6. heights' = [pc |-> heights.pc, asked |-> heights.asked, todo |-> todo, pending |-> pending,
                    missed |-> heights.missed, failed |-> heights.failed]
    BY <2>1, <2>2, <2>5
  <2>7. QED
    BY <2>4, <2>5, <2>6
<1>4. ASSUME NEW f \in DOMAIN heights.pending, ComputeHeights(f) \/ ComputeFails(f) PROVE HeightsShape'
  <2>1. PICK item, missed, failed :
           /\ IsItem(item)
           /\ heights' = [pc |-> heights.pc, asked |-> heights.asked, todo |-> heights.todo,
                          pending |-> [heights.pending EXCEPT ![f] = item], missed |-> missed, failed |-> failed]
    BY <1>4, ComputeHolds
  <2>2. AreItems([heights.pending EXCEPT ![f] = item])
    BY <2>1 DEF Shapes, AreItems
  <2>3. PICK pending : pending = [heights.pending EXCEPT ![f] = item]
    OBVIOUS
  <2>4. QED
    BY <2>1, <2>2, <2>3
<1>5. CASE FlushHeights
  <2>1. heights' = [heights EXCEPT !.pending = Empty]
    BY <1>5 DEF FlushHeights
  <2>2. QED
    BY <2>1, NothingHeld DEF Shapes
<1>6. CASE EndHeights
  <2>1. heights' = [heights EXCEPT !.pc = "done"]
    BY <1>6 DEF EndHeights
  <2>2. QED
    BY <2>1 DEF Shapes
<1>7. CASE Kill
  <2>1. CASE heights' = NoHeights
    BY <2>1, NothingRead, NothingHeld
  <2>2. QED
    BY <1>7, <2>1, <1>1, KillsOne
<1>8. CASE StartIdents \/ ReadForIdents \/ FlushIdents \/ EndIdents \/ MeasureDay \/ EndBatch
  BY <1>1, <1>8 DEF StartIdents, ReadForIdents, FlushIdents, EndIdents, MeasureDay, EndBatch
<1>9. ASSUME NEW k, NEW r, UpsertFlight(k, r) PROVE HeightsShape'
  BY <1>1, <1>9 DEF UpsertFlight
<1>10. CASE Quiet
  BY <1>1, <1>10 DEF Quiet
<1>11. QED
  BY <1>2, <1>3, <1>4, <1>5, <1>6, <1>7, <1>8, <1>9, <1>10, QuietSteps DEF Next

LEMMA IdentsShapeStep ==
    ASSUME Shapes, Next PROVE IdentsShape'
<1> USE DEF IdentsShape
<1>1. CASE idents' = idents
  BY <1>1 DEF Shapes
<1>2. CASE StartIdents
  <2>1. PICK todo, asked : idents' = [pc |-> "running", index |-> Index, asked |-> asked, todo |-> todo, pending |-> Empty]
    BY <1>2, StartIdentsHolds
  <2>2. Index \in [fields : SUBSET Airports, heliports : SUBSET Airports]
    BY DEF Index
  <2>3. QED
    BY <2>1, <2>2
<1>3. CASE ReadForIdents
  <2>1. PICK todo, pending :
           idents' = [pc |-> idents.pc, index |-> idents.index, asked |-> idents.asked, todo |-> todo, pending |-> pending]
    BY <1>3, ReadIdentsHolds
  <2>2. QED
    BY <2>1 DEF Shapes
<1>4. CASE FlushIdents
  <2>1. idents' = [idents EXCEPT !.pending = Empty]
    BY <1>4 DEF FlushIdents
  <2>2. QED
    BY <2>1 DEF Shapes
<1>5. CASE EndIdents
  <2>1. idents' = [idents EXCEPT !.pc = "done"]
    BY <1>5 DEF EndIdents
  <2>2. QED
    BY <2>1 DEF Shapes
<1>6. CASE Kill
  <2>1. CASE idents' = NoIdents
    BY <2>1, NothingRead
  <2>2. QED
    BY <1>6, <2>1, <1>1, KillsOne
<1>7. CASE StartHeights \/ ReadForHeights \/ FlushHeights \/ EndHeights \/ MeasureDay \/ EndBatch
  BY <1>1, <1>7 DEF StartHeights, ReadForHeights, FlushHeights, EndHeights, MeasureDay, EndBatch
<1>8. ASSUME NEW k, NEW r, UpsertFlight(k, r) PROVE IdentsShape'
  BY <1>1, <1>8 DEF UpsertFlight
<1>9. ASSUME NEW f, ComputeHeights(f) \/ ComputeFails(f) PROVE IdentsShape'
  BY <1>1, <1>9 DEF ComputeHeights, ComputeFails
<1>10. CASE Quiet
  BY <1>1, <1>10 DEF Quiet
<1>11. QED
  BY <1>2, <1>3, <1>4, <1>5, <1>6, <1>7, <1>8, <1>9, <1>10, QuietSteps DEF Next

(* The actions that write the table, and the others.  The two backfills    *)
(* that only read leave it as it is.                                       *)
Writes ==
    \/ \E k \in load.keys, r \in load.raws : UpsertFlight(k, r)
    \/ EndBatch \/ FlushHeights \/ FlushIdents \/ MeasureDay

LEMMA OthersOnlyRead == Next => Writes \/ flights' = flights
<1>1. StartHeights \/ ReadForHeights \/ EndHeights => flights' = flights
  BY DEF StartHeights, ReadForHeights, EndHeights, tableVars
<1>2. ASSUME NEW f, ComputeHeights(f) \/ ComputeFails(f) PROVE flights' = flights
  BY <1>2 DEF ComputeHeights, ComputeFails, tableVars
<1>3. StartIdents \/ ReadForIdents \/ EndIdents => flights' = flights
  BY DEF StartIdents, ReadForIdents, EndIdents, tableVars
<1>4. Kill => flights' = flights
  BY DEF Kill, tableVars
<1>5. Quiet => flights' = flights
  BY DEF Quiet
<1>6. QED
  BY <1>1, <1>2, <1>3, <1>4, <1>5, QuietSteps DEF Next, Writes

(* What a step may note as raced. *)
LEMMA RacedStep ==
    ASSUME Shapes, Next
    PROVE  \/ raced' = raced
           \/ \E keys : raced' = Changed(keys)
           \/ StartIdents /\ raced' = [heights |-> raced.heights, idents |-> {}]
           \/ FlushHeights /\ raced' = [heights |-> raced.heights, idents |-> raced.idents \cup DOMAIN heights.pending]
<1>1. ASSUME NEW k, NEW r, UpsertFlight(k, r) PROVE raced' = Changed({k})
  BY <1>1 DEF UpsertFlight
<1>2. EndBatch => \E keys : raced' = Changed(keys)
  BY DEF EndBatch
<1>3. CASE FlushHeights
  <2>1. PICK v : v = raced.idents \cup DOMAIN heights.pending
    OBVIOUS
  <2>2. raced' = [raced EXCEPT !.idents = v]
    BY <1>3, <2>1 DEF FlushHeights
  <2>3. raced' = [heights |-> raced.heights, idents |-> v]
    BY <2>2 DEF Shapes
  <2>4. QED
    BY <1>3, <2>1, <2>3
<1>4. CASE StartIdents
  <2>1. raced' = [raced EXCEPT !.idents = {}]
    BY <1>4 DEF StartIdents
  <2>2. raced' = [heights |-> raced.heights, idents |-> {}]
    BY <2>1 DEF Shapes
  <2>3. QED
    BY <1>4, <2>2
<1>5. StartHeights \/ ReadForHeights \/ EndHeights => raced' = raced
  BY DEF StartHeights, ReadForHeights, EndHeights
<1>6. ASSUME NEW f, ComputeHeights(f) \/ ComputeFails(f) PROVE raced' = raced
  BY <1>6 DEF ComputeHeights, ComputeFails
<1>7. ReadForIdents \/ FlushIdents \/ EndIdents \/ MeasureDay \/ Kill => raced' = raced
  BY DEF ReadForIdents, FlushIdents, EndIdents, MeasureDay, Kill
<1>8. Quiet => raced' = raced
  BY DEF Quiet
<1>9. QED
  BY <1>1, <1>2, <1>3, <1>4, <1>5, <1>6, <1>7, <1>8, QuietSteps DEF Next

LEMMA ShapesStep == Shapes /\ TileInv /\ [Next]_vars => Shapes'
<1> SUFFICES ASSUME Shapes, TileInv, [Next]_vars PROVE Shapes'
  OBVIOUS
<1>1. CASE UNCHANGED vars
  BY <1>1 DEF vars, tableVars, jobVars, Shapes, HeightsShape, IdentsShape
<1>2. CASE Next
  <2>1. load' \in Bounds
    BY <1>2, StepsOfLoad, LoadStep DEF Shapes
  <2>2. IsTable(flights')
    <3>1. CASE flights' = flights
      BY <3>1 DEF Shapes
    <3>2. ASSUME NEW k, NEW r \in load.raws, UpsertFlight(k, r) PROVE IsTable(flights')
      BY <3>2, UpsertRow
    <3>3. CASE EndBatch \/ FlushHeights \/ FlushIdents \/ MeasureDay
      BY <3>3, EndBatchRows, FlushHeightsRows, FlushIdentsRows, MeasureRows
    <3>4. QED
      BY <1>2, <3>1, <3>2, <3>3, OthersOnlyRead DEF Writes
  <2>3. HeightsShape' /\ IdentsShape'
    BY <1>2, HeightsShapeStep, IdentsShapeStep
  <2>4. raced' = [heights |-> raced'.heights, idents |-> raced'.idents]
    <3>1. CASE raced' = raced
      BY <3>1 DEF Shapes
    <3>2. ASSUME NEW keys, raced' = Changed(keys) PROVE raced' = [heights |-> raced'.heights, idents |-> raced'.idents]
      BY <3>2, ChangedRaced
    <3>3. QED
      BY <1>2, <3>1, <3>2, RacedStep
  <2>5. QED
    BY <2>1, <2>2, <2>3, <2>4 DEF Shapes
<1>3. QED
  BY <1>1, <1>2

LEMMA ShapesHold == Spec => []Shapes
<1>1. Init => Shapes
  <2> SUFFICES ASSUME Init PROVE Shapes
    OBVIOUS
  <2>1. load \in Bounds
    BY DerivedConstants DEF Init, Bounds
  <2>2. IsTable(flights)
    <3>1. PICK known : flights \in [known -> {Legacy(r) : r \in load.raws}]
      BY DEF Init
    <3>2. ASSUME NEW f \in known PROVE IsRow(flights[f]) /\ flights[f].raw \in DOMAIN Raws
      BY <3>1, <2>1 DEF Legacy, IsRow, Bounds
    <3>3. QED
      BY <3>1, <3>2 DEF IsTable
  <2>3. HeightsShape
    BY NothingRead, NothingHeld DEF Init, HeightsShape
  <2>4. IdentsShape
    BY NothingRead DEF Init, IdentsShape
  <2>5. QED
    BY <2>1, <2>2, <2>3, <2>4 DEF Shapes, Init
<1>2. QED
  BY <1>1, ShapesStep, TileInvHolds, PTL DEF Spec

-----------------------------------------------------------------------------
(* backfill-agl.                                                           *)

(* A row has the length of its path.  Unless it changed while the backfill *)
(* held it, it has heights of its path, and what the backfill holds of it  *)
(* is its path; once the backfill is through with it, it has heights.      *)
GoodRow(f) ==
    /\ flights[f].length \subseteq {LengthOf[flights[f].raw]}
    /\ f \notin raced.heights =>
          /\ flights[f].agl \subseteq Sound(flights[f].raw)
          /\ f \in DOMAIN heights.todo => heights.todo[f].raw = flights[f].raw
          /\ f \in DOMAIN heights.pending => heights.pending[f].raw = flights[f].raw
    /\ f \in heights.asked =>
          \/ f \in DOMAIN heights.todo \cup DOMAIN heights.pending \cup heights.failed
          \/ flights[f].agl # {}

(* What was computed is of the path that was read; what was not, failed.   *)
GoodItem(f) ==
    /\ heights.pending[f].agl \subseteq Sound(heights.pending[f].raw)
    /\ heights.pending[f].done => heights.pending[f].agl # {} \/ f \in heights.failed

HeightsInv ==
    /\ IsFiniteSet(DOMAIN heights.pending) /\ Held(heights) <= BatchSize
    /\ \A f \in DOMAIN flights : GoodRow(f)
    /\ \A f \in DOMAIN heights.pending : GoodItem(f)

(* The backfill goes on with what it holds, which stays good, next to a    *)
(* step that leaves paths and heights as they are.                         *)
LEMMA HeightsRest ==
    ASSUME HeightsInv, raced'.heights = raced.heights, DOMAIN flights' = DOMAIN flights,
           heights'.asked = heights.asked, heights'.todo = heights.todo,
           heights'.pending = heights.pending, heights'.failed = heights.failed,
           \A f \in DOMAIN flights :
              /\ flights'[f].raw = flights[f].raw /\ flights'[f].agl = flights[f].agl
              /\ flights'[f].length \in {flights[f].length, {LengthOf[flights[f].raw]}}
    PROVE  HeightsInv'
<1>1. ASSUME NEW f \in DOMAIN flights' PROVE GoodRow(f)'
  BY DEF HeightsInv, GoodRow
<1>2. ASSUME NEW f \in DOMAIN heights'.pending PROVE GoodItem(f)'
  BY DEF HeightsInv, GoodItem
<1>3. QED
  BY <1>1, <1>2 DEF HeightsInv, Held

(* A batch replaces a row or deletes some. *)
LEMMA HeightsUpsert ==
    ASSUME HeightsInv, Shapes, TileInv, NEW k, NEW r \in load.raws, UpsertFlight(k, r)
    PROVE  HeightsInv'
<1>0. /\ DOMAIN flights' = DOMAIN flights \cup {k}
      /\ \A f \in DOMAIN flights' : f # k => flights'[f] = flights[f]
  BY UpsertRow
<1>1. heights' = heights /\ raced' = Changed({k})
  BY DEF UpsertFlight
<1>2. raced'.heights = (raced.heights \ {k}) \cup ({k} \cap (DOMAIN heights.todo \cup DOMAIN heights.pending))
  BY <1>1, ChangedRaced
<1>3. ASSUME NEW f \in DOMAIN flights' PROVE GoodRow(f)'
  <2>1. CASE f = k
    <3>1. /\ flights'[k].raw = r /\ flights'[k].length = {LengthOf[r]}
          /\ flights'[k].agl # {} /\ flights'[k].agl \subseteq Sound(r)
      BY UpsertRow
    <3>2. k \notin raced'.heights => k \notin DOMAIN heights'.todo \cup DOMAIN heights'.pending
      BY <1>1, <1>2
    <3>3. QED
      BY <2>1, <3>1, <3>2 DEF GoodRow
  <2>2. CASE f # k
    <3>1. f \in DOMAIN flights /\ flights'[f] = flights[f]
      BY <2>2, <1>0
    <3>2. f \notin raced'.heights => f \notin raced.heights
      BY <2>2, <1>2
    <3>3. GoodRow(f)
      BY <3>1 DEF HeightsInv
    <3>4. QED
      BY <1>1, <3>1, <3>2, <3>3 DEF GoodRow
  <2>3. QED
    BY <2>1, <2>2
<1>4. ASSUME NEW f \in DOMAIN heights'.pending PROVE GoodItem(f)'
  BY <1>1 DEF HeightsInv, GoodItem
<1>5. QED
  BY <1>1, <1>3, <1>4 DEF HeightsInv, Held

LEMMA HeightsDelete ==
    ASSUME HeightsInv, Shapes, EndBatch
    PROVE  HeightsInv'
<1>1. heights' = heights
  BY DEF EndBatch
<1>2. PICK gone : /\ DOMAIN flights' = DOMAIN flights \ gone
                  /\ \A f \in DOMAIN flights' : flights'[f] = flights[f]
                  /\ raced' = Changed(gone)
  BY EndBatchRows
<1>3. raced'.heights = (raced.heights \ gone) \cup (gone \cap (DOMAIN heights.todo \cup DOMAIN heights.pending))
  BY <1>2, ChangedRaced
<1>4. ASSUME NEW f \in DOMAIN flights' PROVE GoodRow(f)'
  BY <1>1, <1>2, <1>3 DEF GoodRow, HeightsInv
<1>5. ASSUME NEW f \in DOMAIN heights'.pending PROVE GoodItem(f)'
  BY <1>1 DEF HeightsInv, GoodItem
<1>6. QED
  BY <1>1, <1>4, <1>5 DEF HeightsInv, Held

LEMMA HeightsFlush ==
    ASSUME HeightsInv, Shapes, FlushHeights
    PROVE  HeightsInv'
<1>1. heights' = [heights EXCEPT !.pending = Empty]
  BY DEF FlushHeights
<1>2. /\ heights'.pending = Empty /\ heights'.todo = heights.todo
      /\ heights'.asked = heights.asked /\ heights'.failed = heights.failed
  BY <1>1 DEF Shapes, HeightsShape
<1>3. raced'.heights = raced.heights
  BY DEF FlushHeights, Shapes
<1>4. \A f \in DOMAIN heights.pending : heights.pending[f].done
  BY DEF FlushHeights
<1>5. ASSUME NEW f \in DOMAIN flights' PROVE GoodRow(f)'
  <2>0. f \in DOMAIN flights /\ GoodRow(f)
    BY FlushHeightsRows DEF HeightsInv
  <2>1. CASE f \in DOMAIN heights.pending /\ heights.pending[f].agl # {}
    <3>1. flights'[f].raw = flights[f].raw /\ flights'[f].length = flights[f].length
          /\ flights'[f].agl = heights.pending[f].agl
      BY <2>0, <2>1, FlushHeightsRows
    <3>2. GoodItem(f)
      BY <2>1 DEF HeightsInv
    <3>3. QED
      BY <1>2, <1>3, <2>0, <2>1, <3>1, <3>2, NothingHeld DEF GoodRow, GoodItem
  <2>2. CASE ~(f \in DOMAIN heights.pending /\ heights.pending[f].agl # {})
    <3>1. flights'[f] = flights[f]
      BY <2>0, <2>2, FlushHeightsRows
    <3>2. f \in DOMAIN heights.pending => f \in heights.failed
      BY <1>4, <2>2 DEF HeightsInv, GoodItem
    <3>3. QED
      BY <1>2, <1>3, <2>0, <3>1, <3>2, NothingHeld DEF GoodRow
  <2>3. QED
    BY <2>1, <2>2
<1>6. IsFiniteSet(DOMAIN heights'.pending) /\ Held(heights)' <= BatchSize
  BY <1>2, NothingHeld, FS_EmptySet, DerivedConstants DEF Held
<1>7. QED
  BY <1>2, <1>5, <1>6, NothingHeld DEF HeightsInv

LEMMA HeightsRead ==
    ASSUME HeightsInv, Shapes, ReadForHeights
    PROVE  HeightsInv'
<1>1. PICK f \in DOMAIN heights.todo :
         heights' = [pc |-> heights.pc, asked |-> heights.asked, todo |-> Without(heights.todo, f),
                     pending |-> With(heights.pending, f, [raw |-> heights.todo[f].raw, done |-> FALSE, agl |-> {}]),
                     missed |-> heights.missed, failed |-> heights.failed]
  BY ReadHeightsHolds
<1>2. PICK item, todo, pending :
         /\ item = [raw |-> heights.todo[f].raw, done |-> FALSE, agl |-> {}]
         /\ todo = Without(heights.todo, f) /\ pending = With(heights.pending, f, item)
  OBVIOUS
<1>3. heights'.asked = heights.asked /\ heights'.failed = heights.failed
      /\ heights'.todo = todo /\ heights'.pending = pending
  BY <1>1, <1>2
<1>4. DOMAIN todo = DOMAIN heights.todo \ {f} /\ \A g \in DOMAIN todo : todo[g] = heights.todo[g]
  BY <1>2, WithoutItem
<1>5. DOMAIN pending = DOMAIN heights.pending \cup {f} /\ pending[f] = item
      /\ \A g \in DOMAIN heights.pending : g # f => pending[g] = heights.pending[g]
  BY <1>2 DEF With
<1>6. flights' = flights /\ raced' = raced
  BY DEF ReadForHeights, tableVars
<1>7. ASSUME NEW g \in DOMAIN flights PROVE GoodRow(g)'
  <2>1. GoodRow(g)
    BY DEF HeightsInv
  <2>2. CASE g = f
    <3>1. item.raw = heights.todo[f].raw
      BY <1>2
    <3>2. g \notin DOMAIN todo /\ g \in DOMAIN pending /\ pending[g].raw = heights.todo[g].raw
      BY <1>4, <1>5, <2>2, <3>1
    <3>3. QED
      BY <1>3, <1>6, <2>1, <2>2, <3>2 DEF GoodRow
  <2>3. CASE g # f
    BY <1>3, <1>4, <1>5, <1>6, <2>1, <2>3 DEF GoodRow
  <2>4. QED
    BY <2>2, <2>3
<1>8. ASSUME NEW g \in DOMAIN pending PROVE GoodItem(g)'
  <2>1. CASE g = f
    BY <1>2, <1>3, <1>5, <2>1 DEF GoodItem
  <2>2. CASE g # f
    BY <1>3, <1>5, <2>2 DEF GoodItem, HeightsInv
  <2>3. QED
    BY <2>1, <2>2
<1>9. IsFiniteSet(DOMAIN pending) /\ Cardinality(DOMAIN pending) <= BatchSize
  <2>1. IsFiniteSet(DOMAIN heights.pending) /\ Cardinality(DOMAIN heights.pending) < BatchSize
    BY DEF HeightsInv, ReadForHeights, Held
  <2>2. Cardinality(DOMAIN heights.pending) \in Nat
    BY <2>1, FS_CardinalityType
  <2>3. IsFiniteSet(DOMAIN pending)
        /\ Cardinality(DOMAIN pending) = IF f \in DOMAIN heights.pending THEN Cardinality(DOMAIN heights.pending)
                                         ELSE Cardinality(DOMAIN heights.pending) + 1
    BY <1>5, <2>1, FS_AddElement
  <2>4. QED
    BY <2>1, <2>2, <2>3, DerivedConstants
<1>10. QED
  BY <1>3, <1>6, <1>7, <1>8, <1>9 DEF HeightsInv, Held

LEMMA HeightsCompute ==
    ASSUME HeightsInv, Shapes, TileInv, NEW f \in DOMAIN heights.pending, ComputeHeights(f) \/ ComputeFails(f)
    PROVE  HeightsInv'
<1>1. PICK item :
         /\ IsItem(item) /\ item.raw = heights.pending[f].raw
         /\ item.agl \subseteq Sound(item.raw) \/ item.agl = heights.pending[f].agl
         /\ \E failed : /\ heights.failed \subseteq failed
                        /\ item.agl = {} => f \in failed
                        /\ \E missed : heights' = [pc |-> heights.pc, asked |-> heights.asked, todo |-> heights.todo,
                                                   pending |-> [heights.pending EXCEPT ![f] = item],
                                                   missed |-> missed, failed |-> failed]
  BY ComputeHolds
<1>2. PICK pending : pending = [heights.pending EXCEPT ![f] = item]
  OBVIOUS
<1>3. /\ heights'.asked = heights.asked /\ heights'.todo = heights.todo /\ heights'.pending = pending
      /\ heights.failed \subseteq heights'.failed /\ (item.agl = {} => f \in heights'.failed)
  BY <1>1, <1>2
<1>4. DOMAIN pending = DOMAIN heights.pending /\ pending[f] = item
      /\ \A g \in DOMAIN heights.pending : g # f => pending[g] = heights.pending[g]
  BY <1>2
<1>5. flights' = flights /\ raced' = raced
  BY DEF ComputeHeights, ComputeFails, tableVars
<1>6. ASSUME NEW g \in DOMAIN flights PROVE GoodRow(g)'
  <2>1. GoodRow(g)
    BY DEF HeightsInv
  <2>2. g \in DOMAIN pending => pending[g].raw = heights.pending[g].raw
    BY <1>1, <1>4
  <2>3. QED
    BY <1>3, <1>4, <1>5, <2>1, <2>2 DEF GoodRow
<1>7. ASSUME NEW g \in DOMAIN pending PROVE GoodItem(g)'
  <2>1. GoodItem(g)
    BY <1>4 DEF HeightsInv
  <2>2. CASE g = f
    BY <1>1, <1>3, <1>4, <2>1, <2>2 DEF GoodItem
  <2>3. CASE g # f
    BY <1>3, <1>4, <2>1, <2>3 DEF GoodItem
  <2>4. QED
    BY <2>2, <2>3
<1>8. QED
  BY <1>3, <1>4, <1>5, <1>6, <1>7 DEF HeightsInv, Held

LEMMA HeightsStart ==
    ASSUME HeightsInv, Shapes, StartHeights
    PROVE  HeightsInv'
<1>1. PICK asked, todo : /\ asked = {f \in DOMAIN flights : flights[f].agl = {}} /\ todo = Rows(asked)
                         /\ heights' = [pc |-> "running", asked |-> asked, todo |-> todo, pending |-> Empty,
                                        missed |-> {}, failed |-> {}]
  BY StartHeightsHolds
<1>2. heights'.asked = asked /\ heights'.todo = todo /\ heights'.pending = Empty
  BY <1>1
<1>3. DOMAIN todo = asked /\ \A f \in asked : todo[f] = flights[f]
  BY <1>1, RowsRead
<1>4. flights' = flights /\ raced' = raced
  BY DEF StartHeights, tableVars
<1>5. ASSUME NEW f \in DOMAIN flights PROVE GoodRow(f)'
  <2>1. GoodRow(f)
    BY DEF HeightsInv
  <2>2. QED
    BY <1>2, <1>3, <1>4, <2>1, NothingHeld DEF GoodRow
<1>6. IsFiniteSet(DOMAIN heights'.pending) /\ Held(heights)' <= BatchSize
  BY <1>2, NothingHeld, FS_EmptySet, DerivedConstants DEF Held
<1>7. QED
  BY <1>2, <1>4, <1>5, <1>6, NothingHeld DEF HeightsInv

LEMMA HeightsKilled ==
    ASSUME HeightsInv, heights' = NoHeights, flights' = flights, raced' = raced
    PROVE  HeightsInv'
<1>1. heights'.asked = {} /\ heights'.todo = Empty /\ heights'.pending = Empty
  BY NothingRead
<1>2. ASSUME NEW f \in DOMAIN flights PROVE GoodRow(f)'
  <2>1. GoodRow(f)
    BY DEF HeightsInv
  <2>2. QED
    BY <1>1, <2>1, NothingHeld DEF GoodRow
<1>3. IsFiniteSet(DOMAIN heights'.pending) /\ Held(heights)' <= BatchSize
  BY <1>1, NothingHeld, FS_EmptySet, DerivedConstants DEF Held
<1>4. QED
  BY <1>1, <1>2, <1>3, NothingHeld DEF HeightsInv

LEMMA HeightsInvStep == HeightsInv /\ Shapes /\ TileInv /\ [Next]_vars => HeightsInv'
<1> SUFFICES ASSUME HeightsInv, Shapes, TileInv, [Next]_vars PROVE HeightsInv'
  OBVIOUS
<1>0. ASSUME flights' = flights, raced'.heights = raced.heights, heights' = heights PROVE HeightsInv'
  BY <1>0, HeightsRest
<1>1. CASE UNCHANGED vars
  BY <1>0, <1>1 DEF vars, tableVars, jobVars
<1>2. CASE Quiet
  BY <1>0, <1>2 DEF Quiet
<1>3. ASSUME NEW k \in load.keys, NEW r \in load.raws, UpsertFlight(k, r) PROVE HeightsInv'
  BY <1>3, HeightsUpsert
<1>4. CASE EndBatch
  BY <1>4, HeightsDelete
<1>5. CASE StartHeights
  BY <1>5, HeightsStart
<1>6. CASE ReadForHeights
  BY <1>6, HeightsRead
<1>7. CASE FlushHeights
  BY <1>7, HeightsFlush
<1>8. CASE EndHeights
  <2>1. heights' = [heights EXCEPT !.pc = "done"] /\ flights' = flights /\ raced' = raced
    BY <1>8 DEF EndHeights, tableVars
  <2>2. heights'.asked = heights.asked /\ heights'.todo = heights.todo
        /\ heights'.pending = heights.pending /\ heights'.failed = heights.failed
    BY <2>1 DEF Shapes, HeightsShape
  <2>3. QED
    BY <2>1, <2>2, HeightsRest
<1>9. ASSUME NEW f \in DOMAIN heights.pending, ComputeHeights(f) \/ ComputeFails(f) PROVE HeightsInv'
  BY <1>9, HeightsCompute
<1>10. CASE StartIdents
  <2>1. flights' = flights /\ heights' = heights /\ raced' = [raced EXCEPT !.idents = {}]
    BY <1>10 DEF StartIdents, tableVars
  <2>2. raced'.heights = raced.heights
    BY <2>1 DEF Shapes
  <2>3. QED
    BY <1>0, <2>1, <2>2
<1>11. CASE ReadForIdents \/ EndIdents
  BY <1>0, <1>11 DEF ReadForIdents, EndIdents, tableVars
<1>12. CASE FlushIdents
  <2>1. heights' = heights /\ raced' = raced
    BY <1>12 DEF FlushIdents
  <2>2. QED
    BY <1>12, <2>1, FlushIdentsRows, HeightsRest
<1>13. CASE MeasureDay
  <2>1. heights' = heights /\ raced' = raced
    BY <1>13 DEF MeasureDay
  <2>2. QED
    BY <1>13, <2>1, MeasureRows, HeightsRest
<1>14. CASE Kill
  BY <1>0, <1>14, KillsOne, HeightsKilled
<1>15. QED
  BY <1>1, <1>2, <1>3, <1>4, <1>5, <1>6, <1>7, <1>8, <1>9, <1>10, <1>11, <1>12, <1>13, <1>14, QuietSteps DEF Next

LEMMA HeightsInvHolds == Spec => []HeightsInv
<1>1. Init => HeightsInv
  <2> SUFFICES ASSUME Init PROVE HeightsInv
    OBVIOUS
  <2>1. heights.asked = {} /\ heights.pending = Empty /\ heights.todo = Empty
    BY NothingRead DEF Init
  <2>2. ASSUME NEW f \in DOMAIN flights PROVE GoodRow(f)
    <3>1. PICK r : flights[f] = Legacy(r)
      BY DEF Init
    <3>2. flights[f].agl = {} /\ flights[f].length = {}
      BY <3>1 DEF Legacy
    <3>3. QED
      BY <2>1, <3>2, NothingHeld DEF GoodRow
  <2>3. IsFiniteSet(DOMAIN heights.pending) /\ Held(heights) <= BatchSize
    BY <2>1, NothingHeld, FS_EmptySet, DerivedConstants DEF Held
  <2>4. QED
    BY <2>1, <2>2, <2>3, NothingHeld DEF HeightsInv
<1>2. QED
  BY <1>1, HeightsInvStep, ShapesHold, TileInvHolds, PTL DEF Spec

(* What a row says of its path it says of the path that it has, unless     *)
(* backfill-agl held the row when a batch replaced it: the length always,  *)
(* the heights for some of the tiles (backfill_agl.py lines 78-82,         *)
(* backfill_path_length.py lines 34-40).                                   *)
THEOREM ColumnsMatchPaths == Spec => []ColumnsOfPath
<1>1. HeightsInv => ColumnsOfPath
  BY DEF HeightsInv, GoodRow, ColumnsOfPath, Sound
<1>2. QED
  BY <1>1, HeightsInvHolds, PTL

(* What backfill-agl has taken from the cursor and not written is never    *)
(* more than a batch, and all the other rows that it asked for have        *)
(* heights or failed (backfill_agl.py lines 6-9 and 159-183).              *)
THEOREM OneBatchIsLost == Spec => []OneBatchAtRisk
<1>1. HeightsInv => OneBatchAtRisk
  BY DEF HeightsInv, GoodRow, OneBatchAtRisk
<1>2. QED
  BY <1>1, HeightsInvHolds, PTL

(* Neither a place, an altitude, a height nor, where it is reported, a     *)
(* speed or a track that is left out of a row is off by more than its      *)
(* tolerance (twice the tolerance, for a place), and the code that is read *)
(* at the time of a sample is that of the sample (simplify.py lines        *)
(* 138-201, splitter.py lines 141-205, agl.py lines 107-158).              *)
THEOREM RowsSimplified == Spec => []SimplifiedWithinTolerance
<1>1. Shapes => SimplifiedWithinTolerance
  BY FlightSimplified DEF Shapes, IsTable, SimplifiedWithinTolerance
<1>2. QED
  BY <1>1, ShapesHold, PTL

(* Where the stored correction of a row is defined, it is off by less than *)
(* the threshold, and it is defined at every vertex of a flight without    *)
(* gaps (correct.py lines 126-141, batch.py lines 324-336).                *)
THEOREM CorrectionsTrackPressure == Spec => []CorrectionFollowsPressure
<1>1. Shapes => CorrectionFollowsPressure
  BY EveryCorrectionFollows DEF Shapes, IsTable
<1>2. QED
  BY <1>1, ShapesHold, PTL

-----------------------------------------------------------------------------
(* backfill-airports.                                                      *)

(* The airports of a row, by the index that the backfill has loaded. *)
AirportsDue(f) == AirportsOf(idents.index, flights[f].raw, flights[f].agl)

(* Unless a row has changed since the backfill began, what the cursor sees *)
(* of it is what there is; what the backfill holds for it are its          *)
(* airports, and so is what it has once the backfill is through with it.   *)
GoodIdent(f) ==
    /\ f \in DOMAIN idents.todo =>
          idents.todo[f].raw = flights[f].raw /\ idents.todo[f].agl = flights[f].agl
    /\ f \in DOMAIN idents.pending => idents.pending[f] = AirportsDue(f)
    /\ f \in idents.asked \ (DOMAIN idents.todo \cup DOMAIN idents.pending) => flights[f].airports = AirportsDue(f)

IdentsInv == \A f \in DOMAIN flights \ raced.idents : GoodIdent(f)

(* Rows that keep what the airports depend on stay good. *)
LEMMA IdentsRest ==
    ASSUME IdentsInv,
           idents'.index = idents.index, idents'.asked = idents.asked,
           idents'.todo = idents.todo, idents'.pending = idents.pending,
           \A f \in DOMAIN flights' \ raced'.idents :
              /\ f \in DOMAIN flights \ raced.idents
              /\ flights'[f].raw = flights[f].raw /\ flights'[f].agl = flights[f].agl
              /\ flights'[f].airports = flights[f].airports
    PROVE  IdentsInv'
<1>1. ASSUME NEW f \in DOMAIN flights' \ raced'.idents PROVE GoodIdent(f)'
  <2>1. GoodIdent(f) /\ AirportsDue(f)' = AirportsDue(f)
    BY DEF IdentsInv, AirportsDue
  <2>2. QED
    BY <2>1 DEF GoodIdent
<1>2. QED
  BY <1>1 DEF IdentsInv

LEMMA IdentsStart ==
    ASSUME Shapes, StartIdents
    PROVE  IdentsInv'
<1>1. PICK todo : /\ todo = Rows(DOMAIN flights)
                  /\ idents' = [pc |-> "running", index |-> Index, asked |-> DOMAIN flights, todo |-> todo,
                                pending |-> Empty]
  BY StartIdentsHolds
<1>2. idents'.todo = todo /\ idents'.pending = Empty
  BY <1>1
<1>3. DOMAIN todo = DOMAIN flights /\ \A f \in DOMAIN flights : todo[f] = flights[f]
  BY <1>1, RowsRead
<1>4. flights' = flights
  BY DEF StartIdents, tableVars
<1>5. ASSUME NEW f \in DOMAIN flights PROVE GoodIdent(f)'
  BY <1>2, <1>3, <1>4, NothingHeld DEF GoodIdent
<1>6. QED
  BY <1>4, <1>5 DEF IdentsInv

LEMMA IdentsRead ==
    ASSUME IdentsInv, Shapes, ReadForIdents
    PROVE  IdentsInv'
<1>1. PICK f \in DOMAIN idents.todo :
         idents' = [pc |-> idents.pc, index |-> idents.index, asked |-> idents.asked,
                    todo |-> Without(idents.todo, f),
                    pending |-> With(idents.pending, f,
                                     AirportsOf(idents.index, idents.todo[f].raw, idents.todo[f].agl))]
  BY ReadIdentsHolds
<1>2. PICK item, todo, pending :
         /\ item = AirportsOf(idents.index, idents.todo[f].raw, idents.todo[f].agl)
         /\ todo = Without(idents.todo, f) /\ pending = With(idents.pending, f, item)
  OBVIOUS
<1>3. idents'.index = idents.index /\ idents'.asked = idents.asked
      /\ idents'.todo = todo /\ idents'.pending = pending
  BY <1>1, <1>2
<1>4. DOMAIN todo = DOMAIN idents.todo \ {f} /\ \A g \in DOMAIN todo : todo[g] = idents.todo[g]
  BY <1>2, WithoutItem
<1>5. DOMAIN pending = DOMAIN idents.pending \cup {f} /\ pending[f] = item
      /\ \A g \in DOMAIN idents.pending : g # f => pending[g] = idents.pending[g]
  BY <1>2 DEF With
<1>6. flights' = flights /\ raced' = raced
  BY DEF ReadForIdents, tableVars
<1>7. ASSUME NEW g \in DOMAIN flights \ raced.idents PROVE GoodIdent(g)'
  <2>1. GoodIdent(g) /\ AirportsDue(g)' = AirportsDue(g)
    BY <1>3, <1>6 DEF IdentsInv, AirportsDue
  <2>2. CASE g = f
    <3>1. item = AirportsDue(g)
      BY <1>2, <2>1, <2>2 DEF GoodIdent, AirportsDue
    <3>2. g \notin DOMAIN todo /\ g \in DOMAIN pending /\ pending[g] = AirportsDue(g)
      BY <1>4, <1>5, <2>2, <3>1
    <3>3. QED
      BY <1>3, <2>1, <3>2 DEF GoodIdent
  <2>3. CASE g # f
    BY <1>3, <1>4, <1>5, <1>6, <2>1, <2>3 DEF GoodIdent
  <2>4. QED
    BY <2>2, <2>3
<1>8. QED
  BY <1>6, <1>7 DEF IdentsInv

LEMMA IdentsFlush ==
    ASSUME IdentsInv, Shapes, FlushIdents
    PROVE  IdentsInv'
<1>1. idents' = [idents EXCEPT !.pending = Empty] /\ raced' = raced
  BY DEF FlushIdents
<1>2. idents'.index = idents.index /\ idents'.asked = idents.asked
      /\ idents'.todo = idents.todo /\ idents'.pending = Empty
  BY <1>1 DEF Shapes, IdentsShape
<1>3. ASSUME NEW f \in DOMAIN flights' \ raced'.idents PROVE GoodIdent(f)'
  <2>1. /\ f \in DOMAIN flights
        /\ flights'[f].raw = flights[f].raw /\ flights'[f].agl = flights[f].agl
        /\ flights'[f].airports = IF f \in DOMAIN idents.pending THEN idents.pending[f] ELSE flights[f].airports
    BY FlushIdentsRows
  <2>2. GoodIdent(f) /\ AirportsDue(f)' = AirportsDue(f)
    BY <1>1, <1>2, <2>1 DEF IdentsInv, AirportsDue
  <2>3. QED
    BY <1>2, <2>1, <2>2, NothingHeld DEF GoodIdent
<1>4. QED
  BY <1>3 DEF IdentsInv

LEMMA IdentsKilled ==
    ASSUME idents' = NoIdents
    PROVE  IdentsInv'
<1>1. idents'.asked = {} /\ idents'.todo = Empty /\ idents'.pending = Empty
  BY NothingRead
<1>2. QED
  BY <1>1, NothingHeld DEF IdentsInv, GoodIdent

LEMMA IdentsInvStep == IdentsInv /\ Shapes /\ TileInv /\ [Next]_vars => IdentsInv'
<1> SUFFICES ASSUME IdentsInv, Shapes, TileInv, [Next]_vars PROVE IdentsInv'
  OBVIOUS
<1>0. ASSUME flights' = flights, raced'.idents = raced.idents, idents' = idents PROVE IdentsInv'
  BY <1>0, IdentsRest
<1>1. CASE UNCHANGED vars
  BY <1>0, <1>1 DEF vars, tableVars, jobVars
<1>2. CASE Quiet
  BY <1>0, <1>2 DEF Quiet
<1>3. ASSUME NEW k \in load.keys, NEW r \in load.raws, UpsertFlight(k, r) PROVE IdentsInv'
  <2>1. idents' = idents /\ raced' = Changed({k})
    BY <1>3 DEF UpsertFlight
  <2>2. raced'.idents = raced.idents \cup {k}
    BY <2>1, ChangedRaced
  <2>3. /\ DOMAIN flights' = DOMAIN flights \cup {k}
        /\ \A f \in DOMAIN flights' : f # k => flights'[f] = flights[f]
    BY <1>3, UpsertRow
  <2>4. \A f \in DOMAIN flights' \ raced'.idents :
           f \in DOMAIN flights \ raced.idents /\ flights'[f] = flights[f]
    BY <2>2, <2>3
  <2>5. QED
    BY <2>1, <2>4, IdentsRest
<1>4. CASE EndBatch
  <2>1. idents' = idents
    BY <1>4 DEF EndBatch
  <2>2. PICK gone : /\ DOMAIN flights' = DOMAIN flights \ gone
                    /\ \A f \in DOMAIN flights' : flights'[f] = flights[f]
                    /\ raced' = Changed(gone)
    BY <1>4, EndBatchRows
  <2>3. raced'.idents = raced.idents \cup gone
    BY <2>2, ChangedRaced
  <2>4. QED
    BY <2>1, <2>2, <2>3, IdentsRest
<1>5. CASE FlushHeights
  <2>1. idents' = idents
    BY <1>5 DEF FlushHeights
  <2>2. PICK v : v = raced.idents \cup DOMAIN heights.pending
    OBVIOUS
  <2>3. raced' = [raced EXCEPT !.idents = v]
    BY <1>5, <2>2 DEF FlushHeights
  <2>4. raced'.idents = raced.idents \cup DOMAIN heights.pending
    BY <2>2, <2>3 DEF Shapes
  <2>5. DOMAIN flights' = DOMAIN flights /\ \A f \in DOMAIN flights \ DOMAIN heights.pending : flights'[f] = flights[f]
    BY <1>5, FlushHeightsRows
  <2>6. QED
    BY <2>1, <2>4, <2>5, IdentsRest
<1>6. CASE MeasureDay
  <2>1. idents' = idents /\ raced' = raced
    BY <1>6 DEF MeasureDay
  <2>2. QED
    BY <1>6, <2>1, MeasureRows, IdentsRest
<1>7. CASE StartHeights \/ ReadForHeights \/ EndHeights
  BY <1>0, <1>7 DEF StartHeights, ReadForHeights, EndHeights, tableVars
<1>8. ASSUME NEW f, ComputeHeights(f) \/ ComputeFails(f) PROVE IdentsInv'
  BY <1>0, <1>8 DEF ComputeHeights, ComputeFails, tableVars
<1>9. CASE StartIdents
  BY <1>9, IdentsStart
<1>10. CASE ReadForIdents
  BY <1>10, IdentsRead
<1>11. CASE FlushIdents
  BY <1>11, IdentsFlush
<1>12. CASE EndIdents
  <2>1. idents' = [idents EXCEPT !.pc = "done"] /\ flights' = flights /\ raced' = raced
    BY <1>12 DEF EndIdents, tableVars
  <2>2. idents'.index = idents.index /\ idents'.asked = idents.asked
        /\ idents'.todo = idents.todo /\ idents'.pending = idents.pending
    BY <2>1 DEF Shapes, IdentsShape
  <2>3. QED
    BY <2>1, <2>2, IdentsRest
<1>13. CASE Kill
  BY <1>0, <1>13, KillsOne, IdentsKilled
<1>14. QED
  BY <1>1, <1>2, <1>3, <1>4, <1>5, <1>6, <1>7, <1>8, <1>9, <1>10, <1>11, <1>12, <1>13, QuietSteps DEF Next

LEMMA IdentsInvHolds == Spec => []IdentsInv
<1>1. Init => IdentsInv
  BY NothingRead, NothingHeld DEF Init, IdentsInv, GoodIdent
<1>2. QED
  BY <1>1, IdentsInvStep, ShapesHold, TileInvHolds, PTL DEF Spec

(* Of some airports within reach one is at least as near as all others. *)
LEMMA NearestExists ==
    ASSUME NEW among \in SUBSET Airports, NEW place \in Int
    PROVE  /\ Nearest(among, place) \subseteq {a \in among : Away(a, place) <= MatchRadius}
           /\ {a \in among : Away(a, place) <= MatchRadius} # {} => Nearest(among, place) # {}
<1>1. \A a \in among : Away(a, place) \in Nat
  BY StoredFlightConstants DEF Away, Abs
<1>2. Nearest(among, place) \subseteq {a \in among : Away(a, place) <= MatchRadius}
  BY DEF Nearest
<1>3. ASSUME NEW a \in among, Away(a, place) <= MatchRadius PROVE Nearest(among, place) # {}
  <2> DEFINE less  == {e \in Nat \X Nat : e[1] < e[2]}
             aways == {Away(b, place) : b \in among}
  <2>1. IsWellFoundedOn(less, Nat)
    BY NatLessThanWellFounded DEF OpToRel
  <2>2. aways \subseteq Nat /\ aways # {}
    BY <1>1
  <2>3. PICK n \in aways : \A m \in aways : ~(<<m, n>> \in less)
    <3> HIDE DEF less, aways
    <3> QED
      BY <2>1, <2>2, WFMin
  <2>4. PICK b \in among : n = Away(b, place)
    OBVIOUS
  <2>5. ASSUME NEW c \in among PROVE Away(b, place) <= Away(c, place)
    <3>1. Away(c, place) \in aways /\ Away(c, place) \in Nat /\ n \in Nat
      BY <1>1, <2>4
    <3>2. ~(<<Away(c, place), n>> \in less)
      BY <2>3, <3>1
    <3>3. ~(Away(c, place) < n)
      BY <3>1, <3>2
    <3>4. QED
      BY <2>4, <3>1, <3>3
  <2>6. Away(b, place) <= MatchRadius
    BY <1>1, <1>3, <2>5, StoredFlightConstants
  <2>7. b \in Nearest(among, place)
    BY <2>5, <2>6 DEF Nearest
  <2>8. QED
    BY <2>7
<1>4. QED
  BY <1>2, <1>3

(* An end of a flight is matched with an airport within reach, if it is    *)
(* low enough and there is one.                                            *)
LEMMA EndMatched ==
    ASSUME NEW index \in [fields : SUBSET Airports, heliports : SUBSET Airports], NEW place \in Int,
           NEW rotor \in BOOLEAN, NEW agl
    PROVE  LET near == {a \in index.fields \cup (IF rotor THEN index.heliports ELSE {}) :
                           Away(a, place) <= MatchRadius}
           IN  /\ MatchEnd(index, place, rotor, agl) \subseteq near
               /\ MatchEnd(index, place, rotor, agl) # {} <=>
                     (\A height \in agl : height <= AglMatchMax) /\ near # {}
<1> DEFINE near == {a \in index.fields \cup (IF rotor THEN index.heliports ELSE {}) : Away(a, place) <= MatchRadius}
           reach(among) == {a \in among : Away(a, place) <= MatchRadius}
<1>1. Nearest(index.fields, place) \subseteq reach(index.fields)
      /\ (reach(index.fields) # {} => Nearest(index.fields, place) # {})
  BY NearestExists
<1>2. Nearest(index.heliports, place) \subseteq reach(index.heliports)
      /\ (reach(index.heliports) # {} => Nearest(index.heliports, place) # {})
  BY NearestExists
<1>3. near = reach(index.fields) \cup (IF rotor THEN reach(index.heliports) ELSE {})
  OBVIOUS
<1>4. NearestAirport(index, place, rotor) \subseteq near /\ (NearestAirport(index, place, rotor) # {} <=> near # {})
  <2> HIDE DEF near, reach
  <2>1. CASE rotor
    BY <2>1, <1>1, <1>2, <1>3 DEF NearestAirport
  <2>2. CASE ~rotor
    BY <2>2, <1>1, <1>3 DEF NearestAirport
  <2>3. QED
    BY <2>1, <2>2
<1>5. QED
  <2> HIDE DEF near, reach
  <2>1. CASE \A height \in agl : height <= AglMatchMax
    BY <2>1, <1>4, Zenon DEF MatchEnd, near
  <2>2. CASE ~(\A height \in agl : height <= AglMatchMax)
    BY <2>2, <1>4, Zenon DEF MatchEnd, near
  <2>3. QED
    BY <2>1, <2>2

(* backfill-airports leaves every row that it has passed and that has not  *)
(* changed since with an airport within reach for each end that is not     *)
(* known to be too high, where there is one                                *)
(* (backfill_airports.py lines 64-113).                                    *)
THEOREM AirportsAreUpToDate == Spec => []AirportsUpToDate
<1>1. ASSUME IdentsInv, Shapes PROVE AirportsUpToDate
  <2> SUFFICES ASSUME NEW f \in DOMAIN flights \cap idents.asked,
                      f \notin DOMAIN idents.todo \cup DOMAIN idents.pending \cup raced.idents,
                      NEW end \in 1..2
               PROVE  LET v     == FlattenSeq(PathOf[flights[f].raw])
                          place == IF end = 1 THEN v[1].place ELSE Last(v).place
                          low   == \A series \in flights[f].agl :
                                      (IF end = 1 THEN series[1][1] ELSE Last(Last(series))).agl <= AglMatchMax
                          near  == {a \in idents.index.fields
                                             \cup (IF Raws[flights[f].raw].rotor THEN idents.index.heliports ELSE {}) :
                                       Away(a, place) <= MatchRadius}
                      IN  /\ flights[f].airports[end] \subseteq near
                          /\ flights[f].airports[end] # {} <=> low /\ near # {}
    BY Zenon DEF AirportsUpToDate
  <2> DEFINE v == FlattenSeq(PathOf[flights[f].raw])
  <2>1. flights[f].airports = AirportsOf(idents.index, flights[f].raw, flights[f].agl)
    BY <1>1 DEF IdentsInv, GoodIdent, AirportsDue
  <2>2. flights[f].raw \in DOMAIN Raws
    BY <1>1 DEF Shapes, IsTable
  <2>3. Raws[flights[f].raw].rotor \in BOOLEAN
    BY <2>2, RotorKnown
  <2>4. v[1].place \in Int /\ Last(v).place \in Int
    BY <2>2, PathsHaveEnds
  <2>5. idents.index \in [fields : SUBSET Airports, heliports : SUBSET Airports]
    BY <1>1 DEF Shapes, IdentsShape
  <2>6. CASE end = 1
    <3>1. flights[f].airports[1] = MatchEnd(idents.index, v[1].place, Raws[flights[f].raw].rotor, StartAgl(flights[f].agl))
      BY <2>1 DEF AirportsOf
    <3>2. (\A series \in flights[f].agl : series[1][1].agl <= AglMatchMax)
          <=> (\A height \in StartAgl(flights[f].agl) : height <= AglMatchMax)
      BY DEF StartAgl
    <3> HIDE DEF v
    <3>3. QED
      BY <2>3, <2>4, <2>5, <2>6, <3>1, <3>2, EndMatched DEF v
  <2>7. CASE end = 2
    <3>1. flights[f].airports[2] = MatchEnd(idents.index, Last(v).place, Raws[flights[f].raw].rotor, EndAgl(flights[f].agl))
      BY <2>1 DEF AirportsOf
    <3>2. (\A series \in flights[f].agl : Last(Last(series)).agl <= AglMatchMax)
          <=> (\A height \in EndAgl(flights[f].agl) : height <= AglMatchMax)
      BY DEF EndAgl
    <3>3. QED
      BY <2>3, <2>4, <2>5, <2>7, <3>1, <3>2, EndMatched
  <2>8. QED
    BY <2>6, <2>7
<1>2. QED
  BY <1>1, IdentsInvHolds, ShapesHold, PTL

=============================================================================
