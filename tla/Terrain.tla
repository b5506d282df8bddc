------------------------------ MODULE Terrain ------------------------------
(***************************************************************************)
(* The elevation tiles (server/adsb_server/terrain/dem_downloader.py and   *)
(* tiles.py) and the heights above ground computed from them (agl.py).     *)
(*                                                                         *)
(* A tile is TileWidth places of the line and has one elevation.  On disk  *)
(* it is absent, a .npy file that is whole, one that np.save has not       *)
(* finished ("partial"), or the marker of a tile the bucket does not have. *)
(* np.save runs in the event loop: while it writes, the downloader does    *)
(* nothing else, but the processes that read tiles go on.                  *)
(***************************************************************************)
EXTENDS Simplification

CONSTANTS
    Tiles,        \* _all_tile_coords
    OnLand,       \* the tiles that the bucket has
    Elevation,    \* the elevation of each of them, in feet
    TileWidth,
    Workers,      \* connections of the downloader
    MaxRetries

ASSUME TerrainConstants ==
    /\ Tiles \subseteq Nat /\ IsFiniteSet(Tiles) /\ OnLand \subseteq Tiles
    /\ Elevation \in [OnLand -> Int]
    /\ TileWidth \in Nat \ {0} /\ Workers \in Nat \ {0} /\ MaxRetries \in Nat

VARIABLES
    tiles,     \* what is on disk, for each tile
    download,  \* the downloader
    torn       \* the tiles that a downloader was writing when it was killed

terrainVars == <<tiles, download, torn>>

NoDownload == [pc |-> "idle", waiting |-> {}, fetching |-> {}, saving |-> {}, errors |-> {}, attempt |-> 0]

TerrainInit == tiles = [t \in Tiles |-> "absent"] /\ download = NoDownload /\ torn = {}

-----------------------------------------------------------------------------
(* download_all.  Every task looks for its file before the first of them   *)
(* is answered.                                                            *)

Attempt(n, pending) ==
    [pc |-> "running", waiting |-> {t \in pending : tiles[t] = "absent"},
     fetching |-> {}, saving |-> {}, errors |-> {}, attempt |-> n]

StartDownload ==
    /\ download.pc # "running"
    /\ download' = Attempt(0, Tiles)
    /\ UNCHANGED <<tiles, torn>>

Busy == download.saving # {}

Request(t) ==
    /\ t \in download.waiting /\ ~Busy
    /\ Cardinality(download.fetching) < Workers
    /\ download' = [download EXCEPT !.waiting = @ \ {t}, !.fetching = @ \cup {t}]
    /\ UNCHANGED <<tiles, torn>>

BugAnyErrorIsMissing(t) == t \notin OnLand \/ download.attempt = MaxRetries
Missing(t) == t \notin OnLand

NotFound(t) ==
    /\ t \in download.fetching /\ ~Busy
    /\ Missing(t)
    /\ tiles' = [tiles EXCEPT ![t] = "marker"]
    /\ download' = [download EXCEPT !.fetching = @ \ {t}]
    /\ UNCHANGED torn

RequestFails(t) ==
    /\ t \in download.fetching /\ ~Busy
    /\ download' = [download EXCEPT !.fetching = @ \ {t}, !.errors = @ \cup {t}]
    /\ UNCHANGED <<tiles, torn>>

(* _tif_to_npy: open the file, write it; what cannot be written is removed *)
(* again.                                                                  *)
BeginSave(t) ==
    /\ t \in download.fetching \cap OnLand /\ ~Busy
    /\ tiles' = [tiles EXCEPT ![t] = "partial"]
    /\ download' = [download EXCEPT !.fetching = @ \ {t}, !.saving = {t}]
    /\ UNCHANGED torn

EndSave(t) ==
    /\ t \in download.saving
    /\ tiles' = [tiles EXCEPT ![t] = "whole"]
    /\ download' = [download EXCEPT !.saving = {}]
    /\ UNCHANGED torn

SaveFails(t) ==
    /\ t \in download.saving
    /\ tiles' = [tiles EXCEPT ![t] = "absent"]
    /\ download' = [download EXCEPT !.saving = {}, !.errors = @ \cup {t}]
    /\ UNCHANGED torn

EndAttempt ==
    /\ download.pc = "running"
    /\ download.waiting \cup download.fetching \cup download.saving = {}
    /\ download' = IF download.errors # {} /\ download.attempt < MaxRetries
                   THEN Attempt(download.attempt + 1, download.errors)
                   ELSE [download EXCEPT !.pc = "ended"]
    /\ UNCHANGED <<tiles, torn>>

KillDownload ==
    /\ download.pc = "running"
    /\ download' = NoDownload
    /\ torn' = torn \cup download.saving
    /\ UNCHANGED tiles

-----------------------------------------------------------------------------
(* TileManager: a tile that was not there once is not looked for again by  *)
(* the same manager; one that cannot be loaded counts as sea level.        *)

TileAt(place) == place \div TileWidth

Exists(t) == tiles[t] \in {"partial", "whole"}
Readable(missed) == {t \in Tiles : tiles[t] = "whole"} \ missed
MissedAfter(missed, crossed) == missed \cup {t \in crossed : ~Exists(t)}

Ground(place, readable) ==
    IF TileAt(place) \in readable THEN Elevation[TileAt(place)] ELSE 0

-----------------------------------------------------------------------------
(* compute_agl_series for the vertices of a path, a sequence of            *)
(* sub-sequences, and the entries of the correction series.  There is a    *)
(* sample at each place that a segment passes, at least at its end.        *)

Segment(v, w) ==
    LET n == IF Abs(w.place - v.place) > 1 THEN Abs(w.place - v.place) ELSE 1
    IN  [i \in 1..n |-> [at    |-> v.at + ((i * (w.at - v.at)) \div n),
                         place |-> v.place + ((i * (w.place - v.place)) \div n),
                         alt   |-> v.alt + ((i * (w.alt - v.alt)) \div n)]]

Densify(vertices) ==
    FlattenSeq([i \in DOMAIN vertices |->
                    IF i = 1
                    THEN <<[at |-> vertices[1].at, place |-> vertices[1].place, alt |-> vertices[1].alt]>>
                    ELSE Segment(vertices[i - 1], vertices[i])])

(* _stepwise_correction: the entry in effect, before the first one that.   *)
CorrectionAt(entries, at) ==
    LET before == {i \in DOMAIN entries : entries[i].at <= at}
    IN  IF entries = <<>> THEN 0
        ELSE IF before = {} THEN entries[1].value
        ELSE entries[CHOOSE i \in before : \A j \in before : j <= i].value

Heights(vertices, entries, readable) ==
    LET dense == Densify(vertices)
    IN  [i \in DOMAIN dense |->
            [at  |-> dense[i].at,
             agl |-> dense[i].alt + CorrectionAt(entries, dense[i].at) - Ground(dense[i].place, readable)]]

AglSeries(path, entries, readable) ==
    [q \in DOMAIN path |->
        LET heights == Heights(path[q], entries, readable) IN Picked(heights, AglKept(heights))]

-----------------------------------------------------------------------------
(* Every tile that the bucket has is on disk, whole, when the downloader   *)
(* ends, unless it reports the tile as failing or an earlier run of it was *)
(* killed while it wrote the file; only then is a file left that cannot be *)
(* read; and a tile is marked as absent from the bucket only if it is      *)
(* (dem_downloader.py lines 45-96 and 115-152).                            *)
TilesComplete ==
    /\ \A t \in Tiles :
          /\ tiles[t] = "marker" => t \notin OnLand
          /\ tiles[t] = "partial" => t \in download.saving \cup torn
    /\ download.pc = "ended" =>
          \A t \in Tiles \ (download.errors \cup torn) :
              tiles[t] = IF t \in OnLand THEN "whole" ELSE "marker"
=============================================================================
