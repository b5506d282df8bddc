---------------------------- MODULE StoredFlight ----------------------------
(***************************************************************************)
(* The columns of a flights row that are computed from the samples of a    *)
(* flight: _process_and_correct and _flight_to_params of                   *)
(* server/adsb_server/ingestion/batch.py, compute_correction_series of     *)
(* pressure/correct.py, stitched_length_m_sql of geometry/stitch.py and    *)
(* AirportIndex of ingestion/airport_index.py.                             *)
(*                                                                         *)
(* A raw flight is its sub-sequences of samples, each with the correction  *)
(* to the altitude that the pressure at its place and time asks for (qnh), *)
(* and whether it is a rotorcraft (emitter category A7).  The samples are  *)
(* in order of time throughout (batch.py lines 297-302).                   *)
(***************************************************************************)
EXTENDS Terrain

CONSTANTS
    Raws,           \* the raw flights of the instance, a sequence
    Threshold,      \* _THRESHOLD_FT
    Airports,       \* ids of waypoints
    AirportAt,      \* the place of each
    MatchRadius,    \* MATCH_RADIUS_M
    AglMatchMax     \* AGL_MATCH_MAX_FT

AtMostOne(set) == \A v, w \in set : v = w

Sample ==
    {x \in [at : Int, place : Int, alt : Int, qnh : Int,
            squawk : SUBSET STRING, gs : SUBSET Int, track : SUBSET Int] :
        AtMostOne(x.squawk) /\ AtMostOne(x.gs) /\ AtMostOne(x.track)}

InTimeOrder(s) == \A i, j \in DOMAIN s : i < j => s[i].at < s[j].at

ASSUME StoredFlightConstants ==
    /\ Raws \in Seq([rotor : BOOLEAN, seqs : Seq(Seq(Sample))])
    /\ \A r \in DOMAIN Raws :
          LET seqs == Raws[r].seqs
          IN  /\ seqs # <<>>
              /\ \A q \in DOMAIN seqs : Len(seqs[q]) >= 2 /\ InTimeOrder(seqs[q])
              /\ \A q \in 2..Len(seqs) : Last(seqs[q - 1]).at < seqs[q][1].at
    /\ AirportAt \in [Airports -> Int]
    /\ Threshold \in Nat \ {0} /\ MatchRadius \in Nat /\ AglMatchMax \in Int

-----------------------------------------------------------------------------
(* finalize_segment lines 339-361: the samples of each sub-sequence with   *)
(* what was missing filled in, and those that become its vertices.         *)

Samples == [r \in DOMAIN Raws |-> [q \in DOMAIN Raws[r].seqs |-> Filled(Raws[r].seqs[q])]]

Kept == [r \in DOMAIN Raws |-> [q \in DOMAIN Raws[r].seqs |-> SimplifyFlight(Samples[r][q])]]

PathOf == [r \in DOMAIN Raws |-> [q \in DOMAIN Raws[r].seqs |-> Picked(Samples[r][q], Kept[r][q])]]

-----------------------------------------------------------------------------
(* compute_correction_series: the vertices where the correction has moved  *)
(* by the threshold since the last entry, and the two ends.                *)

Entry(vertex) == [at |-> vertex.at, value |-> vertex.qnh]

BugSincePrevious(entries, vertices, i) == Abs(vertices[i].qnh - vertices[i - 1].qnh) >= Threshold
Moved(entries, vertices, i) == Abs(vertices[i].qnh - Last(entries).value) >= Threshold

Corrections(vertices) ==
    FoldLeft(LAMBDA entries, i :
                 IF i = 1 \/ i = Len(vertices) \/ Moved(entries, vertices, i)
                 THEN Append(entries, Entry(vertices[i])) ELSE entries,
             <<>>, [i \in DOMAIN vertices |-> i])

CorrectionOf == [r \in DOMAIN Raws |-> Corrections(FlattenSeq(PathOf[r]))]

(* _process_and_correct lines 324-336: the entries are dealt out by the    *)
(* number of vertices of each sub-sequence; empty parts are left out.      *)
StoredCorrection(path, entries) ==
    LET before(q) == Len(FlattenSeq(SubSeq(path, 1, q - 1)))
        upTo(n)   == IF n < Len(entries) THEN n ELSE Len(entries)
        parts     == [q \in DOMAIN path |-> SubSeq(entries, before(q) + 1, upTo(before(q) + Len(path[q])))]
    IN  Picked(parts, {q \in DOMAIN path : parts[q] # <<>>})

StoredCorrectionOf == [r \in DOMAIN Raws |-> StoredCorrection(PathOf[r], CorrectionOf[r])]

-----------------------------------------------------------------------------
(* compute_agl_series, for the tiles that are read.  backfill-agl takes    *)
(* the entries out of the stored parts, one after the other                *)
(* (backfill_agl.py lines 61-71), which are those of the batch again.      *)
AglOf == [r \in DOMAIN Raws |-> [readable \in SUBSET OnLand |->
             AglSeries(PathOf[r], FlattenSeq(StoredCorrectionOf[r]), readable)]]

Crossed(r) == {TileAt(v.place) : v \in UNION {ToSet(Densify(PathOf[r][q])) : q \in DOMAIN PathOf[r]}}

(* stitched_length_m_sql: gaps are bridged. *)
LengthOf ==
    [r \in DOMAIN Raws |->
        LET v == FlattenSeq(PathOf[r])
        IN  FoldLeft(+, 0, [i \in 1..(Len(v) - 1) |-> Abs(v[i + 1].place - v[i].place)])]

-----------------------------------------------------------------------------
(* AirportIndex.nearest, over the open fields and heliports of the index,  *)
(* no two of which are equally near.                                       *)

Away(airport, place) == Abs(AirportAt[airport] - place)

Nearest(among, place) ==
    {a \in among : /\ Away(a, place) <= MatchRadius
                   /\ \A b \in among : Away(a, place) <= Away(b, place)}

NearestAirport(index, place, rotor) ==
    IF rotor /\ Nearest(index.heliports, place) # {}
    THEN Nearest(index.heliports, place)
    ELSE Nearest(index.fields, place)

(* An end of a flight is matched unless it is known to be too high. *)
MatchEnd(index, place, rotor, agl) ==
    IF \A height \in agl : height <= AglMatchMax THEN NearestAirport(index, place, rotor) ELSE {}

StartAgl(agl) == {series[1][1].agl : series \in agl}
EndAgl(agl)   == {Last(Last(series)).agl : series \in agl}

BugGateOfStart(index, r, agl) ==
    LET v == FlattenSeq(PathOf[r])
    IN  <<MatchEnd(index, v[1].place, Raws[r].rotor, StartAgl(agl)),
          MatchEnd(index, Last(v).place, Raws[r].rotor, StartAgl(agl))>>

(* start_airport_ident and end_airport_ident, a set of at most one each;   *)
(* agl is the series of the flight or nothing.                             *)
AirportsOf(index, r, agl) ==
    LET v == FlattenSeq(PathOf[r])
    IN  <<MatchEnd(index, v[1].place, Raws[r].rotor, StartAgl(agl)),
          MatchEnd(index, Last(v).place, Raws[r].rotor, EndAgl(agl))>>
=============================================================================
