--------------------------- MODULE LeafPredicates ---------------------------
(***************************************************************************)
(* The predicates without children of compile_predicate                    *)
(* (server/adsb_server/query/compiler.py), each compiled to the fragment   *)
(* that PredicateCompiler puts together.                                   *)
(*                                                                         *)
(* A row is a flight of SpatialPath with its icao24 and with a callsign,   *)
(* an aircraft type, a category and the registration of a joined airframe, *)
(* each an option: NULL when it is missing.  Identifiers are sequences of  *)
(* characters.                                                             *)
(***************************************************************************)
EXTENDS SpatialPath, Sequences, SequencesExt

CONSTANTS
    RowKeys,    \* keys of flights, larger for those that started later
    RowOf,      \* their columns
    Upper,      \* upper() of a character
    Lower       \* lower() of a character

Each(parts) == [r \in RowKeys |-> AndOf({p.value : p \in parts[r]})]

(* A fragment: its WHERE clause, whether that is the text TRUE, the        *)
(* conditions for the outer query, the bind parameters that it adds and,   *)
(* with a CTE, how many of them come before the CTE is named.  A leaf that *)
(* is not valid is refused with 422, as one whose geometry is too large is.*)
Leaf(where, text, outer, params, cte) ==
    [where |-> where, text |-> text, outer |-> outer, params |-> params, cte |-> cte,
     refused |-> FALSE]

(* -- trajectory_intersects, trajectory_within -- *)

Given(v) ==
    Cardinality({x \in {"altMin", "altMax", "from", "to", "aglMin", "aglMax"} : v[x] # None})

(* One parameter for each bound, one for the cells, three for a circle and *)
(* one for another shape; those of the measures and of the squawk codes    *)
(* come after the CTE is named.                                            *)
ParamsBefore(v) ==
    Given(v) + (IF HasCells(v) THEN 1 ELSE 0)
    + (IF v.geometry = None THEN 0 ELSE IF \E g \in v.geometry : g.kind = "Circle" THEN 3 ELSE 1)

ParamsAfter(v) ==
    Cardinality({x \in {"dwellMin", "dwellMax", "distMin", "distMax", "squawk"} : v[x] # {}})

HasCte(v) == v.geometry # None /\ (HasAlt(v) \/ HasTime(v) \/ v.kind = "intersects")

(* Nothing is left for the inner query. *)
AllDeferred(v) ==
    Deferred(v) /\ ~HasCells(v) /\ ~HasAgl(v) /\ v.dwellMin = None /\ v.squawk = {}

TrajectoryLeaf(v) ==
    [Leaf(Each([r \in RowKeys |-> Inner(RowOf[r], v)]), AllDeferred(v),
          IF Deferred(v)
          THEN {[r \in RowKeys |-> AndOf({p.value : p \in {q \in Outer(RowOf[r], v) : q.sql = sql}})]
                   : sql \in Expensive}
          ELSE {},
          ParamsBefore(v) + ParamsAfter(v),
          IF HasCte(v) THEN {ParamsBefore(v)} ELSE None)
     EXCEPT !.refused = TooLarge(v) \/ ~IsBlock(v)]

(* -- endpoint_within -- *)

Constraints == {"geometry", "startFrom", "startTo", "endFrom", "endTo"}

(* EndpointWithinValue: at least one constraint must be set. *)
IsEndpoint(e) ==
    /\ e.mode \in {"start", "end", "either", "both"}
    /\ \A field \in Constraints : Cardinality(e[field]) <= 1
    /\ \E field \in Constraints : e[field] # None

StartIn(f, e) == \A g \in e.geometry : f.place[Start(f)] \in g.places
EndIn(f, e)   == \A g \in e.geometry : f.place[End(f)] \in g.places

DuringStart(f, e) == (\A t \in e.startFrom : Start(f) >= t) /\ (\A t \in e.startTo : Start(f) < t)
DuringEnd(f, e)   == (\A t \in e.endFrom : End(f) >= t) /\ (\A t \in e.endTo : End(f) < t)

(* Whether a branch of "either" has a condition: one without is left out. *)
StartAsked(e) == e.geometry # None \/ e.startFrom # None \/ e.startTo # None
EndAsked(e)   == e.geometry # None \/ e.endFrom # None \/ e.endTo # None

EndpointHolds(f, e) ==
    CASE e.mode = "either" ->
            \/ StartAsked(e) /\ StartIn(f, e) /\ DuringStart(f, e)
            \/ EndAsked(e) /\ EndIn(f, e) /\ DuringEnd(f, e)
      [] OTHER ->
            /\ e.mode \in {"start", "both"} => StartIn(f, e) /\ DuringStart(f, e)
            /\ e.mode \in {"end", "both"} => EndIn(f, e) /\ DuringEnd(f, e)

(* No condition is left of bounds on the endpoint that the mode ignores. *)
EndpointText(e) ==
    \/ e.mode = "start" /\ ~StartAsked(e)
    \/ e.mode = "end" /\ ~EndAsked(e)

EndpointLeaf(e) ==
    [Leaf(Each([r \in RowKeys |-> Part("endpoint", Truth(EndpointHolds(RowOf[r], e)))]),
          EndpointText(e), {}, 1, None)
     EXCEPT !.refused = ~IsEndpoint(e)]

(* -- identifiers and duration -- *)

(* replace(upper(...), '-', '') of _norm, and of normalize_ident *)
Norm(name) == [i \in DOMAIN SelectSeq(name, LAMBDA c : c # "-") |->
                  Upper[SelectSeq(name, LAMBDA c : c # "-")[i]]]

Lowered(name) == [i \in DOMAIN name |-> Lower[name[i]]]

(* The values of a column. *)
Names(column) == UNION {RowOf[r][column] : r \in RowKeys}

Column(column, asked) ==
    [r \in RowKeys |->
        Part(column, IF RowOf[r][column] = None THEN "null" ELSE Truth(RowOf[r][column] \subseteq asked))]

(* The validators of the request normalize the identifiers that are asked. *)
Normalized(asked) == {Norm(name) : name \in asked}
Addresses(asked)  == {Lowered(name) : name \in asked}

(* icao_type and emitter_category: = ANY(...) *)
AnyOfLeaf(column, asked) ==
    Leaf(Each(Column(column, {x \in Names(column) : Norm(x) \in Normalized(asked)})),
         FALSE, {}, 1, None)

(* callsign_prefix and registration_prefix: LIKE '...%' *)
PrefixLeaf(column, asked) ==
    Leaf(Each(Column(column, {x \in Names(column) : IsPrefix(Norm(asked), Norm(x))})),
         FALSE, {}, 1, None)

Icao24Leaf(asked) ==
    Leaf(Each([r \in RowKeys |-> Part("icao24", Truth(RowOf[r].icao24 \in Addresses(asked)))]),
         FALSE, {}, 1, None)

DurationLeaf(least, most) ==
    Leaf(Each([r \in RowKeys |->
                  Part("duration", Truth(InBounds(End(RowOf[r]) - Start(RowOf[r]), least, most)))]),
         least = None /\ most = None, {}, Cardinality(least) + Cardinality(most), None)
=============================================================================
