---------------------------- MODULE MCQueryPaging ----------------------------
(* Instances of QueryPaging for TLC: seconds of two ticks. *)
EXTENDS QueryPaging

Row(t, a, h) == [ts |-> t, ac |-> a, hit |-> h]

(* Two flights that start at the same moment, two that start in one second *)
(* with them, of which the predicate rejects one, and an early one.        *)
Mixed == {Row(1, 1, TRUE), Row(4, 1, TRUE), Row(4, 2, TRUE), Row(5, 1, TRUE), Row(5, 2, FALSE)}

Archives == {{}, Mixed, {r \in Mixed : r.ts < 5}, {r \in Mixed : r.ts > 1}}

Windows == {[end |-> {}, from |-> {}], [end |-> {5}, from |-> {2}]}
=============================================================================
