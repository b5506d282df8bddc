----------------------------- MODULE MCAppQuery -----------------------------
(* Instances of AppQuery for TLC: days of two ticks, windows of one day. *)
EXTENDS AppQuery

Starts == {0, 1, 4}

(* Two airspaces at the corner, one at the field. *)
AirspacesAt == [corner |-> {"north", "south"}, field |-> {"north"}]

FlightsIn ==
    [corner |-> {0, 4}, field |-> {1}, loop |-> {0, 1}, north |-> {1, 4}, south |-> {4},
     near |-> {0, 1}, wide |-> Starts]

Dates == {[to |-> {2}, from |-> {1}]}

LinkDates == [to |-> {2}, from |-> {}]
=============================================================================
