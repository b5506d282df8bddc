----------------------------- MODULE MCCarryOver ----------------------------
(* An instance of CarryOver for TLC: days of four ticks, with the thresholds *)
(* in the order of the source (60 s < 10 min < 1 h < 12 h < 24 h).           *)
EXTENDS CarryOver

P(t, air, leg, pos) == [ts |-> t, air |-> air, leg |-> leg, pos |-> pos]

(* A full day and parts of one in the air, take-offs and landings, parked    *)
(* time, new legs, garbage positions, one of them beside a report of the     *)
(* same time.                                                                *)
Traces ==
    LET air(T)    == {P(t, TRUE, FALSE, 0) : t \in T}
        ground(T) == {P(t, FALSE, FALSE, 0) : t \in T}
        leg(T)    == {P(t, TRUE, TRUE, 0) : t \in T}
        taxi(T)   == {P(t, FALSE, TRUE, 0) : t \in T}
        far(T)    == {P(t, TRUE, FALSE, 5) : t \in T}
    IN  { {}, air(1..4), air({3, 4}), air({1, 4}), air({1, 2}),
          air({1, 2}) \cup ground({3, 4}), taxi({1}) \cup air({2, 3, 4}),
          air({1, 2}) \cup leg({3}) \cup air({4}),
          air({1, 4}) \cup far({2}), air({2, 3, 4}) \cup far({2}) }

FourDays == 1..4
=============================================================================
