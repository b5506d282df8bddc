------------------------------ MODULE MCIngest ------------------------------
(* Instances of Ingest for TLC: days of six ticks, two aircraft. *)
EXTENDS Ingest

Air(T)    == {[ts |-> t, air |-> TRUE, leg |-> FALSE, pos |-> 0] : t \in T}
Taxi(T)   == {[ts |-> t, air |-> FALSE, leg |-> TRUE, pos |-> 0] : t \in T}
Stand(T)   == {[ts |-> t, air |-> FALSE, leg |-> FALSE, pos |-> 0] : t \in T}

Traces(a, b) == [ac \in {"a", "b"} |-> IF ac = "a" THEN a ELSE b]

(* Both cross midnight and are cut on day 2 by the cap, "a" early enough to *)
(* be carried into day 3, "b" so late that nothing is in progress; "b"     *)
(* takes off again in the last minute of day 1.                            *)
Crossing == << Traces(Air({4, 5, 6}), Air({1, 2, 6}) \cup Taxi({5})),
               Traces(Air(1..6),      Air(1..6)),
               Traces(Air({1, 2}),    Air({5, 6})) >>

(* "a" stands at the end of day 1, so the cap cuts what it flies on day 2  *)
(* and the first flight of the day is settled.  A run of day 2 without the *)
(* carry of day 1 takes all of it to be in progress, and a run of day 3 on *)
(* that carry writes the first flight again, longer and as its own.        *)
TakenOver == << Traces(Stand({4, 5, 6}),              Air({5, 6})),
                Traces(Stand({1}) \cup Air(2..6),     {}),
                Traces(Air({1, 2}),                   {}) >>
=============================================================================
