------------------------- MODULE MCDerivedColumns -------------------------
(* Instances of DerivedColumns for TLC.  A sample is written as its place, *)
(* altitude, correction, squawk, speed and track; samples are 60 s apart,  *)
(* and altitudes are counted in 60 ft, so that all that is interpolated is *)
(* a whole number.                                                         *)
EXTENDS DerivedColumns

From(at, samples) ==
    [i \in DOMAIN samples |->
        [at |-> at + 60 * (i - 1), place |-> samples[i][1], alt |-> 60 * samples[i][2], qnh |-> samples[i][3],
         squawk |-> samples[i][4], gs |-> samples[i][5], track |-> samples[i][6]]]

Plain(place, alt) == <<place, alt, 0, {}, {}, {}>>

(* From the field at 0 over the high ground of tile 1 to the heliport at   *)
(* 7, and a hop between the fields at 0 and 2.                             *)
AcrossTiles == [rotor |-> TRUE,
                seqs |-> <<From(0, <<Plain(0, 0), Plain(2, 5), Plain(4, 8)>>),
                           From(600, <<Plain(5, 9), Plain(7, 5)>>)>>]
LowHop      == [rotor |-> FALSE, seqs |-> <<From(0, <<Plain(0, 1), Plain(1, 1), Plain(2, 0)>>)>>]

(* Pressure that drifts, over a short and a long sub-sequence; codes and   *)
(* tracks that come and go.                                                *)
Drifting == [rotor |-> FALSE,
             seqs |-> <<From(0, <<<<0, 0, 0, {}, {40}, {0}>>, <<1, 4, 20, {"a"}, {80}, {12}>>, <<1, 6, 40, {}, {90}, {}>>>>),
                        From(600, <<<<2, 6, 60, {"a"}, {90}, {60}>>, <<3, 6, 80, {"b"}, {60}, {}>>,
                                    <<4, 6, 100, {}, {60}, {12}>>, <<6, 0, 120, {"b"}, {20}, {12}>>>>)>>]
Steady   == [rotor |-> FALSE,
             seqs |-> <<From(0, <<<<0, 0, 0, {"a"}, {40}, {48}>>, <<2, 4, 20, {"a"}, {80}, {60}>>,
                                  <<3, 0, 40, {"a"}, {20}, {0}>>, <<5, 4, 60, {"b"}, {80}, {24}>>>>)>>]

(* The hops of five samples over some places, at three altitudes. *)
Hop(places, n) ==
    [rotor |-> FALSE,
     seqs  |-> <<From(0, [i \in 1..5 |-> Plain(places[i], <<0, 2, 5>>[((n \div 3^i) % 3) + 1])])>>]

Routes   == <<<<0, 0, 3, 3, 4>>, <<0, 3, 1, 4, 4>>, <<2, 2, 2, 2, 2>>>>
SomeRaws == <<AcrossTiles, LowHop, Drifting, Steady>>
AllRaws  == [r \in 1..733 |-> IF r <= 4 THEN SomeRaws[r] ELSE Hop(Routes[(r % 3) + 1], r - 5)]

(* Three jobs that overlap; two with a failure and a kill; two over three  *)
(* rows, so that a backfill writes them in two batches; and each raw       *)
(* flight by itself.                                                       *)
Bounds(keys, raws, jobs, faults) ==
    [keys |-> keys, raws |-> raws, jobs |-> jobs, failures |-> faults, kills |-> faults]

SomeLoads == {Bounds({1, 2}, {1, 2}, 3, 0), Bounds({1, 2}, {1, 2}, 2, 1), Bounds({1, 2, 3}, {1}, 2, 0)}
             \cup {Bounds({1}, {r}, 0, 0) : r \in DOMAIN AllRaws}

Highland == 1 :> 420
Days     == 1 :> 1 @@ 2 :> 3 @@ 3 :> 3
Field    == "east" :> 2 @@ "west" :> 0 @@ "pad" :> 7
Country  == "east" :> "B" @@ "west" :> "A" @@ "pad" :> "A"
Releases == <<"east" :> "none" @@ "west" :> "field" @@ "pad" :> "heliport",
              "east" :> "field" @@ "west" :> "closed" @@ "pad" :> "none">>
=============================================================================
