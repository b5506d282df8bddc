------------------------------ MODULE Timeline ------------------------------
(***************************************************************************)
(* What the daily import promises to those who read the flights table:     *)
(* at any moment the flights of an aircraft are those of the days up to    *)
(* some day, and they only move forward.  Aircraft may be at different     *)
(* days, as no transaction spans a batch.                                  *)
(***************************************************************************)
EXTENDS Naturals

CONSTANTS
    Aircraft,
    LastDay,
    Snapshots   \* Snapshots[ac][d]: the flights of ac when days 1..d are ingested

VARIABLE visible

Init == visible = [ac \in Aircraft |-> Snapshots[ac][0]]

Advance(ac, d, e) ==
    /\ d < e
    /\ visible[ac] = Snapshots[ac][d]
    /\ visible' = [visible EXCEPT ![ac] = Snapshots[ac][e]]

Next == \E ac \in Aircraft, d, e \in 0..LastDay : Advance(ac, d, e)

Spec == Init /\ [][Next]_visible
=============================================================================
