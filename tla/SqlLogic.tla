------------------------------- MODULE SqlLogic -------------------------------
(***************************************************************************)
(* The three truth values of a SQL condition.  A condition on a missing    *)
(* value is "null"; a row is returned when its condition is "true".        *)
(***************************************************************************)
Values == {"true", "false", "null"}

Truth(b) == IF b THEN "true" ELSE "false"

(* AND, OR and NOT; TRUE is the AND and FALSE the OR of no condition. *)
AndOf(S) == IF "false" \in S THEN "false" ELSE IF "null" \in S THEN "null" ELSE "true"

OrOf(S) == IF "true" \in S THEN "true" ELSE IF "null" \in S THEN "null" ELSE "false"

NotOf(x) == IF x = "null" THEN "null" ELSE Truth(x = "false")
=============================================================================
