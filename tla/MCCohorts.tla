------------------------------- MODULE MCCohorts -------------------------------
(* A semester may be typed as a word or as the year.                       *)
EXTENDS Cohorts, TLC

FirstSemesterOnly == ("first" :> 1) @@ ("2026" :> 0)
=============================================================================
