-------------------------- MODULE MCEventDetector --------------------------
(* TLC instances of EventDetector: two ranges with different min_duration. *)
EXTENDS EventDetector

CONSTANTS r1, r2, c1, c2

MCRanges == {r1, r2}
MCMinDuration == [r \in MCRanges |-> IF r = r1 THEN 1 ELSE 2]
=============================================================================
