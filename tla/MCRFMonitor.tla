---------------------------- MODULE MCRFMonitor ----------------------------
(* TLC instances of RFMonitor. *)
EXTENDS RFMonitor

CONSTANTS r1, r2, t1

MCOneRange == {r1}
MCMinDuration == [r \in Ranges |-> IF r = r1 THEN 1 ELSE 0]
MCReconfigurations == {{r1}}
=============================================================================
