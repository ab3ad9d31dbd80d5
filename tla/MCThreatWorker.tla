--------------------------- MODULE MCThreatWorker ---------------------------
(* TLC instances of ThreatWorker: the two channels that have a detector *)
(* (ELRS at 869 MHz, video at 1280 MHz).                                *)
EXTENDS ThreatWorker, TLC

CONSTANTS f869, f1280

MCTwo == {f869, f1280}
MCTwoOf == 0 :> f869 @@ 1 :> f1280
MCDetectorOf == [f \in Freqs |->
  CASE f = f869 -> "elrs" [] f = f1280 -> "video" [] OTHER -> "none"]

MCTwoLevels == {2, 80}
===============================================================================
