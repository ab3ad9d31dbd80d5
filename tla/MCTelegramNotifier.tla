------------------------- MODULE MCTelegramNotifier -------------------------
(* TLC instance of TelegramNotifier. *)
EXTENDS TelegramNotifier, TLC

CONSTANTS k1, k2

MCKeys == {k1, k2}
=============================================================================
