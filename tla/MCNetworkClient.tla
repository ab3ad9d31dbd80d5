---------------------------- MODULE MCNetworkClient ----------------------------
(* Two threads, of which one has the buffer, and two values for the timeout. *)
EXTENDS NetworkClient

CONSTANTS t1, t2
=============================================================================
