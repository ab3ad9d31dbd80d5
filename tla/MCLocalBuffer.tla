----------------------------- MODULE MCLocalBuffer -----------------------------
(* A device with one or two channels, buffers of two samples and up to three blocks. *)
EXTENDS LocalBuffer

CONSTANTS c1, c2
================================================================================
