----------------------------- MODULE MCUsbBackend ------------------------------
(* Two threads, two devices, and one or two couples for them. *)
EXTENDS UsbBackend

CONSTANTS t1, t2, d1, d2
================================================================================
