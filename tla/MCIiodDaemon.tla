----------------------------- MODULE MCIiodDaemon -----------------------------
(* Two network sessions, two USB pipes, three attempts to reach Avahi. *)
EXTENDS IiodDaemon
=============================================================================
