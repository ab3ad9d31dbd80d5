----------------------------- MODULE MCIiodServer -----------------------------
(* One client reads a channel; the other reads or writes another one, or writes *)
(* it with a cyclic buffer.                                                     *)
EXTENDS IiodServer, TLC

CONSTANTS c1, c2

Buffer(mask, n, cyclic, writer) ==
  [mask |-> mask, count |-> n, cyclic |-> cyclic, writer |-> writer]

MCBuffers == (c1 :> {Buffer({1}, 3, FALSE, FALSE)})
          @@ (c2 :> {Buffer({2}, 4, FALSE, FALSE), Buffer({2}, 4, FALSE, TRUE),
                  Buffer({2}, 4, TRUE, TRUE)})
=============================================================================
