--------------------------- MODULE NotificationGate ---------------------------
(***************************************************************************)
(* What a rate-limited notifier promises for each notification key: at     *)
(* most one message under way at a time, and at least Cooldown between one *)
(* delivery and the acceptance of the next message.  A message that is     *)
(* given up does not start a cooldown.                                     *)
(***************************************************************************)
EXTENDS Integers

CONSTANTS Keys, Cooldown, MaxTime

VARIABLES
  now,       \* the clock
  inFlight,  \* keys with an accepted message neither delivered nor given up
  last       \* last[k]: when a message of key k was last delivered

gateVars == <<now, inFlight, last>>

Never == -1

Init == now = 0 /\ inFlight = {} /\ last = [k \in Keys |-> Never]

Tick == now < MaxTime /\ now' = now + 1 /\ UNCHANGED <<inFlight, last>>

Open(k) == last[k] = Never \/ now - last[k] >= Cooldown

Accept(k) ==
  /\ k \notin inFlight /\ Open(k)
  /\ inFlight' = inFlight \cup {k}
  /\ UNCHANGED <<now, last>>

Deliver(k) ==
  /\ k \in inFlight
  /\ inFlight' = inFlight \ {k}
  /\ last' = [last EXCEPT ![k] = now]
  /\ UNCHANGED now

GiveUp(k) ==
  /\ k \in inFlight
  /\ inFlight' = inFlight \ {k}
  /\ UNCHANGED <<now, last>>

Next == Tick \/ \E k \in Keys : Accept(k) \/ Deliver(k) \/ GiveUp(k)

Spec == Init /\ [][Next]_gateVars
===============================================================================
