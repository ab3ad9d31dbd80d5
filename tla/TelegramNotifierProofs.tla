------------------------ MODULE TelegramNotifierProofs ------------------------
(* Theorems about TelegramNotifier, for every set of keys, every cooldown and
   every number of attempts. *)
EXTENDS TelegramNotifier, TLAPS

LEMMA InitTypeOK == Init => TypeOK
<1> SUFFICES ASSUME Init PROVE TypeOK
  OBVIOUS
<1>1. now \in Time
  BY NotifierConstants DEF Init, Time
<1>2. queue \in Seq(Messages)
  BY DEF Init
<1>3. attempt \in 0 .. MaxAttempts
  BY NotifierConstants DEF Init
<1> QED
  BY <1>1, <1>2, <1>3 DEF Init, TypeOK, Messages

LEMMA NextTypeOK == TypeOK /\ [Next]_notifierVars => TypeOK'
<1> SUFFICES ASSUME TypeOK, [Next]_notifierVars PROVE TypeOK'
  OBVIOUS
<1> USE NotifierConstants DEF TypeOK, Messages, sharedVars, guiVars, workerVars
<1>1. CASE Tick
  BY <1>1 DEF Tick, Time
<1>2. CASE Start
  BY <1>2 DEF Start
<1>3. CASE Stop
  BY <1>3 DEF Stop
<1>4. ASSUME NEW k \in Keys, NotifyEvent(k) PROVE TypeOK'
  BY <1>4 DEF NotifyEvent
<1>5. CASE CheckCooldown
  BY <1>5 DEF CheckCooldown
<1>6. CASE AddPending
  BY <1>6 DEF AddPending
<1>7. CASE PutEvent
  BY <1>7 DEF PutEvent
<1>8. CASE NotifyStatus
  BY <1>8 DEF NotifyStatus
<1>9. CASE WorkerExits
  BY <1>9 DEF WorkerExits
<1>10. CASE Get
  <2>1. Head(queue) \in Keys \cup {Status} /\ Tail(queue) \in Seq(Keys \cup {Status})
    BY <1>10 DEF Get
  <2> QED
    BY <1>10, <2>1 DEF Get
<1>11. CASE SendAccepted
  BY <1>11 DEF SendAccepted
<1>12. CASE SendFails
  BY <1>12 DEF SendFails
<1>13. CASE WakeUp
  BY <1>13 DEF WakeUp
<1>14. CASE AbandonSend
  BY <1>14 DEF AbandonSend
<1>15. CASE StampNotification
  BY <1>15 DEF StampNotification
<1>16. CASE DiscardPending
  BY <1>16 DEF DiscardPending
<1>17. CASE UNCHANGED notifierVars
  BY <1>17 DEF notifierVars
<1> QED
  BY <1>1, <1>2, <1>3, <1>4, <1>5, <1>6, <1>7, <1>8, <1>9, <1>10, <1>11, <1>12,
     <1>13, <1>14, <1>15, <1>16, <1>17 DEF Next, Gui, Worker

\* The shared state of the two threads stays well-typed.
THEOREM TypeCorrect == Spec => []TypeOK
  BY InitTypeOK, NextTypeOK, PTL DEF Spec

-----------------------------------------------------------------------------
(* PendingIsInFlight *)

\* Between the test of the waiting keys and the insertion, the key does not
\* become a waiting one: only the GUI thread adds keys.
GuiKeyIsFree == gui \in {"cooldown", "add"} => guiKey \notin pending

FlightInv == PendingIsInFlight /\ GuiKeyIsFree

\* What PendingIsInFlight says of one key.
KeyInv(k) ==
  /\ k \in pending <=> (InQueue(k) # {} \/ AboutToQueue(k) \/ InHand(k))
  /\ \A i, j \in InQueue(k) : i = j
  /\ InQueue(k) # {} => ~AboutToQueue(k) /\ ~InHand(k)
  /\ ~(AboutToQueue(k) /\ InHand(k))

LEMMA ByKey == /\ PendingIsInFlight <=> \A k \in Keys : KeyInv(k)
               /\ PendingIsInFlight' <=> \A k \in Keys : KeyInv(k)'
  BY DEF PendingIsInFlight, KeyInv

LEMMA AppendIndices ==
  ASSUME NEW q \in Seq(Messages), NEW m \in Messages, NEW k
  PROVE  {i \in DOMAIN Append(q, m) : Append(q, m)[i] = k}
           = {i \in DOMAIN q : q[i] = k} \cup (IF m = k THEN {Len(q) + 1} ELSE {})
  OBVIOUS

\* Taking the head of the queue: at most one index of a key is lost, and none
\* unless the head is that key.
LEMMA TailIndices ==
  ASSUME NEW q \in Seq(Messages), q # << >>, NEW k
  PROVE  /\ \A i \in DOMAIN Tail(q) : Tail(q)[i] = k => i + 1 \in {j \in DOMAIN q : q[j] = k}
         /\ Head(q) # k /\ (\E j \in DOMAIN q : q[j] = k) => \E i \in DOMAIN Tail(q) : Tail(q)[i] = k
<1>1. DOMAIN q = 1 .. Len(q) /\ Len(q) \in Nat \ {0}
  OBVIOUS
<1>2. DOMAIN Tail(q) = 1 .. (Len(q) - 1) /\ \A i \in 1 .. (Len(q) - 1) : Tail(q)[i] = q[i + 1]
  BY <1>1
<1>3. ASSUME Head(q) # k, NEW j \in DOMAIN q, q[j] = k
      PROVE  \E i \in DOMAIN Tail(q) : Tail(q)[i] = k
  <2>1. j # 1
    BY <1>3
  <2>2. j - 1 \in DOMAIN Tail(q) /\ Tail(q)[j - 1] = q[j]
    BY <1>1, <1>2, <2>1
  <2> QED
    BY <1>3, <2>2
<1> QED
  BY <1>1, <1>2, <1>3

\* Steps that touch neither the queue, the waiting keys, the GUI's key nor what
\* the worker has in its hands.
LEMMA FlightFrame ==
  ASSUME FlightInv, UNCHANGED <<queue, pending>>,
         Busy' = Busy, Busy => message' = message,
         (gui = "put") <=> (gui' = "put"), gui' = "put" => guiKey' = guiKey,
         gui' \in {"cooldown", "add"} => guiKey' \notin pending
  PROVE  FlightInv'
<1>1. ASSUME NEW k \in Keys
      PROVE  /\ InQueue(k)' = InQueue(k) /\ AboutToQueue(k)' = AboutToQueue(k)
             /\ InHand(k)' = InHand(k)
  BY DEF InQueue, AboutToQueue, InHand
<1>2. PendingIsInFlight'
  BY <1>1 DEF FlightInv, PendingIsInFlight
<1> QED
  BY <1>2 DEF FlightInv, GuiKeyIsFree

LEMMA FlightAdd == ASSUME TypeOK, FlightInv, AddPending PROVE FlightInv'
<1>1. guiKey \in Keys /\ guiKey \notin pending /\ gui = "add"
  BY DEF AddPending, FlightInv, GuiKeyIsFree, TypeOK
<1>2. ASSUME NEW k \in Keys
      PROVE  /\ InQueue(k)' = InQueue(k) /\ InHand(k)' = InHand(k)
             /\ ~AboutToQueue(k) /\ AboutToQueue(k)' = (k = guiKey)
             /\ k \in pending' <=> (k \in pending \/ k = guiKey)
  BY <1>1 DEF AddPending, InQueue, AboutToQueue, InHand, Busy, workerVars
<1>3. ASSUME NEW k \in Keys PROVE KeyInv(k)'
  <2>1. KeyInv(k)
    BY ByKey DEF FlightInv
  <2> QED
    BY <1>1, <1>2, <2>1 DEF KeyInv
<1> QED
  BY <1>3, ByKey DEF FlightInv, GuiKeyIsFree, AddPending

LEMMA FlightPut == ASSUME TypeOK, FlightInv, PutEvent PROVE FlightInv'
<1>1. guiKey \in Keys /\ gui = "put" /\ guiKey \in Messages /\ queue \in Seq(Messages)
  BY DEF PutEvent, TypeOK, Messages
<1>2. ASSUME NEW k \in Keys
      PROVE  /\ InQueue(k)' = InQueue(k) \cup (IF guiKey = k THEN {Len(queue) + 1} ELSE {})
             /\ InHand(k)' = InHand(k) /\ ~AboutToQueue(k)'
             /\ AboutToQueue(k) = (k = guiKey)
             /\ pending' = pending
  <2>1. InQueue(k)' = InQueue(k) \cup (IF guiKey = k THEN {Len(queue) + 1} ELSE {})
    BY <1>1, AppendIndices DEF PutEvent, InQueue
  <2> QED
    BY <1>1, <2>1 DEF PutEvent, AboutToQueue, InHand, Busy, workerVars
<1>3. ASSUME NEW k \in Keys PROVE KeyInv(k)'
  <2>1. KeyInv(k)
    BY ByKey DEF FlightInv
  <2>2. CASE k = guiKey
    <3>1. InQueue(k) = {} /\ InQueue(k)' = {Len(queue) + 1}
      BY <1>2, <2>1, <2>2 DEF KeyInv
    <3> QED
      BY <1>2, <2>1, <2>2, <3>1 DEF KeyInv
  <2>3. CASE k # guiKey
    <3>1. InQueue(k)' = InQueue(k)
      BY <1>2, <2>3
    <3> QED
      BY <1>2, <2>1, <2>3, <3>1 DEF KeyInv
  <2> QED
    BY <2>2, <2>3
<1> QED
  BY <1>3, ByKey DEF FlightInv, GuiKeyIsFree, PutEvent

LEMMA FlightStatus == ASSUME TypeOK, FlightInv, NotifyStatus PROVE FlightInv'
<1>1. ASSUME NEW k \in Keys
      PROVE  /\ InQueue(k)' = InQueue(k) /\ AboutToQueue(k)' = AboutToQueue(k)
             /\ InHand(k)' = InHand(k) /\ pending' = pending
  <2>1. Status # k /\ Status \in Messages /\ queue \in Seq(Messages)
    BY NotifierConstants DEF Messages, TypeOK
  <2>2. InQueue(k)' = InQueue(k)
    BY <2>1, AppendIndices DEF NotifyStatus, InQueue
  <2> QED
    BY <2>2 DEF NotifyStatus, AboutToQueue, InHand, Busy, guiVars, workerVars
<1>2. PendingIsInFlight'
  BY <1>1 DEF FlightInv, PendingIsInFlight
<1> QED
  BY <1>2 DEF FlightInv, GuiKeyIsFree, NotifyStatus, guiVars

LEMMA FlightGet == ASSUME TypeOK, FlightInv, Get PROVE FlightInv'
<1> DEFINE m == Head(queue)
<1>1. /\ queue \in Seq(Messages) /\ queue # << >>
      /\ queue' = Tail(queue) /\ message' = m /\ pending' = pending
      /\ ~Busy /\ Busy' /\ UNCHANGED guiVars
  BY DEF Get, TypeOK, Busy
<1>2. 1 \in DOMAIN queue /\ queue[1] = m
  BY <1>1
<1>3. ASSUME NEW k \in Keys
      PROVE  /\ ~InHand(k) /\ InHand(k)' = (k = m)
             /\ AboutToQueue(k)' = AboutToQueue(k)
             /\ k = m => InQueue(k) # {}
  <2>1. k = m => 1 \in InQueue(k)
    BY <1>2 DEF InQueue
  <2> QED
    BY <1>1, <2>1 DEF InHand, AboutToQueue, guiVars
<1>4. ASSUME NEW k \in Keys, NEW i \in InQueue(k)'
      PROVE  i \in Nat /\ i + 1 \in InQueue(k)
  <2>1. i \in DOMAIN Tail(queue) /\ Tail(queue)[i] = k
    BY <1>1, <1>4 DEF InQueue
  <2>2. i \in Nat
    BY <1>1, <2>1
  <2> QED
    BY <1>1, <2>1, <2>2, TailIndices DEF InQueue
<1>5. ASSUME NEW k \in Keys, k # m, InQueue(k) # {}
      PROVE  InQueue(k)' # {}
  BY <1>1, <1>5, TailIndices DEF InQueue
<1>6. ASSUME NEW k \in Keys, NEW i \in InQueue(k)', NEW j \in InQueue(k)'
      PROVE  i = j
  <2>1. i + 1 = j + 1
    BY <1>4, <1>6 DEF FlightInv, PendingIsInFlight
  <2> QED
    BY <1>4, <2>1
\* The head's key is at the first place only.
<1>7. ASSUME NEW k \in Keys, k = m, NEW i \in InQueue(k)'
      PROVE  FALSE
  <2>1. 1 \in InQueue(k)
    BY <1>2, <1>7 DEF InQueue
  <2>2. i + 1 = 1 /\ i \in Nat
    BY <1>4, <1>7, <2>1 DEF FlightInv, PendingIsInFlight
  <2>3. i \in DOMAIN Tail(queue)
    BY <1>1, <1>7 DEF InQueue
  <2>4. i \in 1 .. Len(Tail(queue))
    BY <1>1, <2>3
  <2> QED
    BY <2>2, <2>4
<1>8. ASSUME NEW k \in Keys, InQueue(k)' # {}
      PROVE  InQueue(k) # {} /\ k # m
  BY <1>4, <1>7, <1>8
<1> HIDE DEF m
<1>9. PendingIsInFlight'
  BY <1>1, <1>3, <1>5, <1>6, <1>8 DEF FlightInv, PendingIsInFlight
<1> QED
  BY <1>1, <1>9 DEF FlightInv, GuiKeyIsFree, guiVars

LEMMA FlightDiscard == ASSUME TypeOK, FlightInv, DiscardPending PROVE FlightInv'
<1>1. ASSUME NEW k \in Keys
      PROVE  /\ InQueue(k)' = InQueue(k) /\ AboutToQueue(k)' = AboutToQueue(k)
             /\ ~InHand(k)' /\ InHand(k) = (k = message)
             /\ k \in pending' <=> (k \in pending /\ k # message)
  BY DEF DiscardPending, InQueue, AboutToQueue, InHand, Busy, guiVars
<1>2. ASSUME NEW k \in Keys PROVE KeyInv(k)'
  <2>1. KeyInv(k)
    BY ByKey DEF FlightInv
  <2> QED
    BY <1>1, <2>1 DEF KeyInv
<1> QED
  BY <1>2, ByKey DEF FlightInv, GuiKeyIsFree, DiscardPending, guiVars

LEMMA NextFlightInv ==
  TypeOK /\ FlightInv /\ [Next]_notifierVars => FlightInv'
<1> SUFFICES ASSUME TypeOK, FlightInv, [Next]_notifierVars PROVE FlightInv'
  OBVIOUS
<1>1. CASE Tick \/ UNCHANGED notifierVars
  BY <1>1, FlightFrame
     DEF Tick, notifierVars, sharedVars, guiVars, workerVars, Busy, FlightInv, GuiKeyIsFree
<1>2. CASE Start \/ Stop
  BY <1>2, FlightFrame
     DEF Start, Stop, sharedVars, guiVars, workerVars, Busy, FlightInv, GuiKeyIsFree
<1>3. ASSUME NEW k \in Keys, NotifyEvent(k) PROVE FlightInv'
  BY <1>3, FlightFrame DEF NotifyEvent, sharedVars, guiVars, workerVars, Busy
<1>4. CASE CheckCooldown
  <2>1. /\ gui = "cooldown" /\ gui' \in {"add", "idle"} /\ guiKey' = guiKey
        /\ UNCHANGED <<queue, pending>> /\ UNCHANGED workerVars
    BY <1>4 DEF CheckCooldown, sharedVars
  <2> QED
    BY <2>1, FlightFrame DEF workerVars, Busy, FlightInv, GuiKeyIsFree
<1>5. CASE WorkerExits \/ SendAccepted \/ SendFails \/ WakeUp \/ AbandonSend
           \/ StampNotification
  <2>1. /\ Busy' = Busy /\ message' = message
        /\ UNCHANGED <<queue, pending>> /\ UNCHANGED guiVars
    BY <1>5 DEF WorkerExits, SendAccepted, SendFails, WakeUp, AbandonSend,
                StampNotification, sharedVars, Busy
  <2> QED
    BY <2>1, FlightFrame DEF guiVars, FlightInv, GuiKeyIsFree
<1> QED
  BY <1>1, <1>2, <1>3, <1>4, <1>5, FlightAdd, FlightPut, FlightStatus, FlightGet,
     FlightDiscard DEF Next, Gui, Worker

LEMMA InitFlightInv == Init => FlightInv
<1> SUFFICES ASSUME Init PROVE FlightInv
  OBVIOUS
<1>1. \A k \in Keys : InQueue(k) = {} /\ ~AboutToQueue(k) /\ ~InHand(k)
  <2>1. DOMAIN queue = {} /\ gui = "idle" /\ ~Busy
    BY DEF Init, Busy
  <2> QED
    BY <2>1 DEF InQueue, AboutToQueue, InHand
<1> QED
  BY <1>1 DEF Init, FlightInv, PendingIsInFlight, GuiKeyIsFree

\* Each waiting key has exactly one message on its way, and only waiting keys
\* have one, whatever the two threads interleave and however long the queue.
THEOREM NoDuplicateInFlight == Spec => []PendingIsInFlight
  BY InitFlightInv, TypeCorrect, NextFlightInv, PTL DEF Spec, FlightInv

-----------------------------------------------------------------------------
(* Cooldown and refinement *)

\* The cooldown of a key is over from the GUI thread's test until the delivery:
\* only the worker stamps a key, and only one whose message is in its hands.
Undelivered(k) == k \in pending /\ ~(pc = "release" /\ message = k)

CooldownInv ==
  /\ gui \in {"add", "put"} => CooldownOver(guiKey)
  /\ \A k \in Keys : Undelivered(k) => CooldownOver(k)

LEMMA CooldownStays ==
  ASSUME TypeOK, NEW k \in Keys, CooldownOver(k), last'[k] = last[k],
         now' = now \/ now' = now + 1
  PROVE  CooldownOver(k)'
  BY NotifierConstants DEF TypeOK, CooldownOver, Time, Never

\* Steps that leave the stamps alone and make no further key undelivered.
LEMMA CooldownFrame ==
  ASSUME TypeOK, CooldownInv, UNCHANGED last, now' = now \/ now' = now + 1,
         gui' \in {"add", "put"} => gui \in {"add", "put"} /\ guiKey' = guiKey,
         \A k \in Keys : Undelivered(k)' => Undelivered(k)
  PROVE  CooldownInv'
<1>1. ASSUME NEW k \in Keys, CooldownOver(k) PROVE CooldownOver(k)'
  BY <1>1, CooldownStays
<1>2. ASSUME gui' \in {"add", "put"} PROVE CooldownOver(guiKey)'
  <2>1. guiKey \in Keys /\ CooldownOver(guiKey) /\ guiKey' = guiKey
    BY <1>2 DEF TypeOK, CooldownInv
  <2>2. last[guiKey] = Never \/ now' - last[guiKey] >= Cooldown
    BY <2>1, NotifierConstants DEF CooldownOver, TypeOK, Time, Never
  <2> QED
    BY <2>1, <2>2 DEF CooldownOver
<1> QED
  BY <1>1, <1>2 DEF CooldownInv

LEMMA NextCooldownInv ==
  TypeOK /\ FlightInv /\ CooldownInv /\ [Next]_notifierVars => CooldownInv'
<1> SUFFICES ASSUME TypeOK, FlightInv, CooldownInv, [Next]_notifierVars
             PROVE  CooldownInv'
  OBVIOUS
<1> USE DEF Undelivered
<1>1. CASE Tick
  BY <1>1, CooldownFrame DEF Tick, sharedVars, guiVars, workerVars
<1>2. CASE Start \/ Stop \/ NotifyStatus \/ UNCHANGED notifierVars
  <2>1. /\ UNCHANGED <<now, pending, last, gui, guiKey, message>>
        /\ pc = "release" => pc' = "release"
    BY <1>2 DEF Start, Stop, NotifyStatus, notifierVars, sharedVars, guiVars, workerVars
  <2> QED
    BY <2>1, CooldownFrame
<1>3. ASSUME NEW k \in Keys, NotifyEvent(k) PROVE CooldownInv'
  BY <1>3, CooldownFrame DEF NotifyEvent, sharedVars, workerVars
<1>4. CASE CheckCooldown
  <2>1. /\ UNCHANGED <<now, pending, last, guiKey, pc, message>>
        /\ gui' = "add" => CooldownOver(guiKey)
        /\ gui' \in {"add", "idle"}
    BY <1>4 DEF CheckCooldown, sharedVars, workerVars
  <2>2. CooldownOver(guiKey) => CooldownOver(guiKey)'
    BY <2>1 DEF CooldownOver
  <2>3. ASSUME NEW k \in Keys, Undelivered(k)' PROVE CooldownOver(k)'
    BY <2>1, <2>3 DEF CooldownInv, CooldownOver
  <2> QED
    BY <2>1, <2>2, <2>3 DEF CooldownInv
<1>5. CASE AddPending \/ PutEvent
  <2>1. /\ UNCHANGED <<now, last, guiKey, pc, message>>
        /\ gui \in {"add", "put"} /\ guiKey \in Keys
        /\ \A k \in pending' : k \in pending \/ k = guiKey
    BY <1>5 DEF AddPending, PutEvent, workerVars, TypeOK
  <2>2. CooldownOver(guiKey)'
    BY <2>1 DEF CooldownInv, CooldownOver
  <2>3. ASSUME NEW k \in Keys, Undelivered(k)' PROVE CooldownOver(k)'
    BY <2>1, <2>3 DEF CooldownInv, CooldownOver
  <2> QED
    BY <2>2, <2>3 DEF CooldownInv
<1>6. CASE WorkerExits \/ Get \/ SendAccepted \/ SendFails \/ WakeUp \/ AbandonSend
  <2>1. /\ UNCHANGED <<now, pending, last, gui, guiKey>>
        /\ pc # "release"
    BY <1>6 DEF WorkerExits, Get, SendAccepted, SendFails, WakeUp, AbandonSend,
                sharedVars, guiVars
  <2> QED
    BY <2>1, CooldownFrame
<1>7. CASE StampNotification
  <2>1. /\ UNCHANGED <<now, pending, gui, guiKey, message>>
        /\ pc = "stamp" /\ pc' = "release"
        /\ \A k \in Keys : k # message => last'[k] = last[k]
    BY <1>7 DEF StampNotification, guiVars, TypeOK
  <2>2. ASSUME gui \in {"add", "put"} PROVE guiKey \in Keys /\ guiKey # message
    <3>1. guiKey \in Keys /\ KeyInv(guiKey)
      BY <2>2, ByKey DEF TypeOK, FlightInv
    <3>2. gui = "put" => AboutToQueue(guiKey)
      BY DEF AboutToQueue
    <3>3. guiKey = message => InHand(guiKey)
      BY <2>1 DEF InHand, Busy
    <3>4. gui = "add" => guiKey \notin pending
      BY DEF FlightInv, GuiKeyIsFree
    <3> QED
      BY <2>2, <3>1, <3>2, <3>3, <3>4 DEF KeyInv
  <2>3. gui' \in {"add", "put"} => CooldownOver(guiKey)'
    BY <2>1, <2>2 DEF CooldownInv, CooldownOver
  <2>4. ASSUME NEW k \in Keys, Undelivered(k)' PROVE CooldownOver(k)'
    BY <2>1, <2>4 DEF CooldownInv, CooldownOver
  <2> QED
    BY <2>3, <2>4 DEF CooldownInv
<1>8. CASE DiscardPending
  <2>1. /\ UNCHANGED <<now, last, gui, guiKey, message>>
        /\ pc' = "get" /\ pending' = pending \ {message}
    BY <1>8 DEF DiscardPending, guiVars
  <2> QED
    BY <2>1, CooldownFrame
<1> QED
  BY <1>1, <1>2, <1>3, <1>4, <1>5, <1>6, <1>7, <1>8 DEF Next, Gui, Worker

NotifierInv == TypeOK /\ FlightInv /\ CooldownInv

LEMMA NotifierInvariant == Spec => []NotifierInv
<1>1. Init => CooldownInv
  BY DEF Init, CooldownInv, Undelivered
<1> QED
  BY <1>1, InitTypeOK, NextTypeOK, InitFlightInv, NextFlightInv, NextCooldownInv, PTL
     DEF Spec, NotifierInv

\* A step that changes the stamp of a key is the worker's, for a key whose
\* cooldown is over.
LEMMA StampStep ==
  ASSUME NotifierInv, Next, NEW k \in Keys, last'[k] # last[k]
  PROVE  /\ StampNotification /\ k = message /\ CooldownOver(k)
         /\ last'[k] = now
<1>1. StampNotification
  BY DEF Next, Gui, Worker, Tick, Start, Stop, NotifyEvent, CheckCooldown, AddPending,
         PutEvent, NotifyStatus, WorkerExits, Get, SendAccepted, SendFails, WakeUp,
         AbandonSend, DiscardPending, sharedVars
<1>2. k = message /\ last'[k] = now
  BY <1>1 DEF StampNotification, NotifierInv, TypeOK
<1>3. k \in pending
  <2>1. InHand(k) /\ KeyInv(k)
    BY <1>1, <1>2, ByKey DEF StampNotification, InHand, Busy, NotifierInv, FlightInv
  <2> QED
    BY <2>1 DEF KeyInv
<1> QED
  BY <1>1, <1>2, <1>3 DEF StampNotification, NotifierInv, CooldownInv, Undelivered

\* Two deliveries of one key are at least the cooldown apart.
THEOREM DeliveriesApart == Spec => DeliveriesAreApart
<1>1. ASSUME NotifierInv, [Next]_notifierVars
      PROVE  [\A k \in Keys : last'[k] # last[k] =>
                last[k] = Never \/ last'[k] - last[k] >= Cooldown]_notifierVars
  BY <1>1, StampStep DEF CooldownOver
<1> QED
  BY <1>1, NotifierInvariant, PTL DEF Spec, DeliveriesAreApart

-----------------------------------------------------------------------------
(* The notifier implements the gate *)

InFlight == pending \ (IF pc = "release" THEN {message} ELSE {})

\* Steps the gate does not see.
LEMMA GateStutter ==
  ASSUME UNCHANGED <<now, last, pending>>, pc # "release", pc' # "release"
  PROVE  UNCHANGED Gate!gateVars
  BY DEF Gate!gateVars

LEMMA GateFrame ==
  ASSUME UNCHANGED <<now, last, pending, pc, message>>
  PROVE  UNCHANGED Gate!gateVars
  BY DEF Gate!gateVars

LEMMA AddAccepts == ASSUME NotifierInv, AddPending PROVE Gate!Accept(guiKey)
<1>1. guiKey \in Keys /\ guiKey \notin pending /\ CooldownOver(guiKey)
  BY DEF NotifierInv, TypeOK, FlightInv, GuiKeyIsFree, CooldownInv, AddPending
<1>2. pc = "release" => guiKey # message
  <2>1. KeyInv(guiKey)
    BY <1>1, ByKey DEF NotifierInv, FlightInv
  <2> QED
    BY <1>1, <2>1 DEF KeyInv, InHand, Busy
<1>3. /\ guiKey \notin InFlight
      /\ InFlight' = InFlight \cup {guiKey}
  BY <1>1, <1>2 DEF InFlight, AddPending, workerVars
<1> QED
  BY <1>1, <1>3 DEF Gate!Accept, Gate!Open, Gate!Never, Never, CooldownOver, InFlight, AddPending

LEMMA StampDelivers ==
  ASSUME NotifierInv, StampNotification
  PROVE  (message \in Keys /\ Gate!Deliver(message)) \/ UNCHANGED Gate!gateVars
<1>1. CASE message \in Keys
  <2>1. message \in pending
    <3>1. InHand(message) /\ KeyInv(message)
      BY <1>1, ByKey DEF StampNotification, InHand, Busy, NotifierInv, FlightInv
    <3> QED
      BY <3>1 DEF KeyInv
  <2>2. InFlight = pending /\ InFlight' = pending \ {message}
    BY DEF InFlight, StampNotification
  <2> QED
    BY <1>1, <2>1, <2>2 DEF Gate!Deliver, InFlight, StampNotification
<1>2. CASE message \notin Keys
  <2>1. message \notin pending
    BY <1>2 DEF NotifierInv, TypeOK
  <2> QED
    BY <1>2, <2>1 DEF StampNotification, Gate!gateVars
<1> QED
  BY <1>1, <1>2

LEMMA DiscardGivesUp ==
  ASSUME NotifierInv, DiscardPending
  PROVE  (message \in Keys /\ Gate!GiveUp(message)) \/ UNCHANGED Gate!gateVars
<1>1. InFlight' = pending \ {message} /\ UNCHANGED <<now, last, message>>
  BY DEF InFlight, DiscardPending
<1>2. CASE pc = "release"
  BY <1>1, <1>2 DEF InFlight, Gate!gateVars
<1>3. CASE pc = "discard" /\ message \in pending
  <2>1. InFlight = pending /\ message \in Keys
    BY <1>3 DEF InFlight, NotifierInv, TypeOK
  <2> QED
    BY <1>1, <1>3, <2>1 DEF Gate!GiveUp, InFlight
<1>4. CASE pc = "discard" /\ message \notin pending
  <2>1. InFlight' = InFlight
    BY <1>1, <1>4 DEF InFlight
  <2> QED
    BY <1>1, <2>1 DEF InFlight, Gate!gateVars
<1> QED
  BY <1>2, <1>3, <1>4 DEF DiscardPending

LEMMA StepImplementsGate ==
  NotifierInv /\ [Next]_notifierVars => [Gate!Next]_(Gate!gateVars)
<1> SUFFICES ASSUME NotifierInv, [Next]_notifierVars
             PROVE  Gate!Next \/ UNCHANGED Gate!gateVars
  OBVIOUS
<1>1. CASE Tick
  <2>1. InFlight' = InFlight
    BY <1>1 DEF Tick, InFlight, sharedVars, workerVars
  <2>2. Gate!Tick
    BY <1>1, <2>1 DEF Tick, Gate!Tick, InFlight, sharedVars
  <2> QED
    BY <2>2 DEF Gate!Next
<1>2. CASE Start
  BY <1>2, GateStutter DEF Start
<1>3. CASE \/ Stop \/ CheckCooldown \/ PutEvent \/ NotifyStatus
           \/ UNCHANGED notifierVars \/ \E k \in Keys : NotifyEvent(k)
  BY <1>3, GateFrame DEF Stop, CheckCooldown, PutEvent, NotifyStatus, NotifyEvent,
                         notifierVars, sharedVars, workerVars
<1>4. CASE AddPending
  <2>1. guiKey \in Keys
    BY <1>4 DEF AddPending, NotifierInv, TypeOK
  <2> QED
    BY <1>4, <2>1, AddAccepts DEF Gate!Next
<1>5. CASE WorkerExits \/ Get \/ SendAccepted \/ SendFails \/ WakeUp \/ AbandonSend
  <2>1. UNCHANGED <<now, last, pending>> /\ pc # "release" /\ pc' # "release"
    BY <1>5 DEF WorkerExits, Get, SendAccepted, SendFails, WakeUp, AbandonSend, sharedVars
  <2> QED
    BY <2>1, GateStutter
<1>6. CASE StampNotification
  BY <1>6, StampDelivers DEF Gate!Next
<1>7. CASE DiscardPending
  BY <1>7, DiscardGivesUp DEF Gate!Next
<1> QED
  BY <1>1, <1>2, <1>3, <1>4, <1>5, <1>6, <1>7 DEF Next, Gui, Worker

\* The notifier implements the abstract gate: a key is accepted at most once at
\* a time and never within its cooldown, for every interleaving of the threads.
THEOREM NotifierImplementsGate == Spec => ImplementsGate
<1>1. Init => Gate!Init
  BY DEF Init, Gate!Init, Gate!Never, Never
<1> QED
  BY <1>1, NotifierInvariant, StepImplementsGate, PTL DEF Spec, Gate!Spec, ImplementsGate
===============================================================================
