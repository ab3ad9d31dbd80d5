------------------------- MODULE UsbBackendProofs -------------------------
(* Theorems about UsbBackend, for any threads, devices and couples. *)
EXTENDS UsbBackend, TLAPS

\* t opens or closes a device and is past the wait for ep_lock.
Active(t) ==
  /\ call[t].op \in {"open", "close"}
  /\ call[t].at \in {"open_pipe", "submit", "wait", "finish"}

Opening(t) == Active(t) /\ call[t].op = "open"

\* The daemon has told t that its device is open.
Accepted(t) ==
  \/ call[t].at \in {"submit", "wait"} /\ call[t].todo <= 2
  \/ call[t].at = "finish" /\ call[t].ok

\* Where the threads may be.
CallsFit ==
  \A t \in Threads :
    /\ call[t].at # "idle" => ctx /\ call[t].dev \in Devices /\ call[t].op # "none"
    /\ call[t].at = "idle" => call[t].op = "none"
    /\ call[t].at \in {"submit", "wait"} => call[t].todo >= 1
    /\ call[t].at = "open_pipe" => call[t].op = "open"
    /\ call[t].op = "move" => call[t].at \in {"submit", "wait"}

\* Who opens or closes a device holds ep_lock.
LockHeld == \A t \in Threads : Active(t) => ep_lock = t

\* A device that is open has an owner, and only the owner uses or closes it.
OwnersUse ==
  /\ \A d \in Devices : dev[d].opened <=> dev[d].owner # NoThread
  /\ \A t \in Threads : call[t].op \in {"close", "move"} => dev[call[t].dev].owner = t

\* The couple that a device is being opened with is reserved and no other device's.
OpeningIsReserved ==
  \A t \in Threads : Opening(t) =>
    LET d == call[t].dev
    IN /\ ~dev[d].opened
       /\ dev[d].ep \in in_use \ {0}
       /\ \A e \in Devices : dev[e].opened => dev[e].ep # dev[d].ep
       /\ Accepted(t) => pipes[dev[d].ep] = d

\* The couple of the commands is in use while there is a context, and without one
\* nothing is open.
CommandsHaveACouple ==
  /\ ctx => 0 \in in_use
  /\ ~ctx => \A d \in Devices : ~dev[d].opened

UsbInv ==
  /\ TypeOK /\ CallsFit /\ LockHeld /\ OwnersUse /\ OpeningIsReserved
  /\ CommandsHaveACouple /\ CouplesAreExclusive /\ PipesAreClosed /\ CancelReachesTransfer

-----------------------------------------------------------------------------
(* The types of what is written. *)

LEMMA NoCallIsOne == NoCall \in Call
  BY DEF Call, NoCall

LEMMA CallFields ==
  ASSUME NEW c \in Call
  PROVE  /\ [c EXCEPT !.at = "open_pipe"] \in Call
         /\ [c EXCEPT !.at = "submit"] \in Call
         /\ [c EXCEPT !.at = "wait"] \in Call
         /\ [c EXCEPT !.at = "finish"] \in Call
         /\ \A n \in 0 .. 4 : [c EXCEPT !.todo = n] \in Call
         /\ \A ok \in BOOLEAN : [c EXCEPT !.ok = ok] \in Call
<1>1. [c EXCEPT !.at = "open_pipe"] \in Call
  BY DEF Call
<1>2. [c EXCEPT !.at = "submit"] \in Call
  BY DEF Call
<1>3. [c EXCEPT !.at = "wait"] \in Call
  BY DEF Call
<1>4. [c EXCEPT !.at = "finish"] \in Call
  BY DEF Call
<1>5. \A n \in 0 .. 4 : [c EXCEPT !.todo = n] \in Call
  BY DEF Call
<1>6. \A ok \in BOOLEAN : [c EXCEPT !.ok = ok] \in Call
  BY DEF Call
<1> QED
  BY <1>1, <1>2, <1>3, <1>4, <1>5, <1>6

LEMMA SubmitCall ==
  ASSUME NEW c \in Call, NEW n \in 0 .. 4
  PROVE  [c EXCEPT !.at = "submit", !.todo = n] \in Call
<1>1. [c EXCEPT !.at = "submit"] \in Call
  BY CallFields
<1> QED
  BY <1>1, CallFields

LEMMA EndedIsCall ==
  ASSUME NEW t \in Threads, call[t] \in Call, NEW ok \in BOOLEAN
  PROVE  Ended(t, ok) \in Call
<1>1. [call[t] EXCEPT !.at = "finish"] \in Call
  BY CallFields
<1>2. [call[t] EXCEPT !.at = "finish", !.todo = 0] \in Call
  <2>1. 0 \in 0 .. 4
    OBVIOUS
  <2> QED
    BY <1>1, <2>1, CallFields
<1>3. [call[t] EXCEPT !.at = "finish", !.todo = 0, !.ok = ok] \in Call
  BY <1>2, CallFields
<1> QED
  BY <1>3, NoCallIsOne DEF Ended

LEMMA DevFields ==
  ASSUME NEW r \in Pdata
  PROVE  /\ [r EXCEPT !.cancelled = FALSE] \in Pdata
         /\ \A e \in Couples : [r EXCEPT !.ep = e] \in Pdata
         /\ \A x \in Transfer : [r EXCEPT !.transfer = x] \in Pdata
         /\ \A s \in {"ok", "failed"} : [r EXCEPT !.transfer.state = s] \in Pdata
<1>1. [r EXCEPT !.cancelled = FALSE] \in Pdata
  BY DEF Pdata
<1>2. \A e \in Couples : [r EXCEPT !.ep = e] \in Pdata
  BY DEF Pdata
<1>3. \A x \in Transfer : [r EXCEPT !.transfer = x] \in Pdata
  BY DEF Pdata
<1>4. \A s \in {"ok", "failed"} : [r EXCEPT !.transfer.state = s] \in Pdata
  BY DEF Pdata, Transfer
<1> QED
  BY <1>1, <1>2, <1>3, <1>4

LEMMA TransfersAreTyped ==
  NoTransfer \in Transfer /\ [state |-> "flying", aborted |-> FALSE] \in Transfer
  BY DEF NoTransfer, Transfer

\* The device and the couple of who opens or closes.
LEMMA CoupleOfCall ==
  ASSUME UsbInv, NEW t \in Threads, Active(t)
  PROVE  /\ call[t].dev \in Devices
         /\ dev[call[t].dev].ep \in in_use \ {0}
         /\ dev[call[t].dev].ep \in Couples
<1>1. call[t].dev \in Devices
  BY DEF UsbInv, CallsFit, Active
<1>2. dev[call[t].dev].ep \in in_use \ {0}
  <2>1. CASE call[t].op = "open"
    BY <2>1 DEF UsbInv, OpeningIsReserved, Opening
  <2>2. CASE call[t].op = "close"
    <3>1. dev[call[t].dev].owner = t
      BY <2>2 DEF UsbInv, OwnersUse
    <3>2. dev[call[t].dev].opened
      BY <1>1, <3>1, UsbAssumption DEF UsbInv, OwnersUse
    <3> QED
      BY <1>1, <3>2 DEF UsbInv, CouplesAreExclusive
  <2> QED
    BY <2>1, <2>2 DEF Active
<1>3. in_use \subseteq Couples
  BY UsbAssumption DEF UsbInv, TypeOK, Couples
<1> QED
  BY <1>1, <1>2, <1>3


LEMMA EnterTypes ==
  ASSUME UsbInv, NEW t \in Threads, NEW op \in {"open", "close"}, NEW d \in Devices,
         Enter(t, op, d)
  PROVE  call' \in [Threads -> Call]
<1>1. [op |-> op, dev |-> d, at |-> "ep_lock", todo |-> 0, ok |-> TRUE] \in Call
  BY DEF Call
<1>2. call' = [call EXCEPT ![t] = [op |-> op, dev |-> d, at |-> "ep_lock", todo |-> 0, ok |-> TRUE]]
  BY DEF Enter, NoCall
<1> QED
  BY <1>1, <1>2 DEF UsbInv, TypeOK

LEMMA MoveTypes ==
  ASSUME UsbInv, NEW t \in Threads, NEW d \in Devices, Move(t, d)
  PROVE  call' \in [Threads -> Call]
<1>1. [op |-> "move", dev |-> d, at |-> "submit", todo |-> 2, ok |-> TRUE] \in Call
  BY DEF Call
<1>2. call' = [call EXCEPT ![t] = [op |-> "move", dev |-> d, at |-> "submit", todo |-> 2, ok |-> TRUE]]
  BY DEF Move, NoCall
<1> QED
  BY <1>1, <1>2 DEF UsbInv, TypeOK

LEMMA OpenPipeFailsTypes ==
  ASSUME UsbInv, NEW t \in Threads, OpenPipeFails(t)
  PROVE  pipes' \in [Couples -> {"closed", "idle"} \cup Devices] /\ lost' \subseteq Couples
<1>1. Active(t)
  BY DEF UsbInv, CallsFit, OpenPipeFails, Active
<1> QED
  BY <1>1, CoupleOfCall DEF OpenPipeFails, UsbInv, TypeOK

LEMMA ClosePipeTypes ==
  ASSUME UsbInv, NEW t \in Threads, ClosePipe(t)
  PROVE  /\ pipes' \in [Couples -> {"closed", "idle"} \cup Devices] /\ lost' \subseteq Couples
         /\ dev' \in [Devices -> Pdata]
<1> DEFINE d == call[t].dev
<1>1. Active(t)
  BY DEF ClosePipe, Active
<1>2. dev[d] \in Pdata /\ d \in Devices
  BY <1>1, CoupleOfCall DEF UsbInv, TypeOK
<1>3. [dev[d] EXCEPT !.opened = FALSE, !.owner = NoThread] \in Pdata
  BY <1>2 DEF Pdata
<1>4. dev' = [dev EXCEPT ![d] = [dev[d] EXCEPT !.opened = FALSE, !.owner = NoThread]]
  BY DEF ClosePipe
<1>5. dev' \in [Devices -> Pdata]
  BY <1>3, <1>4 DEF UsbInv, TypeOK
<1>6. pipes' \in [Couples -> {"closed", "idle"} \cup Devices] /\ lost' \subseteq Couples
  BY <1>1, CoupleOfCall DEF ClosePipe, UsbInv, TypeOK
<1> QED
  BY <1>5, <1>6

LEMMA TransferDoneTypes ==
  ASSUME UsbInv, NEW t \in Threads, TransferDone(t)
  PROVE  dev' \in [Devices -> Pdata] /\ call' \in [Threads -> Call]
<1> DEFINE d == call[t].dev
           ok == dev[d].transfer.state = "ok"
           refused == call[t].op = "open" /\ call[t].todo = 3 /\ pipes[dev[d].ep] # d
           next == [call[t] EXCEPT !.at = "submit", !.todo = call[t].todo - 1]
<1>1. call[t] \in Call /\ call[t].todo - 1 \in 0 .. 4 /\ d \in Devices /\ dev[d] \in Pdata
  BY DEF UsbInv, TypeOK, CallsFit, TransferDone, Call
<1>2. Ended(t, FALSE) \in Call /\ Ended(t, TRUE) \in Call
  BY <1>1, EndedIsCall
<1>3. next \in Call
  BY <1>1, SubmitCall
<1>4. call' \in [Threads -> Call]
  <2>1. CASE ~ok \/ refused
    <3>1. call' = [call EXCEPT ![t] = Ended(t, FALSE)]
      BY <2>1 DEF TransferDone
    <3> QED
      BY <3>1, <1>2 DEF UsbInv, TypeOK
  <2>2. CASE ok /\ ~refused /\ call[t].todo = 1
    <3>1. call' = [call EXCEPT ![t] = Ended(t, TRUE)]
      BY <2>2 DEF TransferDone
    <3> QED
      BY <3>1, <1>2 DEF UsbInv, TypeOK
  <2>3. CASE ok /\ ~refused /\ call[t].todo # 1
    <3>1. call' = [call EXCEPT ![t] = next]
      BY <2>3 DEF TransferDone
    <3> HIDE DEF next
    <3> QED
      BY <3>1, <1>3 DEF UsbInv, TypeOK
  <2> QED
    BY <2>1, <2>2, <2>3
<1>5. [dev[d] EXCEPT !.transfer = NoTransfer] \in Pdata
  BY <1>1, DevFields, TransfersAreTyped
<1>6. dev' = [dev EXCEPT ![d] = [dev[d] EXCEPT !.transfer = NoTransfer]]
  BY DEF TransferDone
<1>7. dev' \in [Devices -> Pdata]
  BY <1>5, <1>6 DEF UsbInv, TypeOK
<1> QED
  BY <1>4, <1>7

LEMMA SubmitTypes ==
  ASSUME UsbInv, NEW t \in Threads, Submit(t), ~dev[call[t].dev].cancelled
  PROVE  dev' \in [Devices -> Pdata] /\ call' \in [Threads -> Call]
<1> DEFINE d == call[t].dev
           flying == [state |-> "flying", aborted |-> FALSE]
<1>1. d \in Devices /\ dev[d] \in Pdata /\ call[t] \in Call
  BY DEF UsbInv, TypeOK, CallsFit, Submit
<1>2. [dev[d] EXCEPT !.transfer = flying] \in Pdata
  BY <1>1, DevFields, TransfersAreTyped
<1>3. dev' = [dev EXCEPT ![d] = [dev[d] EXCEPT !.transfer = flying]]
  BY DEF Submit
<1>4. call' = [call EXCEPT ![t] = [call[t] EXCEPT !.at = "wait"]]
  BY DEF Submit
<1>5. [call[t] EXCEPT !.at = "wait"] \in Call
  BY <1>1, CallFields
<1>6. dev' \in [Devices -> Pdata]
  BY <1>2, <1>3 DEF UsbInv, TypeOK
<1> QED
  BY <1>4, <1>5, <1>6 DEF UsbInv, TypeOK

LEMMA OpenLockedTypes ==
  ASSUME UsbInv, NEW t \in Threads, OpenLocked(t)
  PROVE  dev' \in [Devices -> Pdata] /\ call' \in [Threads -> Call]
           /\ in_use' \subseteq 0 .. nb.couples - 1
<1> DEFINE d == call[t].dev
<1>1. d \in Devices /\ dev[d] \in Pdata /\ call[t] \in Call
  BY DEF UsbInv, TypeOK, CallsFit, OpenLocked
<1>2. [dev[d] EXCEPT !.cancelled = FALSE] \in Pdata
  BY <1>1, DevFields
<1>3. CASE dev' = [dev EXCEPT ![d].cancelled = FALSE] /\ call' = [call EXCEPT ![t] = NoCall]
           /\ UNCHANGED in_use
  <2>1. dev' \in [Devices -> Pdata]
    BY <1>2, <1>3 DEF UsbInv, TypeOK
  <2> QED
    BY <2>1, <1>3, NoCallIsOne DEF UsbInv, TypeOK
<1>4. ASSUME NEW ep \in Free, dev' = [dev EXCEPT ![d].cancelled = FALSE, ![d].ep = ep],
             call' = [call EXCEPT ![t].at = "open_pipe"],
             in_use' = in_use \cup {ep}
      PROVE  dev' \in [Devices -> Pdata] /\ call' \in [Threads -> Call]
             /\ in_use' \subseteq 0 .. nb.couples - 1
  <2>1. ep \in Couples /\ ep \in 0 .. nb.couples - 1
    BY UsbAssumption DEF Free, Couples, UsbInv, TypeOK
  <2>2. [dev[d] EXCEPT !.cancelled = FALSE, !.ep = ep] \in Pdata
    BY <2>1, <1>2, DevFields
  <2>3. dev' = [dev EXCEPT ![d] = [dev[d] EXCEPT !.cancelled = FALSE, !.ep = ep]]
    BY <1>4, <1>1 DEF UsbInv, TypeOK
  <2>4. dev' \in [Devices -> Pdata]
    BY <2>2, <2>3 DEF UsbInv, TypeOK
  <2>5. [call[t] EXCEPT !.at = "open_pipe"] \in Call
    BY <1>1, CallFields
  <2>6. call' \in [Threads -> Call]
    BY <2>5, <1>4 DEF UsbInv, TypeOK
  <2> QED
    BY <2>1, <2>4, <2>6, <1>4 DEF UsbInv, TypeOK
<1> QED
  BY <1>3, <1>4 DEF OpenLocked


LEMMA CallTypes ==
  ASSUME UsbInv, NEW t \in Threads, OpenPipe(t) \/ SubmitFails(t) \/ CloseLocked(t)
  PROVE  call' \in [Threads -> Call]
<1>1. call[t] \in Call /\ 4 \in 0 .. 4 /\ 2 \in 0 .. 4
  BY DEF UsbInv, TypeOK
<1>2. CASE OpenPipe(t)
  <2>1. call' = [call EXCEPT ![t] = [call[t] EXCEPT !.at = "submit", !.todo = 4]]
    BY <1>2 DEF OpenPipe
  <2>2. [call[t] EXCEPT !.at = "submit", !.todo = 4] \in Call
    BY <1>1, SubmitCall
  <2> QED
    BY <2>1, <2>2 DEF UsbInv, TypeOK
<1>3. CASE SubmitFails(t)
  <2>1. Ended(t, FALSE) \in Call
    BY <1>1, EndedIsCall
  <2> QED
    BY <1>3, <2>1 DEF SubmitFails, UsbInv, TypeOK
<1>4. CASE CloseLocked(t)
  <2>1. call' = [call EXCEPT ![t] = [call[t] EXCEPT !.at = "submit", !.todo = 2]]
    BY <1>4 DEF CloseLocked
  <2>2. [call[t] EXCEPT !.at = "submit", !.todo = 2] \in Call
    BY <1>1, SubmitCall
  <2> QED
    BY <2>1, <2>2 DEF UsbInv, TypeOK
<1> QED
  BY <1>2, <1>3, <1>4

LEMMA DevTypes ==
  ASSUME UsbInv, NEW t \in Threads, Complete(t) \/ Abort(t) \/ OpenDone(t)
  PROVE  dev' \in [Devices -> Pdata]
<1> DEFINE d == call[t].dev
<1>1. d \in Devices /\ dev[d] \in Pdata
  BY DEF UsbInv, TypeOK, CallsFit, Complete, Abort, OpenDone
<1>2. ASSUME NEW s \in {"ok", "failed"}, dev' = [dev EXCEPT ![d].transfer.state = s]
      PROVE  dev' \in [Devices -> Pdata]
  <2>1. dev' = [dev EXCEPT ![d] = [dev[d] EXCEPT !.transfer.state = s]]
    BY <1>2
  <2>2. [dev[d] EXCEPT !.transfer.state = s] \in Pdata
    BY <1>1, DevFields
  <2> QED
    BY <2>1, <2>2 DEF UsbInv, TypeOK
<1>3. CASE OpenDone(t)
  <2>1. [dev[d] EXCEPT !.opened = TRUE, !.owner = t] \in Pdata
    BY <1>1 DEF Pdata
  <2>2. dev' = [dev EXCEPT ![d] = [dev[d] EXCEPT !.opened = TRUE, !.owner = t]]
    BY <1>3 DEF OpenDone
  <2> QED
    BY <2>1, <2>2 DEF UsbInv, TypeOK
<1> QED
  BY <1>2, <1>3 DEF Complete, Abort

LEMMA CancelTypes ==
  ASSUME UsbInv, NEW d \in Devices, Cancel(d)
  PROVE  dev' \in [Devices -> Pdata]
<1> DEFINE b == dev[d].transfer.aborted \/ (dev[d].transfer.state = "flying" /\ ~dev[d].cancelled)
<1>1. dev[d] \in Pdata
  BY DEF UsbInv, TypeOK
<1>2. b \in BOOLEAN
  BY <1>1 DEF Pdata, Transfer
<1>3. [dev[d] EXCEPT !.cancelled = TRUE, !.transfer.aborted = b] \in Pdata
  BY <1>1, <1>2 DEF Pdata, Transfer
<1>4. dev' = [dev EXCEPT ![d] = [dev[d] EXCEPT !.cancelled = TRUE, !.transfer.aborted = b]]
  BY DEF Cancel
<1> HIDE DEF b
<1> QED
  BY <1>3, <1>4 DEF UsbInv, TypeOK

-----------------------------------------------------------------------------
(* The steps. *)

LEMMA ConnectKeeps ==
  ASSUME UsbInv, NEW t \in Threads, Connect(t)
  PROVE  UsbInv'
<1>1. TypeOK'
  <2>1. dev' \in [Devices -> Pdata]
    BY DEF UsbInv, TypeOK, Connect, Idle, Pdata, Transfer
  <2>2. call' \in [Threads -> Call]
    BY DEF UsbInv, TypeOK, Connect, Idle, Call
  <2>3. pipes' \in [Couples -> {"closed", "idle"} \cup Devices]
    BY DEF UsbInv, TypeOK, Connect, Idle
  <2> QED
    BY <2>1, <2>2, <2>3, UsbAssumption DEF UsbInv, TypeOK, Connect, Idle
<1> USE UsbAssumption DEF UsbInv, Connect
<1>2. CallsFit' /\ LockHeld'
  BY DEF CallsFit, LockHeld, Active
<1>3. OwnersUse'
  BY DEF OwnersUse
<1>4. OpeningIsReserved'
  BY DEF OpeningIsReserved, Opening, CallsFit
<1>5. CommandsHaveACouple' /\ PipesAreClosed'
  BY DEF CommandsHaveACouple, PipesAreClosed
<1>6. CancelReachesTransfer'
  BY DEF CancelReachesTransfer
<1>7. CouplesAreExclusive'
  BY DEF CouplesAreExclusive, CommandsHaveACouple
<1> QED
  BY <1>1, <1>2, <1>3, <1>4, <1>5, <1>6, <1>7

LEMMA ConnectFailsKeeps ==
  ASSUME UsbInv, NEW t \in Threads, ConnectFails(t)
  PROVE  UsbInv'
<1>1. TypeOK'
  <2>1. dev' \in [Devices -> Pdata]
    BY DEF UsbInv, TypeOK, ConnectFails, Idle, Pdata, Transfer
  <2>2. call' \in [Threads -> Call]
    BY DEF UsbInv, TypeOK, ConnectFails, Idle, Call
  <2>3. pipes' \in [Couples -> {"closed", "idle"} \cup Devices]
    BY DEF UsbInv, TypeOK, ConnectFails, Idle
  <2> QED
    BY <2>1, <2>2, <2>3, UsbAssumption DEF UsbInv, TypeOK, ConnectFails, Idle
<1> USE UsbAssumption DEF UsbInv, ConnectFails
<1>2. CallsFit' /\ LockHeld'
  BY DEF CallsFit, LockHeld, Active
<1>3. OwnersUse'
  BY DEF OwnersUse
<1>4. OpeningIsReserved'
  BY DEF OpeningIsReserved, Opening, CallsFit
<1>5. CommandsHaveACouple' /\ PipesAreClosed'
  BY DEF CommandsHaveACouple, PipesAreClosed
<1>6. CancelReachesTransfer'
  BY DEF CancelReachesTransfer
<1>7. CouplesAreExclusive'
  BY DEF CouplesAreExclusive, CommandsHaveACouple
<1> QED
  BY <1>1, <1>2, <1>3, <1>4, <1>5, <1>6, <1>7

LEMMA ShutdownKeeps ==
  ASSUME UsbInv, NEW t \in Threads, Shutdown(t)
  PROVE  UsbInv'
<1>1. TypeOK'
  <2>1. dev' \in [Devices -> Pdata]
    BY DEF UsbInv, TypeOK, Shutdown, Idle, NoPdata, NoTransfer, Pdata, Transfer
  <2>2. call' \in [Threads -> Call]
    BY DEF UsbInv, TypeOK, Shutdown, Idle, NoPdata, NoTransfer, Call
  <2>3. pipes' \in [Couples -> {"closed", "idle"} \cup Devices]
    BY DEF UsbInv, TypeOK, Shutdown, Idle, NoPdata, NoTransfer
  <2> QED
    BY <2>1, <2>2, <2>3, UsbAssumption DEF UsbInv, TypeOK, Shutdown, Idle, NoPdata, NoTransfer
<1> USE UsbAssumption DEF UsbInv, Shutdown, Idle, NoPdata
<1>2. CallsFit' /\ LockHeld'
  BY DEF CallsFit, LockHeld, Active
<1>3. OwnersUse'
  BY DEF OwnersUse, CallsFit
<1>4. OpeningIsReserved'
  BY DEF OpeningIsReserved, Opening, CallsFit
<1>5. CommandsHaveACouple' /\ PipesAreClosed'
  BY DEF CommandsHaveACouple, PipesAreClosed
<1>6. CancelReachesTransfer'
  BY DEF CancelReachesTransfer
<1>7. CouplesAreExclusive'
  BY DEF CouplesAreExclusive
<1> QED
  BY <1>1, <1>2, <1>3, <1>4, <1>5, <1>6, <1>7

LEMMA DieKeeps ==
  ASSUME UsbInv, Die
  PROVE  UsbInv'
<1>1. TypeOK'
  <2>1. dev' \in [Devices -> Pdata]
    BY DEF UsbInv, TypeOK, Die, NoPdata, NoTransfer, NoCall, Pdata, Transfer
  <2>2. call' \in [Threads -> Call]
    BY DEF UsbInv, TypeOK, Die, NoPdata, NoTransfer, NoCall, Call
  <2>3. pipes' \in [Couples -> {"closed", "idle"} \cup Devices]
    BY DEF UsbInv, TypeOK, Die, NoPdata, NoTransfer, NoCall
  <2> QED
    BY <2>1, <2>2, <2>3, UsbAssumption DEF UsbInv, TypeOK, Die, NoPdata, NoTransfer, NoCall
<1> USE UsbAssumption DEF UsbInv, Die, NoPdata, NoCall
<1>2. CallsFit' /\ LockHeld'
  BY DEF CallsFit, LockHeld, Active
<1>3. OwnersUse'
  BY DEF OwnersUse
<1>4. OpeningIsReserved'
  BY DEF OpeningIsReserved, Opening
<1>5. CommandsHaveACouple' /\ PipesAreClosed'
  BY DEF CommandsHaveACouple, PipesAreClosed
<1>6. CancelReachesTransfer'
  BY DEF CancelReachesTransfer
<1>7. CouplesAreExclusive'
  BY DEF CouplesAreExclusive
<1> QED
  BY <1>1, <1>2, <1>3, <1>4, <1>5, <1>6, <1>7

LEMMA EnterKeeps ==
  ASSUME UsbInv, NEW t \in Threads, NEW op \in {"open", "close"}, NEW d \in Devices,
         Enter(t, op, d), op = "close" => Owns(t, d)
  PROVE  UsbInv'
<1>1. TypeOK'
  BY EnterTypes DEF UsbInv, TypeOK, Enter, Idle
<1> USE UsbAssumption DEF UsbInv, Enter, Idle, Owns
<1>2. CallsFit' /\ LockHeld'
  BY DEF CallsFit, LockHeld, Active
<1>3. OwnersUse'
  BY DEF OwnersUse
<1>4. OpeningIsReserved'
  BY DEF OpeningIsReserved, Opening, Active, Accepted
<1>5. CommandsHaveACouple' /\ PipesAreClosed'
  BY DEF CommandsHaveACouple, PipesAreClosed
<1>6. CancelReachesTransfer'
  BY DEF CancelReachesTransfer
<1>7. CouplesAreExclusive'
  BY DEF CouplesAreExclusive, CallsFit
<1> QED
  BY <1>1, <1>2, <1>3, <1>4, <1>5, <1>6, <1>7

LEMMA MoveKeeps ==
  ASSUME UsbInv, NEW t \in Threads, NEW d \in Devices, Move(t, d)
  PROVE  UsbInv'
<1>1. TypeOK'
  BY MoveTypes DEF UsbInv, TypeOK, Move, Idle, Owns
<1> USE UsbAssumption DEF UsbInv, Move, Idle, Owns
<1>2. CallsFit' /\ LockHeld'
  BY DEF CallsFit, LockHeld, Active
<1>3. OwnersUse'
  BY DEF OwnersUse
<1>4. OpeningIsReserved'
  BY DEF OpeningIsReserved, Opening, Active, Accepted
<1>5. CommandsHaveACouple' /\ PipesAreClosed'
  BY DEF CommandsHaveACouple, PipesAreClosed
<1>6. CancelReachesTransfer'
  BY DEF CancelReachesTransfer
<1>7. CouplesAreExclusive'
  BY DEF CouplesAreExclusive, CallsFit
<1> QED
  BY <1>1, <1>2, <1>3, <1>4, <1>5, <1>6, <1>7

LEMMA OpenPipeKeeps ==
  ASSUME UsbInv, NEW t \in Threads, OpenPipe(t)
  PROVE  UsbInv'
<1>1. TypeOK'
  BY CallTypes DEF UsbInv, TypeOK, OpenPipe
<1> USE UsbAssumption DEF UsbInv, TypeOK, Pdata, Call, OpenPipe
<1>2. CallsFit' /\ LockHeld'
  BY DEF CallsFit, LockHeld, Active
<1>3. OwnersUse'
  BY DEF OwnersUse
<1>4. OpeningIsReserved'
  BY DEF OpeningIsReserved, Opening, Active, Accepted, CallsFit, LockHeld
<1>5. CommandsHaveACouple' /\ PipesAreClosed'
  BY DEF CommandsHaveACouple, PipesAreClosed, OpeningIsReserved, Opening, Active, CallsFit
<1>6. CancelReachesTransfer'
  BY DEF CancelReachesTransfer
<1>7. CouplesAreExclusive'
  BY DEF CouplesAreExclusive, OpeningIsReserved, Opening, Active, CallsFit, LockHeld, OwnersUse,
     CommandsHaveACouple
<1> QED
  BY <1>1, <1>2, <1>3, <1>4, <1>5, <1>6, <1>7

LEMMA OpenPipeFailsKeeps ==
  ASSUME UsbInv, NEW t \in Threads, OpenPipeFails(t)
  PROVE  UsbInv'
<1>1. TypeOK'
  <2>1. call' \in [Threads -> Call]
    BY NoCallIsOne DEF UsbInv, TypeOK, OpenPipeFails
  <2>2. /\ in_use' \subseteq 0 .. nb'.couples - 1 /\ ep_lock' \in Threads \cup {NoThread}
        /\ UNCHANGED <<nb, ctx, dev>>
    BY DEF UsbInv, TypeOK, OpenPipeFails
  <2> QED
    BY <2>1, <2>2, OpenPipeFailsTypes DEF UsbInv, TypeOK
<1> USE UsbAssumption DEF UsbInv, TypeOK, Pdata, OpenPipeFails, NoCall
<1>2. CallsFit' /\ LockHeld'
  BY DEF CallsFit, LockHeld, Active
<1>3. OwnersUse'
  BY DEF OwnersUse
<1>4. OpeningIsReserved'
  BY DEF OpeningIsReserved, Opening, Active, CallsFit, LockHeld
<1>5. CommandsHaveACouple' /\ PipesAreClosed'
  BY DEF CommandsHaveACouple, PipesAreClosed, OpeningIsReserved, Opening, Active, CallsFit
<1>6. CancelReachesTransfer'
  BY DEF CancelReachesTransfer
<1>7. CouplesAreExclusive'
  BY DEF CouplesAreExclusive, OpeningIsReserved, Opening, Active, CallsFit
<1> QED
  BY <1>1, <1>2, <1>3, <1>4, <1>5, <1>6, <1>7

LEMMA CloseLockedKeeps ==
  ASSUME UsbInv, NEW t \in Threads, CloseLocked(t)
  PROVE  UsbInv'
<1>1. TypeOK'
  BY CallTypes DEF UsbInv, TypeOK, CloseLocked
<1> USE UsbAssumption DEF UsbInv, TypeOK, Pdata, CloseLocked
<1>2. CallsFit' /\ LockHeld'
  BY DEF CallsFit, LockHeld, Active
<1>3. OwnersUse'
  BY DEF OwnersUse
<1>4. OpeningIsReserved'
  BY DEF OpeningIsReserved, Opening, Active, LockHeld
<1>5. CommandsHaveACouple' /\ PipesAreClosed'
  BY DEF CommandsHaveACouple, PipesAreClosed
<1>6. CancelReachesTransfer'
  BY DEF CancelReachesTransfer
<1>7. CouplesAreExclusive'
  BY DEF CouplesAreExclusive, OwnersUse
<1> QED
  BY <1>1, <1>2, <1>3, <1>4, <1>5, <1>6, <1>7

LEMMA SubmitFailsKeeps ==
  ASSUME UsbInv, NEW t \in Threads, SubmitFails(t)
  PROVE  UsbInv'
<1>1. TypeOK'
  BY CallTypes DEF UsbInv, TypeOK, SubmitFails, Ended, NoCall
<1> USE UsbAssumption DEF UsbInv, SubmitFails, Ended, NoCall
<1>2. CallsFit' /\ LockHeld'
  BY DEF CallsFit, LockHeld, Active
<1>3. OwnersUse'
  BY DEF OwnersUse
<1>4. OpeningIsReserved'
  BY DEF OpeningIsReserved, Opening, Active, Accepted
<1>5. CommandsHaveACouple' /\ PipesAreClosed'
  BY DEF CommandsHaveACouple, PipesAreClosed
<1>6. CancelReachesTransfer'
  BY DEF CancelReachesTransfer
<1>7. CouplesAreExclusive'
  BY DEF CouplesAreExclusive
<1> QED
  BY <1>1, <1>2, <1>3, <1>4, <1>5, <1>6, <1>7

LEMMA CompleteKeeps ==
  ASSUME UsbInv, NEW t \in Threads, Complete(t)
  PROVE  UsbInv'
<1>1. TypeOK'
  <2>1. call[t].dev \in Devices
    BY DEF UsbInv, CallsFit, Complete
  <2>2. pipes' \in [Couples -> {"closed", "idle"} \cup Devices]
    BY <2>1 DEF UsbInv, TypeOK, Complete, Served
  <2> QED
    BY <2>2, DevTypes DEF UsbInv, TypeOK, Complete
<1> USE UsbAssumption DEF UsbInv, TypeOK, Pdata, Call, Complete, Served
<1>2. CallsFit' /\ LockHeld'
  BY DEF CallsFit, LockHeld, Active
<1>3. OwnersUse'
  BY DEF OwnersUse
<1>4. OpeningIsReserved'
  BY DEF OpeningIsReserved, Opening, Active, Accepted, LockHeld
<1>5. CommandsHaveACouple' /\ PipesAreClosed'
  BY DEF CommandsHaveACouple, PipesAreClosed
<1>6. CancelReachesTransfer'
  BY DEF CancelReachesTransfer
<1>7. CouplesAreExclusive'
  BY DEF CouplesAreExclusive, OpeningIsReserved, Opening, Active, CallsFit, OwnersUse
<1> QED
  BY <1>1, <1>2, <1>3, <1>4, <1>5, <1>6, <1>7

LEMMA AbortKeeps ==
  ASSUME UsbInv, NEW t \in Threads, Abort(t)
  PROVE  UsbInv'
<1>1. TypeOK'
  BY DevTypes DEF UsbInv, TypeOK, Abort
<1> USE UsbAssumption DEF UsbInv, Abort
<1>2. CallsFit' /\ LockHeld'
  BY DEF CallsFit, LockHeld, Active
<1>3. OwnersUse'
  BY DEF OwnersUse
<1>4. OpeningIsReserved'
  BY DEF OpeningIsReserved, Opening, Active, Accepted
<1>5. CommandsHaveACouple' /\ PipesAreClosed'
  BY DEF CommandsHaveACouple, PipesAreClosed
<1>6. CancelReachesTransfer'
  BY DEF CancelReachesTransfer
<1>7. CouplesAreExclusive'
  BY DEF CouplesAreExclusive
<1> QED
  BY <1>1, <1>2, <1>3, <1>4, <1>5, <1>6, <1>7

\* What the end of a transfer changes: the call of its thread and the transfer itself.
LEMMA TransferDoneMoves ==
  ASSUME UsbInv, NEW t \in Threads, TransferDone(t)
  PROVE  /\ \A u \in Threads \ {t} : call'[u] = call[u]
         /\ call[t].at = "wait" /\ call[t].todo \in 0 .. 4
         /\ \/ call'[t] = NoCall
            \/ /\ call'[t].op = call[t].op /\ call'[t].dev = call[t].dev
               /\ \/ call'[t].at = "finish" /\ call[t].op # "move"
                  \/ call'[t].at = "submit" /\ call'[t].todo = call[t].todo - 1 /\ call[t].todo # 1
<1> DEFINE d == call[t].dev
           ok == dev[d].transfer.state = "ok"
           refused == call[t].op = "open" /\ call[t].todo = 3 /\ pipes[dev[d].ep] # d
           next == [call[t] EXCEPT !.at = "submit", !.todo = call[t].todo - 1]
<1>1. call[t] \in Call /\ call[t].at = "wait"
  BY DEF UsbInv, TypeOK, TransferDone
<1>2. \/ \E b \in BOOLEAN : call' = [call EXCEPT ![t] = Ended(t, b)]
      \/ call' = [call EXCEPT ![t] = next] /\ call[t].todo # 1
  <2>1. CASE ~ok \/ refused
    BY <2>1 DEF TransferDone
  <2>2. CASE ok /\ ~refused /\ call[t].todo = 1
    BY <2>2 DEF TransferDone
  <2>3. CASE ok /\ ~refused /\ call[t].todo # 1
    BY <2>3 DEF TransferDone
  <2> QED
    BY <2>1, <2>2, <2>3
<1>3. ASSUME NEW b \in BOOLEAN
      PROVE  \/ Ended(t, b) = NoCall
             \/ /\ Ended(t, b).op = call[t].op /\ Ended(t, b).dev = call[t].dev
                /\ Ended(t, b).at = "finish" /\ call[t].op # "move"
  BY <1>1 DEF Ended, Call
<1>4. /\ next.op = call[t].op /\ next.dev = call[t].dev
      /\ next.at = "submit" /\ next.todo = call[t].todo - 1
  BY <1>1 DEF Call
<1>5. \A u \in Threads \ {t} : call'[u] = call[u]
  BY <1>2 DEF UsbInv, TypeOK
<1>6. call[t].todo \in 0 .. 4
  BY <1>1 DEF Call
<1> HIDE DEF next
<1>7. (\E b \in BOOLEAN : call'[t] = Ended(t, b)) \/ (call'[t] = next /\ call[t].todo # 1)
  BY <1>2 DEF UsbInv, TypeOK
<1> QED
  BY <1>1, <1>3, <1>4, <1>5, <1>6, <1>7

LEMMA TransferDoneKeeps ==
  ASSUME UsbInv, NEW t \in Threads, TransferDone(t)
  PROVE  UsbInv'
<1>1. TypeOK'
  BY TransferDoneTypes DEF UsbInv, TypeOK, TransferDone, Ended, NoCall, NoTransfer
<1>2. /\ UNCHANGED <<nb, ctx, in_use, ep_lock, pipes, lost>>
      /\ \A e \in Devices : /\ dev'[e].opened = dev[e].opened /\ dev'[e].ep = dev[e].ep
                            /\ dev'[e].owner = dev[e].owner
  BY DEF UsbInv, TypeOK, Pdata, TransferDone
<1>3. CallsFit' /\ LockHeld'
  BY <1>2, TransferDoneMoves DEF UsbInv, CallsFit, LockHeld, Active, NoCall
<1>4. OwnersUse'
  BY <1>2, TransferDoneMoves DEF UsbInv, OwnersUse, CallsFit, NoCall
<1>5. OpeningIsReserved'
  <2>1. \A u \in Threads : Active(u) => call[u].dev \in Devices
    BY DEF UsbInv, CallsFit, Active
  <2>2. Opening(t)' => Opening(t) /\ call'[t].dev = call[t].dev
    BY TransferDoneMoves DEF Opening, Active, NoCall
  <2>3. Opening(t)' /\ Accepted(t)' => Accepted(t) \/ pipes[dev[call[t].dev].ep] = call[t].dev
    BY DEF UsbInv, TypeOK, Call, CallsFit, TransferDone, Ended, NoCall, Opening, Active, Accepted
  <2>4. ASSUME NEW u \in Threads \ {t}, Opening(u)'
        PROVE  Opening(u) /\ call'[u].dev = call[u].dev /\ (Accepted(u)' => Accepted(u))
    BY <2>4, TransferDoneMoves DEF Opening, Active, Accepted
  <2>5. ASSUME NEW u \in Threads, Opening(u)'
        PROVE  /\ Opening(u) /\ call'[u].dev = call[u].dev
               /\ Accepted(u)' => Accepted(u) \/ pipes[dev[call[u].dev].ep] = call[u].dev
    BY <2>2, <2>3, <2>4, <2>5
  <2> QED
    BY <1>2, <2>1, <2>5 DEF UsbInv, OpeningIsReserved, Opening
<1>6. CommandsHaveACouple' /\ PipesAreClosed'
  BY <1>2 DEF UsbInv, CommandsHaveACouple, PipesAreClosed
<1>7. CancelReachesTransfer'
  BY DEF UsbInv, TypeOK, Pdata, Transfer, TransferDone, NoTransfer, CancelReachesTransfer
<1>8. CouplesAreExclusive'
  BY DEF UsbInv, TypeOK, Pdata, Call, TransferDone, Ended, NoCall, CouplesAreExclusive
<1> QED
  BY <1>1, <1>3, <1>4, <1>5, <1>6, <1>7, <1>8 DEF UsbInv

LEMMA CancelKeeps ==
  ASSUME UsbInv, NEW d \in Devices, Cancel(d)
  PROVE  UsbInv'
<1>1. TypeOK'
  BY CancelTypes DEF UsbInv, TypeOK, Cancel
<1> USE UsbAssumption DEF UsbInv, TypeOK, Pdata, Cancel
<1>2. CallsFit' /\ LockHeld'
  BY DEF CallsFit, LockHeld, Active
<1>3. OwnersUse'
  BY DEF OwnersUse, CallsFit
<1>4. OpeningIsReserved'
  BY DEF OpeningIsReserved, Opening, Active, Accepted, CallsFit
<1>5. CommandsHaveACouple' /\ PipesAreClosed'
  BY DEF CommandsHaveACouple, PipesAreClosed
<1>6. CancelReachesTransfer'
  BY DEF CancelReachesTransfer
<1>7. CouplesAreExclusive'
  BY DEF CouplesAreExclusive
<1> QED
  BY <1>1, <1>2, <1>3, <1>4, <1>5, <1>6, <1>7

LEMMA OpenDoneKeeps ==
  ASSUME UsbInv, NEW t \in Threads, OpenDone(t)
  PROVE  UsbInv'
<1>1. TypeOK'
  <2>1. call' \in [Threads -> Call]
    BY NoCallIsOne DEF UsbInv, TypeOK, OpenDone
  <2> QED
    BY <2>1, DevTypes DEF UsbInv, TypeOK, OpenDone
<1> USE UsbAssumption DEF UsbInv, TypeOK, Pdata, OpenDone, NoCall
<1>2. CallsFit' /\ LockHeld'
  BY DEF CallsFit, LockHeld, Active
<1>3. OwnersUse'
  BY DEF OwnersUse, CallsFit
<1>4. OpeningIsReserved'
  BY DEF OpeningIsReserved, Opening, Active, Accepted, LockHeld
<1>5. CommandsHaveACouple' /\ PipesAreClosed'
  BY DEF CommandsHaveACouple, PipesAreClosed, OwnersUse, CouplesAreExclusive
<1>6. CancelReachesTransfer'
  BY DEF CancelReachesTransfer
<1>7. CouplesAreExclusive'
  BY DEF OpeningIsReserved, Opening, Active, CallsFit, OwnersUse
<1> QED
  BY <1>1, <1>2, <1>3, <1>4, <1>5, <1>6, <1>7

LEMMA ClosePipeKeeps ==
  ASSUME UsbInv, NEW t \in Threads, ClosePipe(t)
  PROVE  UsbInv'
<1>1. TypeOK'
  <2>1. call' \in [Threads -> Call]
    BY NoCallIsOne DEF UsbInv, TypeOK, ClosePipe
  <2>2. /\ in_use' \subseteq 0 .. nb'.couples - 1 /\ ep_lock' \in Threads \cup {NoThread}
        /\ UNCHANGED <<nb, ctx>>
    BY DEF UsbInv, TypeOK, ClosePipe
  <2> QED
    BY <2>1, <2>2, ClosePipeTypes DEF UsbInv, TypeOK
<1> DEFINE d == call[t].dev
           ep == dev[d].ep
<1>2. /\ d \in Devices /\ ep_lock = t /\ ep \in in_use \ {0} /\ Active(t)
      /\ \A u \in Threads \ {t} : ~Active(u)
      /\ dev[d].owner \in {t, NoThread}
      /\ \A e \in Devices \ {d} : dev[e].opened => dev[e].ep # ep
  <2>1. Active(t)
    BY DEF ClosePipe, Active
  <2>2. d \in Devices /\ ep \in in_use \ {0}
    BY <2>1, CoupleOfCall
  <2>3. ep_lock = t /\ \A u \in Threads \ {t} : ~Active(u)
    BY <2>1 DEF UsbInv, LockHeld
  <2>4. CASE call[t].op = "open"
    <3>1. ~dev[d].opened /\ \A e \in Devices : dev[e].opened => dev[e].ep # ep
      BY <2>1, <2>4 DEF UsbInv, OpeningIsReserved, Opening
    <3>2. dev[d].owner = NoThread
      BY <2>2, <3>1 DEF UsbInv, OwnersUse
    <3> QED
      BY <2>1, <2>2, <2>3, <3>1, <3>2
  <2>5. CASE call[t].op = "close"
    <3>1. dev[d].owner = t
      BY <2>5 DEF UsbInv, OwnersUse
    <3>2. dev[d].opened
      BY <2>2, <3>1, UsbAssumption DEF UsbInv, OwnersUse
    <3> QED
      BY <2>1, <2>2, <2>3, <3>1, <3>2 DEF UsbInv, CouplesAreExclusive
  <2> QED
    BY <2>4, <2>5 DEF ClosePipe
<1>3. /\ UNCHANGED <<nb, ctx>> /\ in_use' = in_use \ {ep} /\ ep_lock' = NoThread
      /\ call'[t] = NoCall /\ \A u \in Threads \ {t} : call'[u] = call[u]
  BY DEF ClosePipe, UsbInv, TypeOK
<1>4. /\ \A e \in Devices \ {d} : dev'[e] = dev[e]
      /\ dev'[d].opened = FALSE /\ dev'[d].owner = NoThread
      /\ dev'[d].cancelled = dev[d].cancelled /\ dev'[d].transfer = dev[d].transfer
  BY <1>2 DEF ClosePipe, UsbInv, TypeOK, Pdata
<1>5. /\ \A c \in Couples \ {ep} : pipes'[c] = pipes[c] /\ (c \in lost => c \in lost')
      /\ ep \in Couples => pipes'[ep] = "closed" \/ ep \in lost'
  BY DEF ClosePipe, UsbInv, TypeOK
<1>6. CallsFit' /\ LockHeld'
  BY <1>2, <1>3 DEF UsbInv, CallsFit, LockHeld, Active, NoCall
<1>7. OwnersUse'
  BY <1>2, <1>3, <1>4, UsbAssumption DEF UsbInv, OwnersUse, CallsFit, NoCall
<1>8. OpeningIsReserved'
  BY <1>2, <1>3 DEF OpeningIsReserved, Opening, Active, NoCall
<1>9. CommandsHaveACouple' /\ PipesAreClosed'
  BY <1>2, <1>3, <1>4, <1>5 DEF UsbInv, CommandsHaveACouple, PipesAreClosed
<1>10. CancelReachesTransfer'
  BY <1>2, <1>4 DEF UsbInv, CancelReachesTransfer
<1>11. CouplesAreExclusive'
  <2>1. ASSUME NEW e \in Devices, dev'[e].opened
        PROVE  /\ e # d /\ dev[e].opened /\ dev'[e].ep = dev[e].ep
               /\ dev[e].ep # ep /\ dev[e].ep \in Couples
    <3>1. e # d /\ dev'[e] = dev[e]
      BY <1>4, <2>1
    <3>2. dev[e].ep \in Couples \cup {-1} /\ dev[e].ep \in 0 .. nb.couples - 1
      BY <2>1, <3>1 DEF UsbInv, TypeOK, Pdata, CouplesAreExclusive
    <3> QED
      BY <1>2, <2>1, <3>1, <3>2
  <2>2. \A e \in Devices, u \in Threads :
          e # d /\ call[u].op = "close" /\ call[u].dev = e => call'[u] = call[u]
    BY <1>3
  <2> QED
    BY <1>3, <1>5, <2>1, <2>2 DEF UsbInv, CouplesAreExclusive
<1> QED
  BY <1>1, <1>6, <1>7, <1>8, <1>9, <1>10, <1>11 DEF UsbInv

LEMMA SubmitKeeps ==
  ASSUME UsbInv, NEW t \in Threads, Submit(t)
  PROVE  UsbInv'
<1> USE UsbAssumption
<1>1. CASE dev[call[t].dev].cancelled
  <2>1. /\ call[t].at = "submit" /\ call' = [call EXCEPT ![t] = Ended(t, FALSE)]
        /\ UNCHANGED <<nb, ctx, in_use, ep_lock, dev, pipes, lost>>
    BY <1>1 DEF Submit
  <2> QED
    BY <2>1, SubmitFailsKeeps DEF SubmitFails
<1>2. CASE ~dev[call[t].dev].cancelled
  <2> DEFINE d == call[t].dev
  <2>1. /\ call[t].at = "submit" /\ call' = [call EXCEPT ![t].at = "wait"]
        /\ dev' = [dev EXCEPT ![d].transfer = [state |-> "flying", aborted |-> FALSE]]
        /\ UNCHANGED <<nb, ctx, in_use, ep_lock, pipes, lost>>
    BY <1>2 DEF Submit
  <2>2. TypeOK'
    BY <1>2, <2>1, SubmitTypes DEF UsbInv, TypeOK
  <2> USE DEF UsbInv, TypeOK, Pdata, Transfer, Call
  <2>3. CallsFit' /\ LockHeld'
    BY <2>1 DEF CallsFit, LockHeld, Active
  <2>4. OwnersUse'
    BY <2>1 DEF OwnersUse, CallsFit
  <2>5. OpeningIsReserved'
    BY <2>1 DEF OpeningIsReserved, Opening, Active, Accepted, CallsFit
  <2>6. CommandsHaveACouple' /\ PipesAreClosed'
    BY <2>1 DEF CommandsHaveACouple, PipesAreClosed
  <2>7. CancelReachesTransfer'
    BY <1>2, <2>1 DEF CancelReachesTransfer
  <2>8. CouplesAreExclusive'
    BY <2>1 DEF CouplesAreExclusive
  <2> QED
    BY <2>2, <2>3, <2>4, <2>5, <2>6, <2>7, <2>8
<1> QED
  BY <1>1, <1>2

LEMMA OpenLockedKeeps ==
  ASSUME UsbInv, NEW t \in Threads, OpenLocked(t)
  PROVE  UsbInv'
<1> DEFINE d == call[t].dev
<1>1. TypeOK'
  BY OpenLockedTypes DEF OpenLocked, UsbInv, TypeOK
<1>2. /\ call[t].op = "open" /\ call[t].at = "ep_lock" /\ ep_lock = NoThread
      /\ UNCHANGED <<nb, ctx, pipes, lost>>
  BY DEF OpenLocked
<1> USE UsbAssumption
<1>3. ASSUME dev' = [dev EXCEPT ![d].cancelled = FALSE], call' = [call EXCEPT ![t] = NoCall],
             UNCHANGED <<in_use, ep_lock>>
      PROVE  UsbInv'
  <2> USE <1>2, <1>3 DEF UsbInv, TypeOK, Pdata, Transfer, Call, NoCall
  <2>1. CallsFit' /\ LockHeld'
    BY DEF CallsFit, LockHeld, Active
  <2>2. OwnersUse'
    BY DEF OwnersUse, CallsFit
  <2>3. OpeningIsReserved'
    BY DEF OpeningIsReserved, Opening, Active, Accepted, CallsFit
  <2>4. CommandsHaveACouple' /\ PipesAreClosed'
    BY DEF CommandsHaveACouple, PipesAreClosed
  <2>5. CancelReachesTransfer'
    BY DEF CancelReachesTransfer
  <2>6. CouplesAreExclusive'
    BY DEF CouplesAreExclusive
  <2> QED
    BY <1>1, <2>1, <2>2, <2>3, <2>4, <2>5, <2>6
<1>4. ASSUME NEW ep \in Free, ~dev[d].opened,
             dev' = [dev EXCEPT ![d].cancelled = FALSE, ![d].ep = ep],
             in_use' = in_use \cup {ep}, ep_lock' = t,
             call' = [call EXCEPT ![t].at = "open_pipe"]
      PROVE  UsbInv'
  <2>0. ep \notin in_use /\ ep # 0
    BY <1>2 DEF Free, UsbInv, CommandsHaveACouple, CallsFit
  <2> USE <1>2, <1>4, <2>0 DEF UsbInv, TypeOK, Pdata, Transfer, Call
  <2>1. CallsFit' /\ LockHeld'
    BY DEF CallsFit, LockHeld, Active
  <2>2. OwnersUse'
    BY DEF OwnersUse, CallsFit
  <2>3. OpeningIsReserved'
    <3>1. d \in Devices /\ call'[t].at = "open_pipe" /\ call'[t].dev = d
      BY DEF CallsFit
    <3>2. dev'[d].opened = FALSE /\ dev'[d].ep = ep
      BY <3>1
    <3>3. \A e \in Devices : dev'[e].opened => dev'[e].ep # ep
      BY <3>1, <3>2 DEF CouplesAreExclusive
    <3>4. \A u \in Threads \ {t} : ~Opening(u)'
      BY DEF LockHeld, Opening, Active
    <3>5. /\ ~dev'[call'[t].dev].opened /\ dev'[call'[t].dev].ep \in in_use' \ {0}
          /\ \A e \in Devices : dev'[e].opened => dev'[e].ep # dev'[call'[t].dev].ep
          /\ ~Accepted(t)'
      BY <3>1, <3>2, <3>3 DEF Accepted
    <3> QED
      BY <3>4, <3>5 DEF OpeningIsReserved
  <2>4. CommandsHaveACouple' /\ PipesAreClosed'
    BY DEF CommandsHaveACouple, PipesAreClosed, CallsFit
  <2>5. CancelReachesTransfer'
    BY DEF CancelReachesTransfer
  <2>6. CouplesAreExclusive'
    BY DEF CouplesAreExclusive, CallsFit
  <2> QED
    BY <1>1, <2>1, <2>2, <2>3, <2>4, <2>5, <2>6
<1> QED
  BY <1>3, <1>4 DEF OpenLocked

LEMMA InitUsb == Init => UsbInv
<1> SUFFICES ASSUME Init
             PROVE  UsbInv
  OBVIOUS
<1>1. dev \in [Devices -> Pdata] /\ \A d \in Devices : dev[d] = NoPdata
  BY DEF Init, NoPdata, NoTransfer, Pdata, Transfer
<1>2. call \in [Threads -> Call] /\ \A t \in Threads : call[t] = NoCall
  BY NoCallIsOne DEF Init
<1>3. TypeOK
  BY <1>1, <1>2 DEF Init, TypeOK
<1>4. CallsFit /\ LockHeld /\ OpeningIsReserved
  BY <1>2 DEF CallsFit, LockHeld, OpeningIsReserved, Opening, Active, NoCall
<1>5. OwnersUse /\ CouplesAreExclusive /\ CancelReachesTransfer
  BY <1>1, <1>2 DEF OwnersUse, CouplesAreExclusive, CancelReachesTransfer, NoPdata, NoTransfer, NoCall
<1>6. CommandsHaveACouple /\ PipesAreClosed
  BY <1>1 DEF Init, CommandsHaveACouple, PipesAreClosed, NoPdata
<1> QED
  BY <1>3, <1>4, <1>5, <1>6 DEF UsbInv

LEMMA NextUsb == UsbInv /\ [Next]_vars => UsbInv'
<1> SUFFICES ASSUME UsbInv, [Next]_vars
             PROVE  UsbInv'
  OBVIOUS
<1>1. CASE UNCHANGED vars
  BY <1>1 DEF vars, UsbInv, TypeOK, CallsFit, LockHeld, Active, OwnersUse, OpeningIsReserved,
     Opening, Accepted, CommandsHaveACouple, CouplesAreExclusive, PipesAreClosed,
     CancelReachesTransfer
<1>2. ASSUME NEW t \in Threads, Step(t)
      PROVE  UsbInv'
  BY <1>2, OpenPipeKeeps, OpenPipeFailsKeeps, SubmitKeeps, SubmitFailsKeeps, AbortKeeps,
     TransferDoneKeeps, OpenDoneKeeps, ClosePipeKeeps DEF Step
<1>3. ASSUME NEW t \in Threads, NEW d \in Devices, Open(t, d) \/ Close(t, d) \/ Move(t, d)
      PROVE  UsbInv'
  BY <1>3, EnterKeeps, MoveKeeps DEF Open, Close
<1>4. ASSUME NEW t \in Threads,
             \/ Connect(t) \/ ConnectFails(t) \/ Shutdown(t)
             \/ OpenLocked(t) \/ CloseLocked(t) \/ Complete(t)
      PROVE  UsbInv'
  BY <1>4, ConnectKeeps, ConnectFailsKeeps, ShutdownKeeps, OpenLockedKeeps, CloseLockedKeeps,
     CompleteKeeps
<1> QED
  BY <1>1, <1>2, <1>3, <1>4, DieKeeps, CancelKeeps DEF Next

LEMMA InvUsb == Spec => []UsbInv
  BY InitUsb, NextUsb, PTL DEF Spec

-----------------------------------------------------------------------------
(* The theorems. *)

\* The state stays well-typed: no couple beyond those the interface has is taken.
THEOREM TypeCorrect == Spec => []TypeOK
<1>1. UsbInv => TypeOK
  BY DEF UsbInv
<1> QED
  BY <1>1, InvUsb, PTL

\* No two devices share a couple of endpoints and the pipe of an open device serves that
\* device, whoever opens and closes at the same time.
THEOREM CouplesStayExclusive == Spec => []CouplesAreExclusive
<1>1. UsbInv => CouplesAreExclusive
  BY DEF UsbInv
<1> QED
  BY <1>1, InvUsb, PTL

\* Nothing is left open at the gadget, but where a control transfer has failed.
THEOREM PipesStayClosed == Spec => []PipesAreClosed
<1>1. UsbInv => PipesAreClosed
  BY DEF UsbInv
<1> QED
  BY <1>1, InvUsb, PTL

\* What is in flight on a cancelled device has been aborted.
THEOREM CancelIsNotMissed == Spec => []CancelReachesTransfer
<1>1. UsbInv => CancelReachesTransfer
  BY DEF UsbInv
<1> QED
  BY <1>1, InvUsb, PTL

=============================================================================
