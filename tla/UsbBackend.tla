------------------------------ MODULE UsbBackend -------------------------------
(***************************************************************************)
(* The USB backend of libiio (usb.c).  A context talks to a daemon through *)
(* couples of endpoints, one couple (a pipe) for its commands and one for  *)
(* each buffer that is open; usbd.c serves each pipe that is open as a     *)
(* client of its own.                                                      *)
(*                                                                         *)
(* The commands are those of NetworkClient: here an exchange is the bulk   *)
(* transfers it takes, each of which may fail, time out or be cancelled.   *)
(* libusb and the daemon are external.  What several threads contend for   *)
(* is the table of couples, under ep_lock, and the transfer in flight,     *)
(* under the lock of the device's io_ctx, which iio_buffer_cancel takes.   *)
(***************************************************************************)
EXTENDS Integers, FiniteSets

CONSTANTS
  Threads,   \* the threads of the program
  Devices,   \* the devices of the context
  MaxEps,    \* the largest number of couples of the interface
  NoThread,
  NoDevice

ASSUME UsbAssumption ==
  /\ NoThread \notin Threads /\ NoDevice \notin Devices
  /\ IsFiniteSet(Threads) /\ IsFiniteSet(Devices)
  /\ MaxEps \in Nat /\ MaxEps >= 2

VARIABLES
  nb,        \* nb_ep_couples, and whether transfers have a timeout
  ctx,       \* whether there is a context
  in_use,    \* the couples reserved
  ep_lock,   \* the thread that holds ep_lock
  dev,       \* per device: opened, cancelled, its couple (the last one it had), the
             \* transfer in flight, and the thread whose buffer it is
  call,      \* per thread: where it is in a call
  pipes,     \* the daemon's side: what each pipe serves
  lost       \* pipes of which a control transfer has failed

vars == <<nb, ctx, in_use, ep_lock, dev, call, pipes, lost>>

Couples == 0 .. MaxEps - 1

NoTransfer == [state |-> "none", aborted |-> FALSE]
NoPdata == [opened |-> FALSE, cancelled |-> FALSE, ep |-> -1, transfer |-> NoTransfer,
            owner |-> NoThread]
NoCall == [op |-> "none", dev |-> NoDevice, at |-> "idle", todo |-> 0, ok |-> TRUE]

\* The daemon may still serve the pipes of a program that has died.
Init ==
  /\ nb \in [couples : 2 .. MaxEps, timed : BOOLEAN]
  /\ ctx = FALSE
  /\ in_use = {}
  /\ ep_lock = NoThread
  /\ dev = [d \in Devices |-> NoPdata]
  /\ call = [t \in Threads |-> NoCall]
  /\ pipes \in [Couples -> {"closed", "idle"}]
  /\ lost = {}

-----------------------------------------------------------------------------
(* The context. *)

Idle(t) == call[t].at = "idle"

\* The buffer is t's: it has been opened by t and not yet been closed.
Owns(t, d) == dev[d].owner = t

\* Mutant: the pipes are not reset.
Connect_NoReset(t) ==
  /\ ~ctx /\ Idle(t)
  /\ ctx' = TRUE
  /\ in_use' = {0}
  /\ pipes' = [pipes EXCEPT ![0] = "idle"]
  /\ UNCHANGED <<nb, ep_lock, dev, call, lost>>

\* usb_create_context: all pipes are reset, pipe 0 is opened for the commands.
Connect(t) ==
  /\ ~ctx /\ Idle(t)
  /\ ctx' = TRUE
  /\ in_use' = {0}
  /\ pipes' = [c \in Couples |-> IF c = 0 THEN "idle" ELSE "closed"]
  /\ lost' = {}
  /\ UNCHANGED <<nb, ep_lock, dev, call>>

\* It fails: before the pipes are reset, before pipe 0 is open, or after that, when they
\* are reset once more, which may fail too.
ConnectFails(t) ==
  /\ ~ctx /\ Idle(t)
  /\ pipes' \in {pipes, [c \in Couples |-> "closed"],
                 [c \in Couples |-> IF c = 0 THEN "idle" ELSE "closed"]}
  /\ UNCHANGED <<nb, ctx, in_use, ep_lock, dev, call, lost>>

\* usb_shutdown, with no buffer left; the result of the reset is not looked at.
Shutdown(t) ==
  /\ ctx /\ \A u \in Threads : Idle(u)
  /\ \A d \in Devices : ~dev[d].opened
  /\ ctx' = FALSE
  /\ in_use' = {}
  /\ dev' = [d \in Devices |-> NoPdata]
  /\ pipes' \in {pipes, [c \in Couples |-> "closed"]}
  /\ lost' = {}
  /\ UNCHANGED <<nb, ep_lock, call>>

\* The program dies; the daemon goes on serving its pipes.
Die ==
  /\ ctx
  /\ ctx' = FALSE
  /\ in_use' = {}
  /\ ep_lock' = NoThread
  /\ dev' = [d \in Devices |-> NoPdata]
  /\ call' = [t \in Threads |-> NoCall]
  /\ lost' = {}
  /\ UNCHANGED <<nb, pipes>>

-----------------------------------------------------------------------------
(* Opening. *)

\* usb_open and usb_close wait for ep_lock.
Enter(t, op, d) ==
  /\ ctx /\ Idle(t)
  /\ call' = [call EXCEPT ![t] = [op |-> op, dev |-> d, at |-> "ep_lock", todo |-> 0,
                                   ok |-> TRUE]]
  /\ UNCHANGED <<nb, ctx, in_use, ep_lock, dev, pipes, lost>>

\* iio_device_create_buffer, of a device of which another thread may have a buffer.
Open(t, d) == ~Owns(t, d) /\ Enter(t, "open", d)

\* iio_buffer_destroy.
Close(t, d) == Owns(t, d) /\ Enter(t, "close", d)

\* Mutant: a couple is taken without regard to whether it is in use.
Free_All == 1 .. nb.couples - 1

\* The couples that usb_reserve_ep_unlocked may find.
Free == (0 .. nb.couples - 1) \ in_use

\* Mutant: the lock is kept when the device is open.
OpenLocked_KeepsLock(t) ==
  LET d == call[t].dev
  IN
  /\ call[t].op = "open" /\ call[t].at = "ep_lock" /\ ep_lock = NoThread
  /\ \/ /\ dev[d].opened \/ Free = {}
        /\ dev' = [dev EXCEPT ![d].cancelled = FALSE]
        /\ call' = [call EXCEPT ![t] = NoCall]
        /\ ep_lock' = IF dev[d].opened THEN t ELSE NoThread
        /\ UNCHANGED in_use
     \/ \E ep \in Free :
        /\ ~dev[d].opened /\ \A i \in Free : ep <= i
        /\ dev' = [dev EXCEPT ![d].cancelled = FALSE, ![d].ep = ep]
        /\ in_use' = in_use \cup {ep}
        /\ ep_lock' = t
        /\ call' = [call EXCEPT ![t].at = "open_pipe"]
  /\ UNCHANGED <<nb, ctx, pipes, lost>>

\* usb_open has the lock.  The cancellation is undone before anything else is looked at;
\* a device that is open, or for which there is no couple, is refused.
OpenLocked(t) ==
  LET d == call[t].dev
  IN
  /\ call[t].op = "open" /\ call[t].at = "ep_lock" /\ ep_lock = NoThread
  /\ \/ /\ dev[d].opened \/ Free = {}
        /\ dev' = [dev EXCEPT ![d].cancelled = FALSE]
        /\ call' = [call EXCEPT ![t] = NoCall]
        /\ UNCHANGED <<in_use, ep_lock>>
     \/ \E ep \in Free :
        /\ ~dev[d].opened /\ \A i \in Free : ep <= i
        /\ dev' = [dev EXCEPT ![d].cancelled = FALSE, ![d].ep = ep]
        /\ in_use' = in_use \cup {ep}
        /\ ep_lock' = t
        /\ call' = [call EXCEPT ![t].at = "open_pipe"]
  /\ UNCHANGED <<nb, ctx, pipes, lost>>

\* usb_open_pipe: the daemon ends whoever it served there and serves a new client.
OpenPipe(t) ==
  LET ep == dev[call[t].dev].ep
  IN
  /\ call[t].at = "open_pipe"
  /\ pipes' = [pipes EXCEPT ![ep] = "idle"]
  /\ lost' = lost \ {ep}
  /\ call' = [call EXCEPT ![t].at = "submit", ![t].todo = 4]
  /\ UNCHANGED <<nb, ctx, in_use, ep_lock, dev>>

\* The control transfer fails, whether or not the daemon has acted on it.
OpenPipeFails(t) ==
  LET ep == dev[call[t].dev].ep
  IN
  /\ call[t].at = "open_pipe"
  /\ pipes' \in {pipes, [pipes EXCEPT ![ep] = "idle"], [pipes EXCEPT ![ep] = "closed"]}
  /\ lost' = lost \cup {ep}
  /\ in_use' = in_use \ {ep}
  /\ ep_lock' = NoThread
  /\ call' = [call EXCEPT ![t] = NoCall]
  /\ UNCHANGED <<nb, ctx, dev>>

-----------------------------------------------------------------------------
(* Transfers. *)

\* iio_buffer_refill or iio_buffer_push: a request and its answer.
Move(t, d) ==
  /\ ctx /\ Idle(t) /\ Owns(t, d)
  /\ call' = [call EXCEPT ![t] = [op |-> "move", dev |-> d, at |-> "submit", todo |-> 2,
                                   ok |-> TRUE]]
  /\ UNCHANGED <<nb, ctx, in_use, ep_lock, dev, pipes, lost>>

\* What follows the last transfer of an exchange, or the first that failed.
Ended(t, ok) ==
  IF call[t].op = "move" THEN NoCall ELSE [call[t] EXCEPT !.at = "finish", !.todo = 0, !.ok = ok]

\* Mutant: whether the device is cancelled is not looked at again before the submission.
Submit_Unchecked(t) ==
  LET d == call[t].dev
  IN
  /\ call[t].at = "submit"
  /\ dev' = [dev EXCEPT ![d].transfer = [state |-> "flying", aborted |-> FALSE]]
  /\ call' = [call EXCEPT ![t].at = "wait"]
  /\ UNCHANGED <<nb, ctx, in_use, ep_lock, pipes, lost>>

\* usb_sync_transfer: under the lock, nothing is submitted once cancelled.
Submit(t) ==
  LET d == call[t].dev
  IN
  /\ call[t].at = "submit"
  /\ IF dev[d].cancelled
     THEN call' = [call EXCEPT ![t] = Ended(t, FALSE)] /\ UNCHANGED dev
     ELSE /\ dev' = [dev EXCEPT ![d].transfer = [state |-> "flying", aborted |-> FALSE]]
          /\ call' = [call EXCEPT ![t].at = "wait"]
  /\ UNCHANGED <<nb, ctx, in_use, ep_lock, pipes, lost>>

\* The transfer cannot be allocated or submitted.
SubmitFails(t) ==
  /\ call[t].at = "submit"
  /\ call' = [call EXCEPT ![t] = Ended(t, FALSE)]
  /\ UNCHANGED <<nb, ctx, in_use, ep_lock, dev, pipes, lost>>

\* The first exchange of an open makes the daemon open the device, the one of a close
\* makes it close it; whether the answer arrives is another matter.
Served(t) ==
  LET ep == dev[call[t].dev].ep
  IN CASE call[t].op = "open" /\ call[t].todo = 4 /\ pipes[ep] # "closed" ->
            {pipes, [pipes EXCEPT ![ep] = call[t].dev]}
       [] call[t].op = "close" /\ call[t].todo = 2 /\ pipes[ep] # "closed" ->
            {[pipes EXCEPT ![ep] = "idle"]}
       [] OTHER -> {pipes}

\* libusb is done with the transfer: sync_transfer_cb.
Complete(t) ==
  LET d == call[t].dev
  IN
  /\ call[t].at = "wait" /\ dev[d].transfer.state = "flying"
  /\ dev' = [dev EXCEPT ![d].transfer.state = "ok"]
  /\ pipes' \in Served(t)
  /\ UNCHANGED <<nb, ctx, in_use, ep_lock, call, lost>>

\* It ends without data: aborted, timed out, or in an error.
Abort(t) ==
  LET d == call[t].dev
  IN
  /\ call[t].at = "wait" /\ dev[d].transfer.state = "flying"
  /\ dev[d].transfer.aborted \/ nb.timed
  /\ dev' = [dev EXCEPT ![d].transfer.state = "failed"]
  /\ UNCHANGED <<nb, ctx, in_use, ep_lock, call, pipes, lost>>

\* The thread sees it.  An answer that reports an error ends an open or a refill as well.
TransferDone(t) ==
  LET d == call[t].dev
      ok == dev[d].transfer.state = "ok"
      refused == call[t].op = "open" /\ call[t].todo = 3
                   /\ pipes[dev[d].ep] # d
  IN
  /\ call[t].at = "wait" /\ dev[d].transfer.state \in {"ok", "failed"}
  /\ dev' = [dev EXCEPT ![d].transfer = NoTransfer]
  /\ call' = [call EXCEPT ![t] =
       IF ~ok \/ refused THEN Ended(t, FALSE)
       ELSE IF call[t].todo = 1 THEN Ended(t, TRUE)
       ELSE [@ EXCEPT !.at = "submit", !.todo = call[t].todo - 1]]
  /\ UNCHANGED <<nb, ctx, in_use, ep_lock, pipes, lost>>

\* Mutant: the transfer in flight is left alone.
Cancel_MarksOnly(d) ==
  /\ ctx /\ dev[d].opened
  /\ dev' = [dev EXCEPT ![d].cancelled = TRUE]
  /\ UNCHANGED <<nb, ctx, in_use, ep_lock, call, pipes, lost>>

\* usb_cancel, by any thread.
Cancel(d) ==
  /\ ctx /\ dev[d].opened
  /\ dev' = [dev EXCEPT
       ![d].cancelled = TRUE,
       ![d].transfer.aborted = @ \/ (dev[d].transfer.state = "flying" /\ ~dev[d].cancelled)]
  /\ UNCHANGED <<nb, ctx, in_use, ep_lock, call, pipes, lost>>

-----------------------------------------------------------------------------
(* The ends of an open and of a close. *)

\* The device is open.
OpenDone(t) ==
  LET d == call[t].dev
  IN
  /\ call[t].op = "open" /\ call[t].at = "finish" /\ call[t].ok
  /\ dev' = [dev EXCEPT ![d].opened = TRUE, ![d].owner = t]
  /\ ep_lock' = NoThread
  /\ call' = [call EXCEPT ![t] = NoCall]
  /\ UNCHANGED <<nb, ctx, in_use, pipes, lost>>

\* The pipe is closed, which the result of the control transfer changes nothing about, and
\* the couple given back.
ClosePipe(t) ==
  LET d == call[t].dev
      ep == dev[d].ep
  IN
  /\ \/ call[t].op = "open" /\ call[t].at = "finish" /\ ~call[t].ok
     \/ call[t].op = "close" /\ call[t].at = "finish"
  /\ \/ pipes' = [pipes EXCEPT ![ep] = "closed"] /\ lost' = lost \ {ep}
     \/ pipes' = pipes /\ lost' = lost \cup {ep}
  /\ dev' = [dev EXCEPT ![d].opened = FALSE, ![d].owner = NoThread]
  /\ in_use' = in_use \ {ep}
  /\ ep_lock' = NoThread
  /\ call' = [call EXCEPT ![t] = NoCall]
  /\ UNCHANGED <<nb, ctx>>

\* usb_close has the lock: the device is told to close.
CloseLocked(t) ==
  /\ call[t].op = "close" /\ call[t].at = "ep_lock" /\ ep_lock = NoThread
  /\ ep_lock' = t
  /\ call' = [call EXCEPT ![t].at = "submit", ![t].todo = 2]
  /\ UNCHANGED <<nb, ctx, in_use, dev, pipes, lost>>

-----------------------------------------------------------------------------

\* What a thread does in a call, but for waiting for ep_lock and for the device.
Step(t) ==
  \/ OpenPipe(t) \/ OpenPipeFails(t) \/ Submit(t) \/ SubmitFails(t)
  \/ Abort(t) \/ TransferDone(t) \/ OpenDone(t) \/ ClosePipe(t)

Next ==
  \/ \E t \in Threads :
       \/ Connect(t) \/ ConnectFails(t) \/ Shutdown(t)
       \/ \E d \in Devices : Open(t, d) \/ Close(t, d) \/ Move(t, d)
       \/ OpenLocked(t) \/ CloseLocked(t) \/ Complete(t) \/ Step(t)
  \/ \E d \in Devices : Cancel(d)
  \/ Die

\* A thread goes on, and libusb ends a transfer that is aborted or out of time.
Spec == Init /\ [][Next]_vars /\ \A t \in Threads : WF_vars(Step(t))

-----------------------------------------------------------------------------
(* Properties. *)

Transfer == [state : {"none", "flying", "ok", "failed"}, aborted : BOOLEAN]
Pdata == [opened : BOOLEAN, cancelled : BOOLEAN, ep : Couples \cup {-1},
          transfer : Transfer, owner : Threads \cup {NoThread}]
Call == [op : {"none", "open", "move", "close"}, dev : Devices \cup {NoDevice},
         at : {"idle", "ep_lock", "open_pipe", "submit", "wait", "finish"},
         todo : 0 .. 4, ok : BOOLEAN]

\* Every field of the state has a value that the C program can give it.
TypeOK ==
  /\ nb \in [couples : 2 .. MaxEps, timed : BOOLEAN]
  /\ ctx \in BOOLEAN /\ in_use \subseteq 0 .. nb.couples - 1
  /\ ep_lock \in Threads \cup {NoThread}
  /\ dev \in [Devices -> Pdata]
  /\ call \in [Threads -> Call]
  /\ pipes \in [Couples -> {"closed", "idle"} \cup Devices]
  /\ lost \subseteq Couples

\* No two devices share a couple, none has that of the commands, and the pipe of a device
\* that is open serves that device: a refill never gets another buffer's samples
\* (usb_reserve_ep_unlocked, usb_free_ep_unlocked).
CouplesAreExclusive ==
  \A d \in Devices : dev[d].opened =>
    /\ dev[d].ep \in in_use \ {0}
    /\ \A e \in Devices : (e # d /\ dev[e].opened) => dev[e].ep # dev[d].ep
    /\ pipes[dev[d].ep] = d \/ \E t \in Threads : call[t].op = "close" /\ call[t].dev = d

\* The daemon serves no pipe that the program does not use, but for those of which a
\* control transfer has failed: what a program that died, a cancelled buffer or a failed
\* open leaves behind is closed (usb_reset_pipes, usb_close_pipe).
PipesAreClosed == ctx => {c \in Couples : pipes[c] # "closed"} \subseteq in_use \cup lost

\* "Otherwise it is possible that the cancellation is missed and transfer is not aborted"
\* (usb.c:598): what is in flight when the device is cancelled, or later, is aborted.
CancelReachesTransfer ==
  \A d \in Devices :
    (dev[d].cancelled /\ dev[d].transfer.state = "flying") => dev[d].transfer.aborted

\* A call of which the device is cancelled ends, whatever the daemon does, unless an
\* attempt to open the device takes the cancellation back (usb_cancel, usb_open).
CancelEndsCalls ==
  \A t \in Threads, d \in Devices :
    (call[t].dev = d /\ call[t].at \in {"submit", "wait"} /\ dev[d].cancelled)
      ~> (call[t].at \notin {"submit", "wait"} \/ ~dev[d].cancelled)

\* With a timeout, ep_lock is given back, though an open or a close keeps it for as long
\* as its exchanges with the daemon take.
LockIsGivenBack == nb.timed => (ep_lock # NoThread ~> ep_lock = NoThread)

================================================================================
