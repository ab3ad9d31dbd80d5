--------------------------- MODULE TelegramNotifier ---------------------------
(***************************************************************************)
(* src/src/rf_analyzer/notifications/telegram_notifier.py: the GUI thread  *)
(* hands events to notify_event, which filters them (minimum power, key    *)
(* already waiting, cooldown) and queues a message; the worker thread      *)
(* takes messages from the queue and sends each with up to max_attempts    *)
(* tries, sleeping in between.                                             *)
(*                                                                         *)
(* The two threads share _pending_event_keys and _last_event_notification  *)
(* without a lock: notify_event reads them in two separate steps and the   *)
(* worker writes them in two separate steps.                               *)
(*                                                                         *)
(* A message is its cooldown key (range, rounded frequency and event       *)
(* type), or Status for an error or status message, which has no key.  The *)
(* Telegram API either accepts a try or does not.  Each object is started  *)
(* once: main_window.py creates a new notifier for each start.             *)
(***************************************************************************)
EXTENDS Integers, Sequences

CONSTANTS
  Keys,         \* cooldown keys of event notifications
  Status,       \* a message without a key
  Cooldown,     \* cooldown_seconds, in ticks
  MaxAttempts,  \* max_attempts of _send_with_retries (5)
  MaxTime,      \* bound: the clock stops here
  MaxQueue      \* bound: status messages are queued up to this length

ASSUME NotifierConstants ==
  /\ Cooldown \in Nat
  /\ MaxAttempts \in Nat \ {0}
  /\ MaxTime \in Nat
  /\ Status \notin Keys

VARIABLES
  now,        \* datetime.now()
  running,    \* _running
  stopEvent,  \* _stop_event
  queue,      \* _queue
  pending,    \* _pending_event_keys
  last,       \* _last_event_notification, Never where it has no entry
  gui,        \* where the GUI thread is: idle or inside notify_event
  guiKey,     \* the key it is notifying about
  pc,         \* where the worker is
  message,    \* the message in the worker's hands
  attempt     \* attempt of _send_with_retries

sharedVars == <<running, stopEvent, queue, pending, last>>
guiVars == <<gui, guiKey>>
workerVars == <<pc, message, attempt>>
notifierVars == <<now, sharedVars, guiVars, workerVars>>

Never == -1
Time == 0 .. MaxTime
Messages == Keys \cup {Status}

-----------------------------------------------------------------------------
(* The GUI thread *)

\* start, for an enabled and configured notifier.
Start ==
  /\ pc = "none"
  /\ running' = TRUE
  /\ stopEvent' = FALSE
  /\ pc' = "get"
  /\ UNCHANGED <<now, queue, pending, last, guiVars, message, attempt>>

\* stop: sets the flags and waits two seconds at most, so the worker may
\* still be sending or sleeping when it returns.
Stop ==
  /\ gui = "idle" /\ running
  /\ running' = FALSE
  /\ stopEvent' = TRUE
  /\ UNCHANGED <<now, queue, pending, last, guiVars, workerVars>>

\* notify_event for a strong enough event whose key is not waiting.
NotifyEvent(k) ==
  /\ gui = "idle" /\ running
  /\ k \notin pending
  /\ gui' = "cooldown" /\ guiKey' = k
  /\ UNCHANGED <<now, sharedVars, workerVars>>

CooldownOver(k) == last[k] = Never \/ now - last[k] >= Cooldown

CheckCooldown_Skipped == \* mutant
  /\ gui = "cooldown"
  /\ gui' = "add"
  /\ UNCHANGED <<now, sharedVars, guiKey, workerVars>>

\* The cooldown test; the event is dropped while it runs.
CheckCooldown ==
  /\ gui = "cooldown"
  /\ gui' = IF CooldownOver(guiKey) THEN "add" ELSE "idle"
  /\ UNCHANGED <<now, sharedVars, guiKey, workerVars>>

AddPending ==
  /\ gui = "add"
  /\ pending' = pending \cup {guiKey}
  /\ gui' = "put"
  /\ UNCHANGED <<now, running, stopEvent, queue, last, guiKey, workerVars>>

PutEvent ==
  /\ gui = "put"
  /\ queue' = Append(queue, guiKey)
  /\ gui' = "idle"
  /\ UNCHANGED <<now, running, stopEvent, pending, last, guiKey, workerVars>>

\* notify_status and notify_error.
NotifyStatus ==
  /\ gui = "idle" /\ running
  /\ Len(queue) < MaxQueue
  /\ queue' = Append(queue, Status)
  /\ UNCHANGED <<now, running, stopEvent, pending, last, guiVars, workerVars>>

-----------------------------------------------------------------------------
(* The worker thread *)

\* while not stop_event: queue.get, which gives up after a second and goes
\* round again.
WorkerExits ==
  /\ pc = "get" /\ stopEvent
  /\ pc' = "done"
  /\ UNCHANGED <<now, sharedVars, guiVars, message, attempt>>

\* A worker already waiting in queue.get takes a message even if stop has been
\* called meanwhile.
Get ==
  /\ pc = "get" /\ queue # << >>
  /\ message' = Head(queue)
  /\ queue' = Tail(queue)
  /\ attempt' = 1
  /\ pc' = "send"
  /\ UNCHANGED <<now, running, stopEvent, pending, last, guiVars>>

\* One try that is accepted.
SendAccepted ==
  /\ pc = "send" /\ ~stopEvent
  /\ pc' = "stamp"
  /\ UNCHANGED <<now, sharedVars, guiVars, message, attempt>>

\* One try that fails: sleep and try again, or give up after the last one.
SendFails ==
  /\ pc = "send" /\ ~stopEvent
  /\ IF attempt < MaxAttempts
       THEN pc' = "sleep" /\ attempt' = attempt + 1
       ELSE pc' = "discard" /\ UNCHANGED attempt
  /\ UNCHANGED <<now, sharedVars, guiVars, message>>

WakeUp ==
  /\ pc = "sleep"
  /\ pc' = "send"
  /\ UNCHANGED <<now, sharedVars, guiVars, message, attempt>>

\* stop seen at the head of an attempt: the message is given up.
AbandonSend ==
  /\ pc = "send" /\ stopEvent
  /\ pc' = "discard"
  /\ UNCHANGED <<now, sharedVars, guiVars, message, attempt>>

\* Success: first the time of the notification, then the key is released.
StampNotification ==
  /\ pc = "stamp"
  /\ last' = IF message \in Keys THEN [last EXCEPT ![message] = now] ELSE last
  /\ pc' = "release"
  /\ UNCHANGED <<now, running, stopEvent, queue, pending, guiVars, message, attempt>>

\* Mutant: the key of a message that was given up stays waiting.
DiscardPending_OnSuccess ==
  /\ pc \in {"release", "discard"}
  /\ pending' = IF pc = "release" THEN pending \ {message} ELSE pending
  /\ pc' = "get"
  /\ UNCHANGED <<now, running, stopEvent, queue, last, guiVars, message, attempt>>

\* pending.discard, after a success and after giving up.
DiscardPending ==
  /\ pc \in {"release", "discard"}
  /\ pending' = pending \ {message}
  /\ pc' = "get"
  /\ UNCHANGED <<now, running, stopEvent, queue, last, guiVars, message, attempt>>

Worker ==
  \/ WorkerExits \/ Get \/ SendAccepted \/ SendFails \/ WakeUp \/ AbandonSend
  \/ StampNotification \/ DiscardPending

-----------------------------------------------------------------------------
Init ==
  /\ now = 0
  /\ running = FALSE /\ stopEvent = FALSE
  /\ queue = << >> /\ pending = {} /\ last = [k \in Keys |-> Never]
  /\ gui = "idle" /\ guiKey = Status
  /\ pc = "none" /\ message = Status /\ attempt = 0

Tick ==
  /\ now < MaxTime
  /\ now' = now + 1
  /\ UNCHANGED <<sharedVars, guiVars, workerVars>>

Gui ==
  \/ Start \/ Stop \/ \E k \in Keys : NotifyEvent(k)
  \/ CheckCooldown \/ AddPending \/ PutEvent \/ NotifyStatus

Next == Tick \/ Gui \/ Worker

Spec == Init /\ [][Next]_notifierVars

\* The worker is scheduled and every sleep ends; notify_event runs to its end.
FairSpec ==
  /\ Spec
  /\ WF_notifierVars(Worker) /\ WF_notifierVars(CheckCooldown \/ AddPending \/ PutEvent)

-----------------------------------------------------------------------------
(* Properties *)

TypeOK ==
  /\ now \in Time
  /\ running \in BOOLEAN /\ stopEvent \in BOOLEAN
  /\ queue \in Seq(Messages)
  /\ pending \in SUBSET Keys
  /\ last \in [Keys -> Time \cup {Never}]
  /\ gui \in {"idle", "cooldown", "add", "put"}
  /\ guiKey \in Messages /\ (gui # "idle" => guiKey \in Keys)
  /\ pc \in {"none", "get", "send", "sleep", "stamp", "release", "discard", "done"}
  /\ message \in Messages
  /\ attempt \in 0 .. MaxAttempts

Busy == pc \in {"send", "sleep", "stamp", "release", "discard"}

\* The places where a message of key k can be.
InQueue(k) == {i \in DOMAIN queue : queue[i] = k}
AboutToQueue(k) == gui = "put" /\ guiKey = k
InHand(k) == Busy /\ message = k

\* A waiting key has exactly one message on its way, and only waiting keys
\* have one: the anti-spam filter neither duplicates nor forgets a message.
PendingIsInFlight ==
  \A k \in Keys :
    /\ k \in pending <=> (InQueue(k) # {} \/ AboutToQueue(k) \/ InHand(k))
    /\ \A i, j \in InQueue(k) : i = j
    /\ InQueue(k) # {} => ~AboutToQueue(k) /\ ~InHand(k)
    /\ ~(AboutToQueue(k) /\ InHand(k))

\* Two deliveries of one key are at least the cooldown apart, though the test
\* and the update of the shared maps interleave.
DeliveriesAreApart ==
  [][\A k \in Keys : last'[k] # last[k] =>
       last[k] = Never \/ last'[k] - last[k] >= Cooldown]_notifierVars

\* The notifier implements the abstract gate; a key is in flight there from
\* being added to the waiting keys until the notification is stamped or the
\* message given up.
Gate == INSTANCE NotificationGate
          WITH inFlight <- pending \ (IF pc = "release" THEN {message} ELSE {})
ImplementsGate == Gate!Spec

===============================================================================
