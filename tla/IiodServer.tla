----------------------------- MODULE IiodServer -----------------------------
(***************************************************************************)
(* The part of the IIO daemon (libiio, iiod/ops.c) by which its clients    *)
(* share one device: the sessions that open it, read or write its buffer   *)
(* and leave, and the thread that owns the buffer while anybody has the    *)
(* device open.                                                            *)
(*                                                                         *)
(* A DevEntry is an opening of the device with its thread; several may     *)
(* exist, for a new one can be made while the old one is being left.  A    *)
(* ThdEntry is a client's handle on a DevEntry.  Ids of freed structures   *)
(* are used again, as addresses are.                                       *)
(*                                                                         *)
(* thdlist_lock is held for whole steps here, with the transfers to the    *)
(* clients that the code makes under it; every place where the code lets   *)
(* go of it is a boundary between steps.  Only a push, which may wait for  *)
(* the device without end, is two steps, and the lock is taken in between. *)
(***************************************************************************)
EXTENDS Integers, FiniteSets, Sequences, FiniteSetsExt, Functions

CONSTANTS
  Clients,      \* sessions (a session that ended may be followed by another)
  Buffers,      \* the buffers each client may open: mask, sample count, whether
                \* cyclic, whether written
  MaxOpens,     \* handles one session may have at a time
  EntryIds,     \* storage for DevEntry structures
  Demux,        \* server_demux
  NoEntry

ASSUME ServerAssumption ==
  /\ IsFiniteSet(Clients) /\ Clients # {}
  /\ \A c \in Clients : \A b \in Buffers[c] :
       /\ IsFiniteSet(b.mask) /\ b.mask # {} /\ b.count \in Nat \ {0}
       /\ b.cyclic \in BOOLEAN /\ b.writer \in BOOLEAN
  /\ MaxOpens \in Nat \ {0}
  /\ NoEntry \notin EntryIds
  /\ Demux \in BOOLEAN

VARIABLES
  data,     \* iio_device_get_data: the entry new clients join
  entries,  \* the DevEntry structures
  thds,     \* the ThdEntry structures
  rw,       \* where the thread of each entry is, and what it knows there
  sess,     \* the sessions: where the interpreter is, and the answer under way
  handles,  \* pdata->thdlist_head of each session, latest first
  hung,     \* sessions whose client has closed its side
  stop      \* the stop event of the pool

vars == <<data, entries, thds, rw, sess, handles, hung, stop>>

Handles == Clients \X (1 .. MaxOpens)

\* Bytes of a sample: one for each channel that is in it.
SampleSize(mask) == Cardinality(mask)

Failed == -1

NewThd == [used |-> FALSE, entry |-> NoEntry, mask |-> {}, count |-> 0,
           nb |-> 0, err |-> 0, event |-> FALSE, active |-> FALSE,
           writer |-> FALSE, newClient |-> FALSE, waitForOpen |-> FALSE,
           header |-> {}]

NewEntry == [ref |-> 0, list |-> {}, buf |-> FALSE, mask |-> {}, size |-> 0,
             count |-> 0, updateMask |-> FALSE, cyclic |-> FALSE,
             closed |-> FALSE, cancelled |-> FALSE]

NoSession == [pc |-> "off", thd |-> <<>>, nb |-> 0, left |-> 0, extra |-> FALSE]

At(pc) == [pc |-> pc, writers |-> FALSE, size |-> 0]

Init ==
  /\ data = NoEntry
  /\ entries = [e \in EntryIds |-> NewEntry]
  /\ thds = [t \in Handles |-> NewThd]
  /\ rw = [e \in EntryIds |-> At("none")]
  /\ sess = [c \in Clients |-> NoSession]
  /\ handles = [c \in Clients |-> <<>>]
  /\ hung = [c \in Clients |-> FALSE]
  /\ stop = FALSE

-----------------------------------------------------------------------------
(* Operators on the structures. *)

\* signal_thread: the request of a client is over.
Signalled(thd, ret) ==
  [thd EXCEPT !.err = ret, !.nb = 0, !.active = FALSE, !.event = TRUE]

\* pthread_cond_signal on rw_ready_cond.
Woken(e) == IF rw[e].pc = "asleep" THEN [rw EXCEPT ![e].pc = "top"] ELSE rw

\* thdlist_lock is taken from one step to the next.
Locked(e) == rw[e].pc = "pushing"

\* Mutant: the reference is dropped twice when the list is empty.
Put_Twice(entry) == IF entry.ref = 1 \/ entry.list = {} THEN NewEntry
                    ELSE [entry EXCEPT !.ref = @ - 1]

\* dev_entry_put: the structure is freed with its last reference.
Put(entry) == IF entry.ref = 1 THEN NewEntry ELSE [entry EXCEPT !.ref = @ - 1]

\* Mutant: the buffer is not cancelled, so nothing wakes the refill.
Unlisted_NoCancel(entry, t) ==
  IF entry.closed THEN entry
  ELSE [entry EXCEPT !.updateMask = TRUE, !.list = @ \ {t}]

\* remove_thd_entry, up to its dev_entry_put.
Unlisted(entry, t) ==
  IF entry.closed THEN entry
  ELSE [entry EXCEPT !.updateMask = TRUE, !.list = @ \ {t},
                     !.cancelled = @ \/ (entry.list \ {t} = {} /\ entry.buf)]

RemoveThd(t) ==
  LET e == thds[t].entry IN
  /\ ~Locked(e)
  /\ entries' = [entries EXCEPT ![e] = Put(Unlisted(@, t))]
  /\ rw' = IF entries[e].closed THEN rw ELSE Woken(e)

\* send_data: how much of len bytes of the buffer a client is given.
ToSend(entry, thd, len) ==
  LET own == SampleSize(thd.mask)
      mine == IF Demux /\ entry.size # own THEN (len \div entry.size) * own ELSE len
  IN Min({mine, thd.nb})

\* receive_data: how much is taken from a client at a time.
ToReceive(entry, thd) ==
  IF entry.size = SampleSize(thd.mask) THEN Min({entry.size * entry.count, thd.nb})
  ELSE thd.nb

\* The mask a client is told at the head of an answer (send_data).
Header(entry, thd) ==
  IF ~thd.newClient THEN thd.header
  ELSE IF Demux /\ entry.size # SampleSize(thd.mask) THEN thd.mask ELSE entry.mask

\* A transfer to or from the client of a handle ends early: it hung up, or the
\* daemon stops (readfd_io and writefd_io return 0, read_all and write_all -EPIPE).
Gone(c) == hung[c] \/ stop

-----------------------------------------------------------------------------
(* Sessions. *)

FreeHandles(c) == {k \in 1 .. MaxOpens : ~thds[<<c, k>>].used}
FreeEntries == {e \in EntryIds : entries[e].ref = 0 /\ rw[e].pc = "none"}

\* A client connects and its interpreter starts.
Connect(c) ==
  /\ sess[c].pc = "off" /\ ~stop
  /\ sess' = [sess EXCEPT ![c] = [NoSession EXCEPT !.pc = "idle"]]
  /\ handles' = [handles EXCEPT ![c] = <<>>]
  /\ UNCHANGED <<data, entries, thds, rw, hung, stop>>

\* The client closes its side while its session waits in the daemon; if the session
\* is reading commands that is EndSession.
Hangup(c) ==
  /\ sess[c].pc \notin {"off", "idle"} /\ ~hung[c]
  /\ hung' = [hung EXCEPT ![c] = TRUE]
  /\ UNCHANGED <<data, entries, thds, rw, sess, handles, stop>>

\* The handle that open_dev_helper makes.
Opened(e, b) ==
  [NewThd EXCEPT !.used = TRUE, !.entry = e, !.mask = b.mask, !.count = b.count,
                 !.writer = b.writer, !.waitForOpen = TRUE]

MayOpen(c, k) == sess[c].pc = "idle" /\ k \in FreeHandles(c) /\ ~Gone(c)

\* open_dev_helper without a live entry: one is made, with its thread.
OpenNew(c, k, b) ==
  /\ MayOpen(c, k)
  /\ \/ data = NoEntry
     \/ data # NoEntry /\ ~b.cyclic /\ ~entries[data].cyclic /\ entries[data].closed
  /\ \E e \in FreeEntries :
       /\ e = CHOOSE f \in FreeEntries : TRUE
       /\ entries' = [entries EXCEPT ![e] =
            [NewEntry EXCEPT !.ref = 2, !.list = {<<c, k>>}, !.updateMask = TRUE,
                             !.cyclic = b.cyclic]]
       /\ rw' = [rw EXCEPT ![e] = At("top")]
       /\ data' = e
       /\ thds' = [thds EXCEPT ![<<c, k>>] = Opened(e, b)]
  /\ sess' = [sess EXCEPT ![c].pc = "check", ![c].thd = <<c, k>>]
  /\ UNCHANGED <<handles, hung, stop>>

\* open_dev_helper with a live entry, which neither side wants cyclic.  A request
\* refused with -EBUSY, after its retries, changes nothing.
OpenJoin(c, k, b) ==
  /\ MayOpen(c, k)
  /\ data # NoEntry /\ ~b.cyclic /\ ~entries[data].cyclic /\ ~entries[data].closed
  /\ ~Locked(data)
  /\ entries' = [entries EXCEPT ![data].ref = @ + 1, ![data].list = @ \cup {<<c, k>>},
                                ![data].updateMask = TRUE]
  /\ thds' = [thds EXCEPT ![<<c, k>>] = Opened(data, b)]
  /\ rw' = Woken(data)
  /\ sess' = [sess EXCEPT ![c].pc = "open", ![c].thd = <<c, k>>]
  /\ UNCHANGED <<data, handles, hung, stop>>

\* The end of open_dev_helper: an error takes the handle back.
EndOpen(c, t, err) ==
  IF err < 0
  THEN /\ RemoveThd(t)
       /\ thds' = [thds EXCEPT ![t] = NewThd]
       /\ UNCHANGED handles
  ELSE /\ handles' = [handles EXCEPT ![c] = <<t>> \o @]
       /\ UNCHANGED <<entries, rw, thds>>

\* The session is back at reading commands.
Idle(s) == [s EXCEPT !.pc = "idle", !.thd = <<>>, !.nb = 0]

\* The first look at wait_for_open after a new entry was made: the thread may be
\* faster, and its event is then left in the eventfd.
CheckOpen(c) ==
  LET t == sess[c].thd IN
  /\ sess[c].pc = "check" /\ ~Locked(thds[t].entry)
  /\ IF thds[t].waitForOpen
     THEN /\ sess' = [sess EXCEPT ![c].pc = "open"]
          /\ UNCHANGED <<entries, thds, rw, handles>>
     ELSE /\ EndOpen(c, t, thds[t].err)
          /\ sess' = [sess EXCEPT ![c] = Idle(@)]
  /\ UNCHANGED <<data, hung, stop>>

\* thd_entry_event_wait returns an event.
OpenWait(c) ==
  LET t == sess[c].thd IN
  /\ sess[c].pc = "open" /\ thds[t].event /\ ~Gone(c) /\ ~Locked(thds[t].entry)
  /\ IF thds[t].waitForOpen
     THEN /\ thds' = [thds EXCEPT ![t].event = FALSE]
          /\ UNCHANGED <<entries, rw, sess, handles>>
     ELSE /\ sess' = [sess EXCEPT ![c] = Idle(@)]
          /\ IF thds[t].err < 0
             THEN EndOpen(c, t, thds[t].err)
             ELSE /\ handles' = [handles EXCEPT ![c] = <<t>> \o @]
                  /\ thds' = [thds EXCEPT ![t].event = FALSE]
                  /\ UNCHANGED <<entries, rw>>
  /\ UNCHANGED <<data, hung, stop>>

\* thd_entry_event_wait returns -EPIPE.
OpenBroken(c) ==
  LET t == sess[c].thd IN
  /\ sess[c].pc = "open" /\ Gone(c)
  /\ EndOpen(c, t, Failed)
  /\ sess' = [sess EXCEPT ![c] = Idle(@)]
  /\ UNCHANGED <<data, hung, stop>>

\* The bytes a client's buffer holds, which is what it asks for at a time.
Request(t) == thds[t].count * SampleSize(thds[t].mask)

\* The head of rw_buffer: the request is measured against the samples of the entry
\* without its lock.  One that is smaller than a sample is answered at once and changes
\* nothing.  A client that waits for more asks for nothing.
Measure(c) ==
  LET t == Head(handles[c]) IN
  /\ sess[c].pc = "idle" /\ handles[c] # <<>> /\ ~Gone(c) /\ sess[c].left = 0
  /\ Request(t) >= entries[thds[t].entry].size
  /\ sess' = [sess EXCEPT ![c].pc = "ask", ![c].thd = t]
  /\ UNCHANGED <<data, entries, thds, rw, handles, hung, stop>>

\* Mutant: the thread of the entry is not told.
Rw_NoSignal(c) ==
  LET t == sess[c].thd
      e == thds[t].entry
  IN
  /\ sess[c].pc = "ask" /\ ~Locked(e)
  /\ IF entries[e].closed \/ thds[t].nb # 0
     THEN sess' = [sess EXCEPT ![c] = Idle(@)] /\ UNCHANGED thds
     ELSE /\ thds' = [thds EXCEPT ![t].newClient = TRUE, ![t].nb = Request(t), ![t].err = 0,
                                  ![t].active = TRUE]
          /\ sess' = [sess EXCEPT ![c].pc = "rw", ![c].nb = Request(t), ![c].extra = FALSE,
                                  ![c].left = IF thds[t].writer THEN 2 ELSE Request(t)]
  /\ UNCHANGED <<data, entries, rw, handles, hung, stop>>

\* rw_buffer under the lock, up to the wait.  A request that is refused there (-EBADF on
\* a closed entry, -EBUSY when the last one left something) is answered at once.
Rw(c) ==
  LET t == sess[c].thd
      e == thds[t].entry
  IN
  /\ sess[c].pc = "ask" /\ ~Locked(e)
  /\ IF entries[e].closed \/ thds[t].nb # 0
     THEN sess' = [sess EXCEPT ![c] = Idle(@)] /\ UNCHANGED <<thds, rw>>
     ELSE /\ thds' = [thds EXCEPT ![t].newClient = TRUE, ![t].nb = Request(t), ![t].err = 0,
                                  ![t].active = TRUE]
          /\ rw' = Woken(e)
          /\ sess' = [sess EXCEPT ![c].pc = "rw", ![c].nb = Request(t), ![c].extra = FALSE,
                                  ![c].left = IF thds[t].writer THEN 2 ELSE Request(t)]
  /\ UNCHANGED <<data, entries, handles, hung, stop>>

\* A line that is not data (print_value of 0, an error or the result of a write):
\* for a reader it ends the answer, a writer waits for two of them.
Line(s, writer) ==
  IF s.left = 0 THEN [s EXCEPT !.extra = TRUE]
  ELSE [s EXCEPT !.left = IF writer THEN @ - 1 ELSE 0]

LastLine(s) == IF s.left = 0 THEN [s EXCEPT !.extra = TRUE] ELSE [s EXCEPT !.left = 0]

\* Mutant: the line that ends a short answer is forgotten.
Answered_NoZero(s, ret, writer) ==
  LET result == IF ret < 0 THEN ret ELSE s.nb - ret
  IN IF result < 0 THEN LastLine(s)
     ELSE IF result = 0 \/ writer THEN Line(s, writer) ELSE s

\* The lines with which rw_buffer and rw_dev end an answer.  A writer takes the first
\* line that is no error as the leave to send its data, whatever it was printed for.
Answered(s, ret, writer) ==
  LET short == IF ret \in 1 .. s.nb - 1 THEN Line(s, writer) ELSE s
      result == IF ret < 0 THEN ret ELSE s.nb - ret
  IN IF result < 0 THEN LastLine(short)
     ELSE IF result = 0 \/ writer THEN Line(short, writer) ELSE short

\* rw_buffer woken by an event.  What the request leaves in the handle is never
\* looked at again.
RwWait(c) ==
  LET t == sess[c].thd IN
  /\ sess[c].pc = "rw" /\ thds[t].event /\ ~Gone(c) /\ ~Locked(thds[t].entry)
  /\ IF thds[t].active
     THEN thds' = [thds EXCEPT ![t].event = FALSE] /\ UNCHANGED sess
     ELSE /\ thds' = [thds EXCEPT ![t].event = FALSE, ![t].err = 0, ![t].header = {},
                                  ![t].newClient = FALSE]
          /\ sess' = [sess EXCEPT ![c] = Idle(Answered(@, thds[t].err, thds[t].writer))]
  /\ UNCHANGED <<data, entries, rw, handles, hung, stop>>

\* rw_buffer left with -EPIPE: the handle stays active and in its list.
RwBroken(c) ==
  LET t == sess[c].thd IN
  /\ sess[c].pc = "rw" /\ Gone(c) /\ ~Locked(thds[t].entry)
  /\ sess' = [sess EXCEPT ![c] = Idle(LastLine(@))]
  /\ UNCHANGED <<data, entries, thds, rw, handles, hung, stop>>

\* close_dev.  The client shuts its connection down after it, and what it waited for or
\* left unread ends there.
Close(c) ==
  LET t == Head(handles[c]) IN
  /\ sess[c].pc = "idle" /\ handles[c] # <<>>
  /\ RemoveThd(t)
  /\ thds' = [thds EXCEPT ![t] = NewThd]
  /\ handles' = [handles EXCEPT ![c] = Tail(@)]
  /\ sess' = [sess EXCEPT ![c].left = 0, ![c].extra = FALSE]
  /\ UNCHANGED <<data, hung, stop>>

\* The interpreter ends (EXIT, end of file, the stop event) and closes the device.
EndSession(c) ==
  /\ sess[c].pc = "idle"
  /\ sess' = [sess EXCEPT ![c] = NoSession]
  /\ hung' = [hung EXCEPT ![c] = FALSE]
  /\ IF handles[c] = <<>>
     THEN UNCHANGED <<entries, thds, rw, handles>>
     ELSE LET t == Head(handles[c]) IN
          /\ RemoveThd(t)
          /\ thds' = [thds EXCEPT ![t] = NewThd]
          /\ handles' = [handles EXCEPT ![c] = Tail(@)]
  /\ UNCHANGED <<data, stop>>

\* The pool is stopped.
Stop ==
  /\ ~stop
  /\ stop' = TRUE
  /\ UNCHANGED <<data, entries, thds, rw, sess, handles, hung>>

-----------------------------------------------------------------------------
(* The thread of an entry. *)

\* A closed entry: of the rest nobody takes notice any more.
Closed(entry) ==
  [NewEntry EXCEPT !.ref = entry.ref, !.cyclic = entry.cyclic, !.closed = TRUE]

\* Mutant: the buffer is destroyed only when the thread has left.
LeaveLoop_KeepsBuffer(e, ret) ==
  /\ thds' = [t \in Handles |->
       IF t \in entries[e].list
       THEN [Signalled(thds[t], ret) EXCEPT !.waitForOpen = FALSE] ELSE thds[t]]
  /\ entries' = [entries EXCEPT ![e] = [Closed(@) EXCEPT !.buf = entries[e].buf]]
  /\ rw' = [rw EXCEPT ![e] = At("leave")]

\* The end of rw_thd: whoever is still there learns of the error, the buffer goes.
LeaveLoop(e, ret) ==
  /\ thds' = [t \in Handles |->
       IF t \in entries[e].list
       THEN [Signalled(thds[t], ret) EXCEPT !.waitForOpen = FALSE] ELSE thds[t]]
  /\ entries' = [entries EXCEPT ![e] = Closed(@)]
  /\ rw' = [rw EXCEPT ![e] = At("leave")]

ListEmpty(e) ==
  /\ rw[e].pc = "top" /\ entries[e].list = {}
  /\ LeaveLoop(e, 0)
  /\ UNCHANGED <<data, sess, handles, hung, stop>>

\* iio_device_create_buffer fails.
CreateFails(e) ==
  /\ rw[e].pc = "top" /\ entries[e].list # {} /\ entries[e].updateMask
  /\ LeaveLoop(e, Failed)
  /\ UNCHANGED <<data, sess, handles, hung, stop>>

\* The entry after its mask was brought up to date and its buffer made anew.
Updated(entry) ==
  LET mask == UNION {thds[t].mask : t \in entry.list} IN
  IF ~entry.updateMask THEN entry
  ELSE [entry EXCEPT !.mask = mask, !.buf = TRUE, !.cancelled = FALSE,
                     !.updateMask = FALSE, !.size = SampleSize(mask),
                     !.count = Max({thds[t].count : t \in entry.list})]

\* Mutant: an answer under way goes on under the new mask.
Refreshed_GoesOn(thd, entry, updated) ==
  LET opened == IF updated /\ thd.waitForOpen
                THEN [Signalled(thd, 0) EXCEPT !.waitForOpen = FALSE] ELSE thd
      ready == opened.err = 0 /\ opened.nb >= entry.size
  IN [opened EXCEPT !.active = ready]

\* A handle after the head of the loop: one that waits for the buffer has it, one
\* with an answer under way is told to start again under the new mask.
Refreshed(thd, entry, updated) ==
  LET opened == IF updated /\ thd.waitForOpen
                THEN [Signalled(thd, 0) EXCEPT !.waitForOpen = FALSE] ELSE thd
      ready == opened.err = 0 /\ opened.nb >= entry.size
  IN IF ready /\ updated THEN Signalled(opened, opened.nb)
     ELSE [opened EXCEPT !.active = ready]

Iterate(e) ==
  LET entry == Updated(entries[e])
      after == [t \in Handles |->
        IF t \in entry.list THEN Refreshed(thds[t], entry, entries[e].updateMask)
        ELSE thds[t]]
      active(write) == \E t \in entry.list : after[t].active /\ after[t].writer = write
      next == IF active(FALSE) THEN "refill" ELSE IF active(TRUE) THEN "push" ELSE "asleep"
  IN
  /\ rw[e].pc = "top" /\ entries[e].list # {}
  /\ entries' = [entries EXCEPT ![e] = entry]
  /\ thds' = after
  /\ rw' = [rw EXCEPT ![e] = IF next = "asleep" THEN At(next) ELSE
                 [pc |-> next, writers |-> active(TRUE), size |-> entry.size]]
  /\ UNCHANGED <<data, sess, handles, hung, stop>>

\* iio_buffer_refill ends, and the buffer was cancelled meanwhile.
RefillCancelled(e) ==
  /\ rw[e].pc = "refill" /\ entries[e].cancelled
  /\ rw' = [rw EXCEPT ![e] = At("top")]
  /\ UNCHANGED <<data, entries, thds, sess, handles, hung, stop>>

\* iio_buffer_refill fails: every reader learns of it.
RefillFails(e) ==
  /\ rw[e].pc = "refill" /\ ~entries[e].cancelled
  /\ thds' = [t \in Handles |->
       IF t \in entries[e].list /\ thds[t].active /\ ~thds[t].writer
       THEN Signalled(thds[t], Failed) ELSE thds[t]]
  /\ rw' = [rw EXCEPT ![e] = At("top")]
  /\ UNCHANGED <<data, entries, sess, handles, hung, stop>>

\* What a reader has after len bytes of the buffer were offered to it.
Given(thd, entry, len, size, c) ==
  LET sent == [thd EXCEPT !.nb = @ - ToSend(entry, thd, len), !.newClient = FALSE,
                          !.header = Header(entry, thd)]
  IN IF Gone(c) THEN Signalled(thd, Failed)
     ELSE IF sent.nb < size THEN Signalled(sent, sent.nb) ELSE sent

\* iio_buffer_refill returns len bytes, which go to every reader.
Refill(e, len) ==
  LET readers == {t \in entries[e].list : thds[t].active /\ ~thds[t].writer}
      given == [t \in readers |->
                 Given(thds[t], entries[e], len, rw[e].size, t[1])]
  IN
  /\ rw[e].pc = "refill" /\ ~entries[e].cancelled
  /\ thds' = [t \in Handles |-> IF t \in readers THEN given[t] ELSE thds[t]]
  /\ sess' = [c \in Clients |->
       IF sess[c].pc = "rw" /\ sess[c].thd \in readers
       THEN [sess[c] EXCEPT !.left =
              IF Gone(c) THEN @ ELSE @ - ToSend(entries[e], thds[sess[c].thd], len)]
       ELSE sess[c]]
  /\ rw' = [rw EXCEPT ![e] = IF @.writers THEN [@ EXCEPT !.pc = "push"] ELSE At("top")]
  /\ UNCHANGED <<data, entries, handles, hung, stop>>

\* What a writer asks for after its data was taken, and when the buffer is pushed.
Taken(thd, entry, c) ==
  IF Gone(c) THEN Signalled(thd, Failed)
  ELSE [thd EXCEPT !.nb = @ - ToReceive(entry, thd), !.newClient = FALSE]

Pushed(thd, ok, size) ==
  IF ~thd.active THEN thd
  ELSE IF ~ok THEN Signalled(thd, Failed)
  ELSE IF thd.nb < size THEN Signalled(thd, thd.nb) ELSE thd

\* The thread takes the lock for receive_data and iio_buffer_push_partial.
PushBegins(e) ==
  /\ rw[e].pc = "push"
  /\ rw' = [rw EXCEPT ![e].pc = "pushing"]
  /\ UNCHANGED <<data, entries, thds, sess, handles, hung, stop>>

\* Data of every writer was mixed into the buffer, and its push ends, which it need not
\* do; ok tells whether it succeeded.
Push(e, ok) ==
  LET writers == {t \in entries[e].list : thds[t].active /\ thds[t].writer}
      taken == [t \in writers |-> Taken(thds[t], entries[e], t[1])]
  IN
  /\ rw[e].pc = "pushing"
  /\ thds' = [t \in Handles |->
       IF t \notin writers THEN thds[t]
       ELSE IF entries[e].cancelled THEN taken[t]
       ELSE Pushed(taken[t], ok, rw[e].size)]
  /\ sess' = [c \in Clients |->
       IF /\ sess[c].pc = "rw" /\ sess[c].thd \in writers
          /\ thds[sess[c].thd].newClient /\ ~Gone(c)
       THEN Line(sess[c], TRUE) ELSE sess[c]]
  /\ rw' = [rw EXCEPT ![e] = At("top")]
  /\ UNCHANGED <<data, entries, handles, hung, stop>>

\* The last steps of rw_thd, under devlist_lock: a newer entry is not overwritten.
Leave(e) ==
  /\ rw[e].pc = "leave"
  /\ data' = IF data = e THEN NoEntry ELSE data
  /\ entries' = [entries EXCEPT ![e] = Put(@)]
  /\ rw' = [rw EXCEPT ![e] = At("none")]
  /\ UNCHANGED <<thds, sess, handles, hung, stop>>

\* A refill brings half a buffer or a full one.
Lengths(e) == {entries[e].size * n : n \in {(entries[e].count + 1) \div 2, entries[e].count}}

Session(c) ==
  \/ CheckOpen(c) \/ OpenWait(c) \/ OpenBroken(c) \/ Rw(c) \/ RwWait(c) \/ RwBroken(c)

Thread(e) ==
  \/ ListEmpty(e) \/ Iterate(e) \/ RefillCancelled(e) \/ PushBegins(e) \/ Leave(e)

Delivery(e) == \E len \in Lengths(e) : Refill(e, len)

Next ==
  \/ \E c \in Clients :
       \/ Connect(c) \/ Hangup(c) \/ Session(c) \/ Close(c) \/ EndSession(c)
       \/ \E k \in 1 .. MaxOpens, b \in Buffers[c] : OpenJoin(c, k, b) \/ OpenNew(c, k, b)
       \/ Measure(c)
  \/ \E e \in EntryIds : Thread(e) \/ Delivery(e) \/ CreateFails(e)
                         \/ RefillFails(e) \/ Push(e, TRUE) \/ Push(e, FALSE)
  \/ Stop

\* Threads are scheduled and a cancelled refill returns, but neither a refill nor a push
\* need ever end; a session whose client is gone, or that the stop event reached, ends.
Fairness ==
  /\ \A c \in Clients : WF_vars(Session(c)) /\ WF_vars(Gone(c) /\ EndSession(c))
  /\ \A e \in EntryIds : WF_vars(Thread(e))

Spec == Init /\ [][Next]_vars /\ Fairness

-----------------------------------------------------------------------------
(* Properties. *)

Channels == UNION {UNION {b.mask : b \in Buffers[c]} : c \in Clients}
Masks == {mask \in SUBSET Channels : IsFiniteSet(mask)}

DevEntry ==
  [ref : Nat, list : SUBSET Handles, buf : BOOLEAN, mask : Masks, size : Nat,
   count : Nat, updateMask : BOOLEAN, cyclic : BOOLEAN, closed : BOOLEAN,
   cancelled : BOOLEAN]

ThdEntry ==
  [used : BOOLEAN, entry : EntryIds \cup {NoEntry}, mask : Masks, count : Nat,
   nb : Nat, err : Nat \cup {Failed}, event : BOOLEAN, active : BOOLEAN,
   writer : BOOLEAN, newClient : BOOLEAN, waitForOpen : BOOLEAN, header : Masks]

RwThd ==
  [pc : {"none", "top", "asleep", "refill", "push", "pushing", "leave"},
   writers : BOOLEAN, size : Nat]

Interpreter ==
  [pc : {"off", "idle", "check", "open", "ask", "rw"}, thd : Handles \cup {<<>>},
   nb : Nat, left : Int, extra : BOOLEAN]

TypeOK ==
  /\ data \in EntryIds \cup {NoEntry}
  /\ entries \in [EntryIds -> DevEntry]
  /\ thds \in [Handles -> ThdEntry]
  /\ rw \in [EntryIds -> RwThd]
  /\ sess \in [Clients -> Interpreter]
  /\ handles \in [Clients -> Seq(Handles)]
  /\ hung \in [Clients -> BOOLEAN]
  /\ stop \in BOOLEAN

\* The references of an entry are its thread and the handles on it, so that it is
\* freed when nobody can reach it any more (ref_count of dev_entry_put), and the
\* entry new clients are sent to is not a freed one.
ReferencesAreCounted ==
  /\ \A e \in EntryIds :
       entries[e].ref = Cardinality({t \in Handles : thds[t].entry = e})
                        + (IF rw[e].pc = "none" THEN 0 ELSE 1)
  /\ data # NoEntry => rw[data].pc # "none"

\* Two entries never have the buffer of the device at the same time, although the
\* thread of an old one may still be leaving when a new one starts (rw_thd).
OneBuffer ==
  \A e, f \in EntryIds : entries[e].buf /\ entries[f].buf => e = f

\* When the daemon is back at reading commands, the client has read its answer to
\* the end and no line more: the two agree where the next answer starts (rw_dev,
\* rw_buffer, send_data).  Except, when the mask changed or the buffer could not be
\* made again while the answer was under way:
\*   - a request that became smaller than a sample is dropped without a line, and
\*     what it asked for, or its result, stays in the handle;
\*   - a writer answered before it sent its data takes that for the leave to send it;
\*   - a request already answered may still be in the list of the thread that leaves,
\*     and is given the error as a second answer.
AnswersInStep ==
  \A c \in Clients : sess[c].pc = "idle" /\ ~Gone(c) =>
    /\ sess[c].left # 0 => \E t \in Range(handles[c]) :
         thds[t].nb # 0 \/ thds[t].err # 0 \/ (thds[t].writer /\ sess[c].left = 1)
    /\ sess[c].extra => \E t \in Range(handles[c]) : entries[thds[t].entry].closed

\* The data of an answer was all taken under the mask that was sent at its head:
\* a client that joins or leaves in the middle does not change the layout of the
\* samples another one is reading (mask_updated in rw_thd).
OneMaskPerAnswer ==
  [][\A c \in Clients : LET t == sess[c].thd IN
       sess[c].pc = "rw" /\ ~thds[t].writer /\ sess'[c].pc = "rw" /\ sess'[c].left < sess[c].left =>
         /\ thds[t].mask \subseteq entries[thds[t].entry].mask
         /\ Demux \/ thds'[t].header = entries[thds[t].entry].mask]_vars

\* A request of which less than a sample of the entry is left, because the mask grew while
\* it was under way or since it was measured: rw_thd takes it off without a word, until the
\* mask changes again.
Outgrown(t) == ~thds[t].active /\ thds[t].nb \in 1 .. entries[thds[t].entry].size - 1

\* No wakeup is lost between the sessions, the eventfds and the condition variable:
\* a session that waits and has no event coming is in the list of its entry, whose
\* thread has still to serve it and is not asleep, or it waits for the mask to change.
NoLostWakeup ==
  \A c \in Clients : LET t == sess[c].thd IN
    sess[c].pc \in {"open", "rw"} /\ ~thds[t].event =>
      /\ t \in entries[thds[t].entry].list
      /\ sess[c].pc = "open" => thds[t].waitForOpen
      /\ sess[c].pc = "rw" => thds[t].active \/ Outgrown(t)
      /\ ~Outgrown(t) => rw[thds[t].entry].pc \in {"top", "refill", "push", "pushing"}

\* After a stop all sessions and all threads end, even if the device never delivers
\* another sample: the last client to leave cancels the refill (remove_thd_entry).
\* Unless a push never ends: it holds the lock without which nobody can leave.
StopEndsAll ==
  (\A e \in EntryIds : []<>~Locked(e)) =>
    (stop ~> /\ \A c \in Clients : sess[c].pc = "off"
             /\ \A e \in EntryIds : rw[e].pc = "none")

=============================================================================
