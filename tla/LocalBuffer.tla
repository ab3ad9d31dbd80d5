------------------------------ MODULE LocalBuffer ------------------------------
(***************************************************************************)
(* The buffers of the local backend (local.c) and the functions of         *)
(* buffer.c and device.c that a program uses them through.                 *)
(*                                                                         *)
(* One thread creates, fills or empties, and destroys buffers of a device; *)
(* another may cancel the buffer at any point of that.  The kernel's side  *)
(* is external: a driver with or without the high-speed interface, whose   *)
(* blocks go from the program to the driver (ENQUEUE) and back (DEQUEUE),  *)
(* or a FIFO that is read and written.  Any system call may fail.          *)
(*                                                                         *)
(* Time is counted in units of the shortest timeout, and only while the    *)
(* thread sleeps in poll.                                                  *)
(***************************************************************************)
EXTENDS Integers, FiniteSets

CONSTANTS
  Length,       \* samples of a buffer
  MaxBlocks,    \* the largest number of kernel buffers asked for
  Timeouts,     \* the values given to iio_context_set_timeout; 0 is none
  Channels      \* the channels of the device that can be in a scan

ASSUME LocalAssumption ==
  /\ Length \in Nat \ {0} /\ MaxBlocks \in Nat \ {0} /\ Channels # {}
  /\ IsFiniteSet(Channels)
  /\ Timeouts \subseteq Nat /\ IsFiniteSet(Timeouts) /\ Timeouts # {}

VARIABLES
  hw,       \* the device: whether an input, whether high-speed
  kern,     \* the driver: buffer/enable, channels enabled, who holds each block,
            \* samples in its FIFO, descriptors and mappings the program has of it
  dev,      \* iio_device_pdata, and the channels enabled in the library
  buf,      \* the iio_buffer, if there is one
  call,     \* where the thread is in a call
  limit,    \* rw_timeout_ms
  last      \* what the call that this step ends has returned, if any

vars == <<hw, kern, dev, buf, call, limit, last>>

BlockIds == 0 .. MaxBlocks - 1

Fifo == Length + 1

NoBuffer == [made |-> FALSE, ptr |-> -1, data_length |-> Length, owed |-> 0]
NoCall == [op |-> "none", at |-> "idle", left |-> 0, moved |-> 0, whole |-> 0,
           spent |-> 0, budget |-> 0, late |-> FALSE, gave |-> FALSE]
NoResult == [op |-> "none", ret |-> "none", n |-> 0, moved |-> 0, late |-> FALSE,
             gave |-> FALSE]

Init ==
  /\ hw \in [input : BOOLEAN, hs : BOOLEAN]
  /\ kern = [enabled |-> FALSE, chans |-> {}, holder |-> [b \in BlockIds |-> "none"],
             fifo |-> 0, fds |-> 0, maps |-> 0]
  /\ dev = [open |-> FALSE, cancel |-> "none", blocking |-> TRUE, cyclic |-> FALSE,
            enqueued |-> FALSE, is_hs |-> FALSE, max |-> MaxBlocks, blocks |-> 0,
            last |-> -1, mask |-> {}]
  /\ buf = NoBuffer
  /\ call = NoCall
  /\ limit \in Timeouts
  /\ last = NoResult

-----------------------------------------------------------------------------
(* Helpers. *)

\* get_rel_timeout_ms: how long the next poll may take; -1 is for ever.
get_rel_timeout(spent) ==
  IF limit = 0 THEN -1 ELSE IF spent >= limit THEN 0 ELSE limit - spent

Held(who) == {b \in BlockIds : kern.holder[b] = who}

\* What poll looks at.
Ready ==
  CASE dev.is_hs -> Held("done") # {}
    [] ~dev.is_hs /\ hw.input -> kern.fifo > 0
    [] OTHER -> kern.fifo < Fifo

Idle == call.at = "idle"

Output == {"push", "push_partial"}

\* The result of the call c: "late" when the buffer had been cancelled before it began,
\* "gave" when it has given the driver a block that is to come back.
Result(c, ret, n) ==
  [op |-> c.op, ret |-> ret, n |-> n, moved |-> c.moved + c.whole, late |-> c.late,
   gave |-> c.gave]

\* The call returns; a push, whatever became of it, sets data_length back.
Return(ret, n) == call' = NoCall /\ last' = Result(call, ret, n)

-----------------------------------------------------------------------------
(* Opening and closing. *)

\* local_close.  A step that fails does not keep the others from being taken.
Closed(d, k, fails) ==
  [d |-> [d EXCEPT !.open = FALSE, !.cancel = "none",
                   !.blocks = IF d.is_hs THEN 0 ELSE @],
   k |-> [k EXCEPT !.fds = 0, !.fifo = 0,
                   !.maps = IF d.is_hs THEN @ - d.blocks ELSE @,
                   !.holder = IF d.is_hs THEN [b \in BlockIds |-> "none"] ELSE @,
                   !.enabled = IF "disable" \in fails THEN @ ELSE FALSE,
                   !.chans = IF "channels" \in fails THEN @ ELSE {}]]

\* enable_high_speed, when the driver has granted n blocks: each is enqueued and mapped.
Mapped(k, n) ==
  [k EXCEPT !.maps = n, !.holder = [b \in BlockIds |-> IF b < n THEN "queued" ELSE "none"]]

\* Mutant: the unwinding stops one block short.
Unwound_Short(k, i) ==
  [k EXCEPT !.maps = @ - Cardinality(1 .. i - 1), !.holder = [b \in BlockIds |-> "none"]]

\* The block after the i-th could not be had: those before it are unmapped, all are freed.
Unwound(k, i) ==
  [k EXCEPT !.maps = @ - Cardinality(1 .. i), !.holder = [b \in BlockIds |-> "none"]]

\* The two descriptors are there and nothing else has been done.
HalfOpen ==
  [d |-> [dev EXCEPT !.open = TRUE, !.cancel = "quiet"],
   k |-> [kern EXCEPT !.enabled = FALSE, !.fds = 2, !.fifo = 0]]

\* Up to the step that enables the buffer, with n blocks where there are any.
Prepared(cyclic, n) ==
  LET k == [HalfOpen.k EXCEPT !.chans = dev.mask]
  IN [d |-> [HalfOpen.d EXCEPT !.cyclic = cyclic, !.enqueued = FALSE, !.is_hs = hw.hs,
                               !.blocks = IF hw.hs THEN n ELSE @,
                               !.last = IF hw.hs THEN -1 ELSE @],
      k |-> IF hw.hs THEN Mapped(k, n) ELSE k]

\* The blocks that the driver may grant.
Granted(cyclic) == IF ~hw.hs \/ cyclic THEN {1} ELSE 1 .. dev.max

\* local_open: what it leaves when it succeeds.
Opened(cyclic) ==
  IF cyclic /\ ~hw.hs THEN {}
  ELSE {[d |-> o.d, k |-> [o.k EXCEPT !.enabled = TRUE]] :
          o \in {Prepared(cyclic, n) : n \in Granted(cyclic)}}

\* The states in which it gives up with the device open.  When enable_high_speed fails,
\* is_high_speed is what it was for the buffer before.
OpenBroken(cyclic) ==
  LET tried == [HalfOpen.d EXCEPT !.cyclic = cyclic, !.enqueued = FALSE]
      set == [HalfOpen.k EXCEPT !.chans = dev.mask]
  IN {[d |-> HalfOpen.d, k |-> [HalfOpen.k EXCEPT !.chans = c]] :
        c \in SUBSET (kern.chans \cup dev.mask)}
     \cup {Prepared(cyclic, n) : n \in Granted(cyclic)}
     \cup {[d |-> tried, k |-> Unwound(Mapped(set, i), i)] :
             i \in IF hw.hs THEN {n - 1 : n \in Granted(cyclic)} ELSE {}}

\* What it leaves when it fails: before there is a descriptor, without the one of the
\* buffer (the number of the cancel descriptor is kept, though it is closed), or closed.
OpenFailed(cyclic) ==
  {[d |-> dev, k |-> [kern EXCEPT !.enabled = e]] : e \in {kern.enabled, FALSE}}
  \cup {[d |-> [dev EXCEPT !.cancel = "stale"], k |-> [kern EXCEPT !.enabled = FALSE]]}
  \cup {Closed(o.d, o.k, f) : o \in OpenBroken(cyclic), f \in SUBSET {"disable", "channels"}}

\* iio_device_create_buffer.  Of an output with blocks the first is dequeued at once.
Create(cyclic) ==
  /\ Idle /\ ~buf.made /\ (cyclic => ~hw.input)
  /\ \/ /\ dev.mask = {}
        /\ last' = [NoResult EXCEPT !.op = "create", !.ret = "EINVAL"]
        /\ UNCHANGED <<kern, dev, buf, call>>
     \/ /\ dev.mask # {}
        /\ \E o \in OpenFailed(cyclic) : dev' = o.d /\ kern' = o.k
        /\ last' = [NoResult EXCEPT !.op = "create", !.ret = "EIO"]
        /\ UNCHANGED <<buf, call>>
     \/ /\ dev.mask # {}
        /\ \E o \in Opened(cyclic) :
             /\ dev' = o.d /\ kern' = o.k
             /\ IF o.d.is_hs /\ ~hw.input
                THEN /\ call' = [NoCall EXCEPT !.op = "create", !.at = "check"]
                     /\ last' = NoResult
                     /\ UNCHANGED buf
                ELSE /\ buf' = [NoBuffer EXCEPT !.made = TRUE]
                     /\ last' = [NoResult EXCEPT !.op = "create", !.ret = "ok"]
                     /\ UNCHANGED call
     \/ /\ dev.mask # {} /\ ~hw.hs
        /\ \E o \in Opened(cyclic), f \in SUBSET {"disable", "channels"} :
             LET c == Closed(o.d, o.k, f) IN dev' = c.d /\ kern' = c.k
        /\ last' = [NoResult EXCEPT !.op = "create", !.ret = "ENOMEM"]
        /\ UNCHANGED <<buf, call>>
  /\ UNCHANGED <<hw, limit>>

\* iio_buffer_destroy.
Destroy ==
  /\ Idle /\ buf.made
  /\ \E f \in SUBSET {"disable", "channels"} :
       LET c == Closed(dev, kern, f) IN dev' = c.d /\ kern' = c.k
  /\ buf' = NoBuffer
  /\ last' = NoResult
  /\ UNCHANGED <<hw, call, limit>>

-----------------------------------------------------------------------------
(* Settings. *)

\* iio_channel_enable and iio_channel_disable, before there is a buffer.
Choose(mask) ==
  /\ Idle /\ ~buf.made
  /\ dev' = [dev EXCEPT !.mask = mask]
  /\ last' = NoResult
  /\ UNCHANGED <<hw, kern, buf, call, limit>>

\* local_set_kernel_buffers_count.
SetKernelBuffers(n) ==
  /\ Idle
  /\ IF dev.open
     THEN last' = [NoResult EXCEPT !.op = "count", !.ret = "EBUSY"] /\ UNCHANGED dev
     ELSE last' = NoResult /\ dev' = [dev EXCEPT !.max = n]
  /\ UNCHANGED <<hw, kern, buf, call, limit>>

\* local_set_blocking_mode.  The mode outlives the buffer.
SetBlocking(blocking) ==
  /\ Idle /\ buf.made
  /\ IF dev.cyclic
     THEN last' = [NoResult EXCEPT !.op = "blocking", !.ret = "EPERM"] /\ UNCHANGED dev
     ELSE last' = NoResult /\ dev' = [dev EXCEPT !.blocking = blocking]
  /\ UNCHANGED <<hw, kern, buf, call, limit>>

\* local_set_timeout.
SetTimeout(timeout) ==
  /\ Idle
  /\ limit' = timeout
  /\ last' = NoResult
  /\ UNCHANGED <<hw, kern, dev, buf, call>>

\* local_cancel, by another thread.  Nothing ever reads the event.
Cancel ==
  /\ buf.made
  /\ dev' = [dev EXCEPT !.cancel = "signalled"]
  /\ last' = NoResult
  /\ UNCHANGED <<hw, kern, buf, call, limit>>

-----------------------------------------------------------------------------
(* Refill and push. *)

Begin(op, want) ==
  [NoCall EXCEPT !.op = op, !.at = IF dev.is_hs THEN "enqueue" ELSE "check",
                 !.left = want, !.late = dev.cancel = "signalled"]

\* iio_buffer_refill.
Refill ==
  /\ Idle /\ buf.made /\ hw.input
  /\ call' = Begin("refill", Length)
  /\ last' = NoResult
  /\ UNCHANGED <<hw, kern, dev, buf, limit>>

\* iio_buffer_push, and iio_buffer_push_partial which sets data_length before it.
Push ==
  /\ Idle /\ buf.made /\ ~hw.input
  /\ \/ call' = Begin("push", buf.data_length) /\ UNCHANGED buf
     \/ \E n \in 1 .. Length :
          /\ call' = Begin("push_partial", n)
          /\ buf' = [buf EXCEPT !.data_length = n]
  /\ last' = NoResult
  /\ UNCHANGED <<hw, kern, dev, limit>>

\* What of the buffer a call has changed when it returns.
AfterCall(b) == IF call.op \in Output THEN [b EXCEPT !.data_length = Length] ELSE b

\* Mutant: a call that fails takes back the block it has enqueued, to enqueue it again.
Fail_TakesBack(ret) ==
  /\ Return(ret, 0)
  /\ buf' = AfterCall(buf)
  /\ IF call.op = "create"
     THEN \E f \in SUBSET {"disable", "channels"} :
            LET c == Closed(dev, kern, f) IN dev' = c.d /\ kern' = c.k
     ELSE dev' = [dev EXCEPT !.last = IF call.gave THEN buf.ptr ELSE @] /\ UNCHANGED kern

\* The call fails.  A buffer that cannot get its first block is not made.
Fail(ret) ==
  /\ Return(ret, 0)
  /\ buf' = AfterCall(buf)
  /\ IF call.op = "create"
     THEN \E f \in SUBSET {"disable", "channels"} :
            LET c == Closed(dev, kern, f) IN dev' = c.d /\ kern' = c.k
     ELSE UNCHANGED <<dev, kern>>

\* Mutant: the block given to the driver is still taken for the one that is held.
Enqueue_KeepsLast ==
  /\ call.at = "enqueue" /\ dev.last >= 0 /\ ~dev.cyclic
  /\ kern.holder[dev.last] = "app"
  /\ kern' = [kern EXCEPT !.holder[dev.last] = "queued"]
  /\ buf' = IF call.op \in Output THEN [buf EXCEPT !.owed = @ + 1] ELSE buf
  /\ call' = [call EXCEPT !.at = "check", !.gave = TRUE]
  /\ last' = NoResult
  /\ UNCHANGED <<hw, dev, limit>>

\* local_get_buffer: the block that the program holds goes to the driver.
Enqueue ==
  /\ call.at = "enqueue" /\ dev.last >= 0 /\ ~dev.cyclic
  /\ kern.holder[dev.last] = "app"
  /\ kern' = [kern EXCEPT !.holder[dev.last] = "queued"]
  /\ dev' = [dev EXCEPT !.last = -1]
  /\ buf' = IF call.op \in Output THEN [buf EXCEPT !.owed = @ + 1] ELSE buf
  /\ call' = [call EXCEPT !.at = "check", !.gave = TRUE]
  /\ last' = NoResult
  /\ UNCHANGED <<hw, limit>>

\* The driver does not take it.  A cyclic buffer counts as enqueued all the same.
EnqueueFails ==
  /\ call.at = "enqueue" /\ dev.last >= 0 /\ ~(dev.cyclic /\ dev.enqueued)
  /\ dev' = [dev EXCEPT !.enqueued = dev.cyclic]
  /\ buf' = AfterCall(buf)
  /\ Return("EIO", 0)
  /\ UNCHANGED <<hw, kern, limit>>

\* The one block of a cyclic buffer, which the driver keeps.
EnqueueCyclic ==
  /\ call.at = "enqueue" /\ dev.last >= 0 /\ dev.cyclic
  /\ IF dev.enqueued
     THEN Return("EBUSY", 0) /\ UNCHANGED <<kern, dev>>
     ELSE /\ kern' = [kern EXCEPT !.holder[dev.last] = "queued"]
          /\ dev' = [dev EXCEPT !.enqueued = TRUE]
          /\ Return("ok", buf.data_length)
  /\ buf' = AfterCall(buf)
  /\ UNCHANGED <<hw, limit>>

\* A call that failed after its block was enqueued is tried again: nothing to enqueue.
NothingToEnqueue ==
  /\ call.at = "enqueue" /\ dev.last < 0
  /\ call' = [call EXCEPT !.at = "check"]
  /\ last' = NoResult
  /\ UNCHANGED <<hw, kern, dev, buf, limit>>

\* device_check_ready: a buffer that does not block is not looked at further.
CheckReady ==
  /\ call.at = "check"
  /\ call' = IF dev.blocking
             THEN [call EXCEPT !.at = "poll", !.budget = get_rel_timeout(call.spent)]
             ELSE [call EXCEPT !.at = "move"]
  /\ last' = NoResult
  /\ UNCHANGED <<hw, kern, dev, buf, limit>>

\* Mutant: an interrupted poll is given the whole timeout again.
Interrupted_Afresh ==
  /\ call.at = "poll" /\ ~Ready /\ dev.cancel = "quiet" /\ call.budget # 0
  /\ call' = [call EXCEPT !.budget = get_rel_timeout(0)]
  /\ last' = NoResult
  /\ UNCHANGED <<hw, kern, dev, buf, limit>>

\* A signal ends the poll, which is started again for what is left.
Interrupted ==
  /\ call.at = "poll" /\ ~Ready /\ dev.cancel = "quiet" /\ call.budget # 0
  /\ call' = [call EXCEPT !.budget = get_rel_timeout(call.spent)]
  /\ last' = NoResult
  /\ UNCHANGED <<hw, kern, dev, buf, limit>>

\* Time passes in poll.
Tick ==
  /\ call.at = "poll" /\ ~Ready /\ dev.cancel = "quiet" /\ call.budget > 0
  /\ call' = [call EXCEPT !.budget = @ - 1, !.spent = IF @ < limit THEN @ + 1 ELSE @]
  /\ last' = NoResult
  /\ UNCHANGED <<hw, kern, dev, buf, limit>>

\* The device is in error, or not among what poll reports.
PollFails ==
  /\ call.at = "poll" /\ dev.cancel = "quiet"
  /\ Fail("EIO")
  /\ UNCHANGED <<hw, limit>>

\* Mutant: a device that has data is used even after the cancellation.
Poll_DataFirst ==
  /\ call.at = "poll"
  /\ \/ /\ dev.cancel = "signalled" /\ ~Ready
        /\ Fail("EBADF")
     \/ /\ Ready
        /\ call' = [call EXCEPT !.at = "move"]
        /\ last' = NoResult
        /\ UNCHANGED <<kern, dev, buf>>
     \/ /\ dev.cancel = "quiet" /\ ~Ready /\ call.budget = 0
        /\ Fail("ETIMEDOUT")
  /\ UNCHANGED <<hw, limit>>

\* The poll returns: cancelled, ready, or in vain.
Poll ==
  /\ call.at = "poll"
  /\ \/ /\ dev.cancel = "signalled"
        /\ Fail("EBADF")
     \/ /\ dev.cancel = "quiet" /\ Ready
        /\ call' = [call EXCEPT !.at = "move"]
        /\ last' = NoResult
        /\ UNCHANGED <<kern, dev, buf>>
     \/ /\ dev.cancel = "quiet" /\ ~Ready /\ call.budget = 0
        /\ Fail("ETIMEDOUT")
  /\ UNCHANGED <<hw, limit>>

\* The next block that the driver is done with; it is the program's from now on.
Dequeue ==
  /\ call.at = "move" /\ dev.is_hs
  /\ \E b \in Held("done") :
       /\ kern' = [kern EXCEPT !.holder[b] = "app"]
       /\ dev' = [dev EXCEPT !.last = b]
       /\ buf' = AfterCall([buf EXCEPT !.made = TRUE, !.ptr = b,
                                       !.owed = IF call.op \in Output THEN @ - 1 ELSE @])
  /\ Return("ok", call.left)
  /\ UNCHANGED <<hw, limit>>

\* There is none, which a blocking call does not take for an answer.
DequeueNone ==
  /\ call.at = "move" /\ dev.is_hs /\ Held("done") = {}
  /\ IF dev.blocking
     THEN /\ call' = [call EXCEPT !.at = "check"]
          /\ last' = NoResult
          /\ UNCHANGED <<kern, dev, buf>>
     ELSE Fail("EAGAIN")
  /\ UNCHANGED <<hw, limit>>

\* ioctl, read or write fails.  What the call has moved so far is not told.
MoveFails ==
  /\ call.at = "move"
  /\ Fail("EIO")
  /\ UNCHANGED <<hw, limit>>

\* local_read has k samples more.
Read ==
  /\ call.at = "move" /\ ~dev.is_hs /\ call.op = "refill"
  /\ \E k \in 1 .. call.left :
       LET c == [call EXCEPT !.left = @ - k, !.moved = @ + k]
       IN
       /\ k <= kern.fifo
       /\ kern' = [kern EXCEPT !.fifo = @ - k]
       /\ IF c.left > 0
          THEN call' = [c EXCEPT !.at = "check"] /\ last' = NoResult
          ELSE call' = NoCall /\ last' = Result(c, "ok", c.moved)
  /\ UNCHANGED <<hw, dev, buf, limit>>

\* Mutant: the samples read before there are no more are not returned.
ReadNone_Drops ==
  /\ call.at = "move" /\ ~dev.is_hs /\ call.op = "refill" /\ kern.fifo = 0
  /\ Return("EAGAIN", 0)
  /\ UNCHANGED <<hw, kern, dev, buf, limit>>

\* There are none: a call that does not block returns those it has, another goes round.
ReadNone ==
  /\ call.at = "move" /\ ~dev.is_hs /\ call.op = "refill" /\ kern.fifo = 0
  /\ IF dev.blocking THEN call' = [call EXCEPT !.at = "check"] /\ last' = NoResult
     ELSE IF call.moved > 0 THEN Return("ok", call.moved) ELSE Return("EAGAIN", 0)
  /\ UNCHANGED <<hw, kern, dev, buf, limit>>

\* local_write has handed over k samples more; the push ends when its buffer is empty.
Write ==
  /\ call.at = "move" /\ ~dev.is_hs /\ call.op \in Output
  /\ \E k \in 1 .. call.left :
       LET c == [call EXCEPT !.left = @ - k, !.moved = @ + k]
       IN
       /\ k <= Fifo - kern.fifo
       /\ kern' = [kern EXCEPT !.fifo = @ + k]
       /\ IF c.left > 0
          THEN call' = [c EXCEPT !.at = "check"] /\ last' = NoResult /\ UNCHANGED buf
          ELSE /\ call' = NoCall /\ last' = Result(c, "ok", buf.data_length)
               /\ buf' = AfterCall(buf)
  /\ UNCHANGED <<hw, dev, limit>>

\* There is no room: a blocking call goes round.  Without blocking local_write returns what
\* it has handed over and is called again for the rest, until it has nothing to return.
WriteNone ==
  /\ call.at = "move" /\ ~dev.is_hs /\ call.op \in Output /\ kern.fifo = Fifo
  /\ IF dev.blocking
     THEN call' = [call EXCEPT !.at = "check"] /\ last' = NoResult /\ UNCHANGED buf
     ELSE IF call.moved > 0
     THEN /\ call' = [call EXCEPT !.at = "check", !.whole = @ + call.moved, !.moved = 0,
                                  !.spent = 0]
          /\ last' = NoResult
          /\ UNCHANGED buf
     ELSE Return("EAGAIN", 0) /\ buf' = AfterCall(buf)
  /\ UNCHANGED <<hw, kern, dev, limit>>

-----------------------------------------------------------------------------
(* The device, and the specification. *)

\* A block is filled or sent, a sample arrives or leaves.  A cyclic block is sent for ever.
Device ==
  /\ kern.enabled /\ dev.open
  /\ IF dev.is_hs
     THEN /\ ~(dev.cyclic /\ dev.enqueued)
          /\ \E b \in Held("queued") : kern' = [kern EXCEPT !.holder[b] = "done"]
     ELSE IF hw.input
     THEN kern.fifo < Fifo /\ kern' = [kern EXCEPT !.fifo = @ + 1]
     ELSE kern.fifo > 0 /\ kern' = [kern EXCEPT !.fifo = @ - 1]
  /\ last' = NoResult
  /\ UNCHANGED <<hw, dev, buf, call, limit>>

\* What a thread in a call does.
InCall ==
  \/ Enqueue \/ EnqueueFails \/ EnqueueCyclic \/ NothingToEnqueue
  \/ CheckReady \/ Tick \/ PollFails \/ Poll
  \/ Dequeue \/ DequeueNone \/ MoveFails \/ Read \/ ReadNone \/ Write \/ WriteNone

Next ==
  \/ \E cyclic \in BOOLEAN : Create(cyclic)
  \/ Destroy
  \/ \E mask \in SUBSET Channels : Choose(mask)
  \/ \E n \in 1 .. MaxBlocks : SetKernelBuffers(n)
  \/ \E blocking \in BOOLEAN : SetBlocking(blocking)
  \/ \E timeout \in Timeouts : SetTimeout(timeout)
  \/ Cancel \/ Refill \/ Push
  \/ InCall \/ Interrupted
  \/ Device

\* A thread in a call goes on, and time passes.
Spec == Init /\ [][Next]_vars /\ WF_vars(InCall)

-----------------------------------------------------------------------------
(* Properties. *)

\* Every field of the state has a value that the C program can give it.
TypeOK ==
  /\ hw \in [input : BOOLEAN, hs : BOOLEAN]
  /\ kern \in [enabled : BOOLEAN, chans : SUBSET Channels,
               holder : [BlockIds -> {"none", "queued", "done", "app"}],
               fifo : 0 .. Fifo, fds : {0, 2}, maps : 0 .. MaxBlocks]
  /\ dev \in [open : BOOLEAN, cancel : {"none", "quiet", "signalled", "stale"},
              blocking : BOOLEAN, cyclic : BOOLEAN, enqueued : BOOLEAN, is_hs : BOOLEAN,
              max : 1 .. MaxBlocks, blocks : 0 .. MaxBlocks, last : BlockIds \cup {-1},
              mask : SUBSET Channels]
  /\ buf \in [made : BOOLEAN, ptr : BlockIds \cup {-1}, data_length : 1 .. Length,
              owed : {0, 1}]
  /\ call \in [op : {"none", "create", "refill"} \cup Output,
               at : {"idle", "enqueue", "check", "poll", "move"}, left : 0 .. Length,
               moved : 0 .. Length, whole : 0 .. Length, spent : Nat, budget : Nat \cup {-1},
               late : BOOLEAN, gave : BOOLEAN]
  /\ limit \in Timeouts

\* A block is the program's exactly while last_dequeued names it, and it is then the one
\* the buffer points to: no block is held by two or lost between the two, whatever call
\* has failed or timed out before (local_get_buffer; a cyclic block is the driver's once it
\* is enqueued).  A call that fails after its enqueueing leaves last_dequeued without a
\* block and the pointer where it was: of the pointer nothing is said until a call succeeds.
BlocksHaveOneHolder ==
  (dev.open /\ dev.is_hs /\ ~(dev.cyclic /\ dev.enqueued)) =>
    /\ Held("app") = IF dev.last < 0 THEN {} ELSE {dev.last}
    /\ dev.last >= 0 => buf.ptr = dev.last
    /\ Cardinality(BlockIds \ Held("none")) = dev.blocks

\* The blocks enqueued by a push are those of the pushes that succeeded, and one more
\* while a push that failed after its enqueueing waits to be tried again: the retry of a
\* push whose dequeue timed out sends nothing twice (last_dequeued = -1 in
\* local_get_buffer).  Only of the interface with blocks.
PushedOnce ==
  (buf.made /\ dev.is_hs /\ Idle) => buf.owed = IF ~hw.input /\ dev.last < 0 THEN 1 ELSE 0

\* A buffer that exists is enabled with exactly the channels asked for and all of its
\* blocks mapped; where there is none, no descriptor, mapping or block of the driver is
\* left, at whichever step the open failed (err_close, err_munmap, local_close).
OpenOrClean ==
  /\ buf.made => /\ dev.open /\ kern.enabled /\ kern.chans = dev.mask
                 /\ kern.fds = 2 /\ kern.maps = dev.blocks
  /\ (Idle /\ ~buf.made) => /\ ~dev.open /\ kern.fds = 0 /\ kern.maps = 0
                            /\ Held("none") = BlockIds

\* A refill or push that succeeds returns exactly the samples it has moved, a push of the
\* whole buffer moves the whole buffer, and a refill that says there was nothing has taken
\* nothing from the device (the partial results of local_read and local_write, the loop
\* and the data_length of iio_buffer_push).  What a call has moved before it times out, is
\* cancelled or fails is told by nothing: the property leaves those results out.
ReturnsWhatWasMoved ==
  ~dev.is_hs =>
    /\ last.ret = "ok" => last.n = last.moved
    /\ (last.op = "push" /\ last.ret = "ok") => last.n = Length
    /\ (last.op = "refill" /\ last.ret = "EAGAIN") => last.moved = 0

\* After iio_buffer_cancel every refill or push that would wait for the device fails.  It
\* moves no sample of the interface without blocks; of the other it can give the driver
\* the one block the program had, before it looks at the event, and as it gets none back no
\* later call has one to give (device_check_ready, local_get_buffer).
CancelIsFinal ==
  (last.late /\ dev.blocking /\ ~dev.cyclic) =>
    last.ret # "ok" /\ last.moved = 0 /\ (last.gave => dev.last = -1)

\* A call returns, however often it is interrupted, if it has a timeout, does not block
\* or is cancelled (get_rel_timeout_ms).
CallsReturn ==
  (~Idle /\ (limit > 0 \/ ~dev.blocking \/ dev.cancel = "signalled")) ~> Idle

================================================================================
