---------------------------- MODULE NetworkClient ----------------------------
(***************************************************************************)
(* The network backend of libiio: the commands of iiod-client.c, sent over *)
(* the sockets of network.c and network-unix.c, and the part of the        *)
(* daemon (iiod/ops.c) that answers them.                                  *)
(*                                                                         *)
(* A context has a control connection, shared by the threads of the        *)
(* program under a lock, and one connection for the device's buffer, which *)
(* one thread uses under the device's lock while any thread may cancel it. *)
(* An answer is a sequence of units: a line with an integer, a line with a *)
(* version, or a run of bytes (a value, a mask, samples).  Nothing in it   *)
(* says which command it answers: that is a matter of counting.  A unit    *)
(* carries, for the properties alone, the thread that waits for it.        *)
(***************************************************************************)
EXTENDS Integers, FiniteSets, Sequences, SequencesExt

CONSTANTS
  Threads,      \* the threads of the program
  BufferUser,   \* the thread that uses the buffer
  Timeouts,     \* the values given to iio_context_set_timeout
  Breaks,       \* timeouts, and writes refused early, that may happen
  InTurns,      \* whether the two connections are used in turns only
  MaxLate,      \* late units with which a connection is still used
  NoThread

ASSUME ClientAssumption ==
  /\ BufferUser \in Threads /\ NoThread \notin Threads /\ IsFiniteSet(Threads)
  /\ Timeouts \subseteq Nat \ {0, 1} /\ Timeouts # {}
  /\ Breaks \in Nat /\ MaxLate \in Nat /\ InTurns \in BOOLEAN

VARIABLES
  ctx,       \* whether there is a context: "none", "making", "made"
  conns,     \* the two connections: what is on its way up, the answer the daemon
             \* is giving, what is on its way down, and who holds the lock
  pc,        \* where each thread is
  last,      \* how the call ended that this step ends, if any
  dev,       \* the device's io_ctx
  cancelling,\* network_cancel has written its event, but not yet noted it
  limits,    \* the timeouts: timeout_ms in io_ctx, that of the socket, whether the last
             \* change was refused, and that of the daemon, one for all its clients
  broken,    \* connections that are out of step: an exchange was given up, or the value
             \* of a refused write is left in the stream
  mixed,     \* the daemon refused its first timeout, or two calls of set_timeout
             \* have overlapped
  breaks

vars == <<ctx, conns, pc, last, dev, cancelling, limits, broken, mixed, breaks>>

DEFAULT_TIMEOUT_MS == CHOOSE v \in Timeouts : \A w \in Timeouts : w <= v

calculate_remote_timeout(timeout) == timeout \div 2

\* A timeout of the daemon that another client has set.
OthersTimeout == -1

BufferOps == {"open", "read", "write", "close"}
ControlOps == {"PRINT", "VERSION", "READ", "WRITE", "GETTRIG", "SET", "TIMEOUT"}

Conn(op) == IF op \in BufferOps THEN "buf" ELSE "ctl"

NotServing == [by |-> NoThread, cmd |-> "none", rest |-> <<>>]
Fresh == [up |-> <<>>, srv |-> NotServing, down |-> <<>>, lock |-> NoThread]
Idle == [op |-> "none", at |-> "idle", val |-> 0, first |-> FALSE, fits |-> TRUE,
         room |-> TRUE, own |-> TRUE]
Closed == [open |-> FALSE, cancelled |-> FALSE, event |-> FALSE, ready |-> FALSE]

NoResult == [ret |-> "none", own |-> TRUE]

NoLimits == [client |-> DEFAULT_TIMEOUT_MS, socket |-> DEFAULT_TIMEOUT_MS, refused |-> FALSE,
             remote |-> 0]

Init ==
  /\ ctx = "none"
  /\ conns = [k \in {"ctl", "buf"} |-> Fresh]
  /\ pc = [t \in Threads |-> Idle]
  /\ last = NoResult
  /\ dev = Closed
  /\ cancelling = FALSE
  /\ limits = NoLimits
  /\ broken = {}
  /\ mixed = FALSE
  /\ breaks = 0

Value(v) == [kind |-> "int", v |-> v]
Bytes == [kind |-> "bytes", v |-> 0]
Version == [kind |-> "version", v |-> 0]

\* The bytes that a request for samples asks for.
Len2 == 2

-----------------------------------------------------------------------------
(* The daemon. *)

\* The answers a command may get: read_dev_attr, read_chn_attr, write_dev_attr,
\* write_chn_attr, set_trigger, get_trigger, set_timeout, set_buffers_count, and
\* those of IiodServer to open_dev, close_dev and rw_dev.  Bytes that are no command
\* get an error.
Answers(cmd) ==
  CASE cmd \in {"READ", "ZPRINT"} -> {<<Value(-1)>>, <<Value(1), Bytes>>}
    [] cmd = "PRINT" -> {<<Value(1), Bytes>>}
    [] cmd = "GETTRIG" -> {<<Value(-1)>>, <<Value(0)>>, <<Value(1), Bytes>>}
    [] cmd \in {"WRITE", "SET", "TIMEOUT", "OPEN", "CLOSE"} -> {<<Value(-1)>>, <<Value(0)>>}
    [] cmd = "VERSION" -> {<<Version>>}
    [] cmd = "WRITEBUF" -> {<<Value(-1)>>, <<Value(0), Value(-1)>>, <<Value(0), Value(Len2)>>}
    [] cmd = "READBUF" ->
         {<<Value(-1)>>, <<Value(0)>>, <<Value(Len2), Bytes, Bytes>>}
           \cup {<<Value(1), Bytes, Bytes>> \o end :
                   end \in {<<Value(1), Bytes>>, <<Value(0)>>, <<Value(-1)>>}}
    [] OTHER -> {<<Value(-1)>>}

\* What is left of an answer.
Serving(by, cmd, rest) ==
  IF rest = <<>> THEN NotServing ELSE [by |-> by, cmd |-> cmd, rest |-> rest]

\* A line is read, its command carried out and the first unit of the answer sent.  The
\* value of an attribute is read before there is an answer.
Serve(k) ==
  LET c == conns[k]
      req == Head(c.up)
  IN
  /\ c.srv = NotServing /\ c.up # <<>>
  /\ \E answer \in Answers(req.cmd) :
       /\ conns' = [conns EXCEPT
            ![k].up = IF req.cmd = "WRITE" THEN Tail(Tail(@)) ELSE Tail(@),
            ![k].srv = Serving(req.by, req.cmd, Tail(answer)),
            ![k].down = Append(@, [unit |-> Head(answer), by |-> req.by])]
       /\ limits' = IF req.cmd = "TIMEOUT" /\ answer = <<Value(0)>>
                    THEN [limits EXCEPT !.remote = req.val] ELSE limits
  /\ last' = NoResult
  /\ UNCHANGED <<ctx, pc, dev, cancelling, broken, mixed, breaks>>

\* What follows a command that is not carried out: its value, if it has one, is from
\* now on nobody's.
LeftOver(rest) ==
  [i \in 1 .. Len(rest) |-> IF i = 1 /\ rest[i].cmd = "DATA"
                            THEN [rest[i] EXCEPT !.by = NoThread] ELSE rest[i]]

\* A write is refused - no such device, no memory - before its value is read: the value
\* stays in the stream, where the daemon expects commands.
Refuse(k) ==
  LET c == conns[k] IN
  /\ breaks < Breaks
  /\ c.srv = NotServing /\ c.up # <<>> /\ Head(c.up).cmd = "WRITE"
  /\ breaks' = breaks + 1
  /\ conns' = [conns EXCEPT
       ![k].up = LeftOver(Tail(@)),
       ![k].down = Append(@, [unit |-> Value(-1), by |-> Head(c.up).by])]
  /\ broken' = broken \cup {k}
  /\ last' = NoResult
  /\ UNCHANGED <<ctx, pc, dev, cancelling, limits, mixed>>

\* Such a value that ends in no newline makes one line with the command behind it,
\* which is no command.  Serve stands for the value with a newline.
Misread(k) ==
  LET c == conns[k] IN
  /\ c.srv = NotServing /\ Len(c.up) > 1 /\ Head(c.up).cmd = "DATA"
  /\ conns' = [conns EXCEPT
       ![k].up = LeftOver(Tail(Tail(@))),
       ![k].down = Append(@, [unit |-> Value(-1), by |-> c.up[2].by])]
  /\ broken' = broken \cup {k}
  /\ last' = NoResult
  /\ UNCHANGED <<ctx, pc, dev, cancelling, limits, mixed, breaks>>

\* The next unit is sent.  The samples of a WRITEBUF are read before its second line.
Reply(k) ==
  LET c == conns[k]
      data == c.srv.cmd = "WRITEBUF"
  IN
  /\ c.srv.rest # <<>>
  /\ data => c.up # <<>>
  /\ conns' = [conns EXCEPT
       ![k].up = IF data THEN Tail(@) ELSE @,
       ![k].srv = Serving(@.by, @.cmd, Tail(@.rest)),
       ![k].down = Append(@, [unit |-> Head(c.srv.rest), by |-> c.srv.by])]
  /\ last' = NoResult
  /\ UNCHANGED <<ctx, pc, dev, cancelling, limits, broken, mixed, breaks>>

-----------------------------------------------------------------------------
(* Helpers of the client. *)

Req(cmd, t, val) == [cmd |-> cmd, by |-> t, val |-> val]

Sent(k, reqs) == [conns EXCEPT ![k].up = @ \o reqs]

\* A call ends: what it returns, and whether every unit it took answered it.
Return(t, ret, own) ==
  /\ pc' = [pc EXCEPT ![t] = Idle]
  /\ last' = [ret |-> ret, own |-> own]

Go(t, at) == pc' = [pc EXCEPT ![t].at = at] /\ last' = NoResult

\* Mutant: a socket that is ready is used without a look at the event.
Cancelled_Late(k) == k = "buf" /\ dev.event /\ conns[k].down = <<>>

\* wait_cancellable returns -EBADF: the event is in the file and nobody takes it out.
Cancelled(k) == k = "buf" /\ dev.event

-----------------------------------------------------------------------------
(* Control connection: one command at a time, under the lock. *)

\* Nothing is under way on a connection.
Quiet(k) == conns[k].up = <<>> /\ conns[k].srv = NotServing /\ conns[k].down = <<>>

\* Bound: a connection that is out of step is used only while little is left on it.
Left(k) == Len(conns[k].up \o conns[k].srv.rest \o conns[k].down)
Usable(k) == k \notin broken \/ Left(k) <= MaxLate

\* A timeout was refused, or another client has set one.
Apart == limits.socket # limits.client \/ limits.remote = OthersTimeout

\* Bound, when InTurns: control calls are made while no buffer is open, and all but
\* set_timeout while the timeouts are not apart.  Calls and connections share nothing
\* but the timeout that a new buffer takes over.
Turn(op) ==
  InTurns => /\ \A t \in Threads : pc[t].op = "none" \/ Conn(pc[t].op) = Conn(op)
             /\ IF Conn(op) = "ctl" THEN ~dev.open /\ ~cancelling ELSE Quiet("ctl")
             /\ Apart => op = "TIMEOUT"

\* The call begins.  set_timeout gives the socket its new timeout here, before the
\* lock, and leaves it when the daemon refuses; how long a timeout takes is not
\* modelled.  The caller's buffer may be too small for the value of an attribute, or
\* of no size at all.
Begin(t, op) ==
  /\ ctx = "made" /\ pc[t] = Idle
  /\ op \in ControlOps \ {"PRINT"} /\ Usable("ctl") /\ Turn(op)
  /\ \E v \in IF op = "TIMEOUT" THEN Timeouts ELSE {0}, fits \in {TRUE, op # "READ"} :
       \E room \in {TRUE, fits} :
       /\ pc' = [pc EXCEPT ![t] = [Idle EXCEPT !.op = op, !.at = "lock", !.val = v,
                                               !.fits = fits, !.room = room]]
       /\ limits' = IF op = "TIMEOUT" THEN [limits EXCEPT !.socket = v] ELSE limits
       /\ mixed' = (mixed \/ (op = "TIMEOUT" /\ \E u \in Threads : pc[u].op = "TIMEOUT"))
  /\ last' = NoResult
  /\ UNCHANGED <<ctx, conns, dev, cancelling, broken, breaks>>

\* The lock is taken and the command written, with the value it carries.
Send(t) ==
  LET op == pc[t].op
      remote == calculate_remote_timeout(pc[t].val)
      cmds == CASE op = "WRITE" -> <<Req("WRITE", t, 0), Req("DATA", t, 0)>>
                [] op = "PRINT" -> <<Req(IF pc[t].first THEN "ZPRINT" ELSE "PRINT", t, 0)>>
                [] op = "TIMEOUT" -> <<Req("TIMEOUT", t, remote)>>
                [] OTHER -> <<Req(op, t, 0)>>
  IN
  /\ pc[t].at = "lock" /\ conns["ctl"].lock = NoThread
  /\ conns' = [Sent("ctl", cmds) EXCEPT !["ctl"].lock = t]
  /\ Go(t, IF op = "VERSION" THEN "line" ELSE "int")
  /\ UNCHANGED <<ctx, dev, cancelling, limits, broken, mixed, breaks>>

\* Mutant: the lock is kept.
Done_KeepsLock == [conns EXCEPT !["ctl"].down = Tail(@)]

\* The connection without its first unit, and the lock free.
Done == [conns EXCEPT !["ctl"].down = Tail(@), !["ctl"].lock = NoThread]

Taken(k) == [conns EXCEPT ![k].down = Tail(@)]

First(k) == Head(conns[k].down).unit
OwnNow(t, k) == pc[t].own /\ Head(conns[k].down).by = t

\* get_version: any line will do to read, only a version to parse.
TakeLine(t) ==
  /\ pc[t].at = "line" /\ conns["ctl"].down # <<>>
  /\ conns' = Done
  /\ Return(t, IF First("ctl") = Version THEN "ok" ELSE "error", OwnNow(t, "ctl"))
  /\ UNCHANGED <<ctx, dev, cancelling, limits, broken, mixed, breaks>>

\* Whether a positive integer is followed by a value.
Follows(t) == pc[t].op \in {"READ", "PRINT", "GETTRIG"}

\* Mutant: a value the caller has no room for stays in the connection.
NextAt_Leaves(t) == IF pc[t].fits THEN "value" ELSE "return"

NextAt(t) == IF pc[t].fits THEN "value" ELSE "discard"

\* Mutant: the new timeout is noted although the daemon refused it.
Noted_Always(t, ok) ==
  IF pc[t].op = "TIMEOUT" THEN [limits EXCEPT !.client = pc[t].val, !.refused = ~ok] ELSE limits

\* network_set_timeout after the command.
Noted(t, ok) ==
  IF pc[t].op = "TIMEOUT"
  THEN [limits EXCEPT !.client = IF ok THEN pc[t].val ELSE @, !.refused = ~ok] ELSE limits

\* The command with which network_create_context ends; its result is ignored.
Creating(t) == pc[t].op = "TIMEOUT" /\ pc[t].first

\* iiod_client_exec_command reads its integer; other bytes in that place may look
\* like one or not.  A daemon that does not know ZPRINT is asked again with PRINT:
\* the lock is let go for that.
TakeInt(t) ==
  LET u == First("ctl")
      own == OwnNow(t, "ctl")
  IN
  /\ pc[t].at = "int" /\ conns["ctl"].down # <<>>
  /\ \E v \in IF u.kind = "int" THEN {u.v} ELSE {-1, 1} :
       /\ \/ /\ v < 0 /\ pc[t].op = "PRINT" /\ pc[t].first
             /\ conns' = Done
             /\ pc' = [pc EXCEPT ![t].at = "lock", ![t].first = FALSE]
             /\ last' = NoResult
          \/ /\ v < 0 /\ ~(pc[t].op = "PRINT" /\ pc[t].first)
             /\ conns' = Done
             /\ Return(t, "error", own)
          \/ /\ v >= 0 /\ (~Follows(t) \/ (pc[t].op = "GETTRIG" /\ v = 0))
             /\ conns' = Done
             /\ Return(t, "ok", own)
          \/ /\ v >= 0 /\ Follows(t) /\ ~(pc[t].op = "GETTRIG" /\ v = 0)
             /\ IF NextAt(t) = "return"
                THEN conns' = Done /\ Return(t, "error", own)
                ELSE /\ conns' = Taken("ctl")
                     /\ pc' = [pc EXCEPT ![t].at = NextAt(t), ![t].own = own]
                     /\ last' = NoResult
       /\ limits' = Noted(t, v >= 0)
       /\ mixed' = (mixed \/ (Creating(t) /\ v < 0))
  /\ ctx' = IF Creating(t) THEN "made" ELSE ctx
  /\ UNCHANGED <<dev, cancelling, broken, breaks>>

\* iiod_client_discard with a buffer of no size reads nothing, for ever and with the
\* lock held, and never gives up.
Spins(t) == pc[t].at = "discard" /\ ~pc[t].room

\* The value, or as much of it as the caller's buffer takes at a time: all of it
\* is read, and -EIO returned in the latter case.
TakeValue(t) ==
  /\ pc[t].at \in {"value", "discard"} /\ ~Spins(t)
  /\ pc[t].op # "PRINT" /\ conns["ctl"].down # <<>>
  /\ conns' = Done
  /\ Return(t, IF pc[t].at = "value" THEN "ok" ELSE "error", OwnNow(t, "ctl"))
  /\ UNCHANGED <<ctx, dev, cancelling, limits, broken, mixed, breaks>>

-----------------------------------------------------------------------------
(* The life of the context. *)

\* Another client of the daemon changes the timeout, of which its context has one.
OtherClient ==
  /\ ctx = "made" /\ limits.remote # OthersTimeout /\ (InTurns => ~dev.open)
  /\ limits' = [limits EXCEPT !.remote = OthersTimeout]
  /\ last' = NoResult
  /\ UNCHANGED <<ctx, conns, pc, dev, cancelling, broken, mixed, breaks>>

\* network_create_context up to the command.  The daemon has some timeout already.
CreateContext(t) ==
  /\ ctx = "none" /\ pc[t] = Idle
  /\ ctx' = "making"
  /\ conns' = [k \in {"ctl", "buf"} |-> Fresh]
  /\ limits' = NoLimits
  /\ pc' = [pc EXCEPT ![t] = [Idle EXCEPT !.op = "PRINT", !.at = "lock", !.first = TRUE]]
  /\ last' = NoResult
  /\ broken' = {} /\ mixed' = FALSE
  /\ UNCHANGED <<dev, cancelling, breaks>>

\* The context's description; when it cannot be used the connection is closed.
TakeContext(t, ok) ==
  /\ pc[t].op = "PRINT" /\ pc[t].at = "value" /\ conns["ctl"].down # <<>>
  /\ IF ok
     THEN /\ conns' = Done
          /\ pc' = [pc EXCEPT ![t] = [Idle EXCEPT !.op = "TIMEOUT", !.at = "lock",
                                       !.val = DEFAULT_TIMEOUT_MS, !.first = TRUE]]
          /\ last' = NoResult
          /\ UNCHANGED ctx
     ELSE /\ conns' = [conns EXCEPT !["ctl"] = Fresh]
          /\ ctx' = "none"
          /\ Return(t, "error", OwnNow(t, "ctl"))
  /\ UNCHANGED <<dev, cancelling, limits, broken, mixed, breaks>>

\* network_shutdown, once no thread is in a call: EXIT, and the end of both
\* connections.
Shutdown ==
  /\ ctx = "made" /\ ~dev.open /\ ~cancelling
  /\ \A t \in Threads : pc[t] = Idle
  /\ ctx' = "none"
  /\ conns' = [k \in {"ctl", "buf"} |-> Fresh]
  /\ last' = NoResult
  /\ UNCHANGED <<pc, dev, cancelling, limits, broken, mixed, breaks>>

-----------------------------------------------------------------------------
(* The buffer's connection. *)

\* network_open: its own socket, on which OPEN is the first command.  The file of
\* the event does not exist before the answer.
Open(t) ==
  /\ ctx = "made" /\ t = BufferUser /\ pc[t] = Idle /\ ~dev.open /\ Turn("open")
  /\ dev' = [Closed EXCEPT !.open = TRUE]
  /\ conns' = [conns EXCEPT !["buf"] = [Fresh EXCEPT !.up = <<Req("OPEN", t, 0)>>]]
  /\ pc' = [pc EXCEPT ![t] = [Idle EXCEPT !.op = "open", !.at = "opened"]]
  /\ last' = NoResult
  /\ broken' = broken \ {"buf"}
  /\ UNCHANGED <<ctx, cancelling, limits, mixed, breaks>>

\* The socket is closed, and with it what was under way.
CloseSocket == conns' = [conns EXCEPT !["buf"] = Fresh]

\* The answer, and what else may fail before the device counts as open.
Opened(t, ok) ==
  /\ pc[t].at = "opened" /\ conns["buf"].down # <<>>
  /\ IF First("buf") = Value(0) /\ ok
     THEN /\ conns' = Taken("buf")
          /\ dev' = [dev EXCEPT !.ready = TRUE]
          /\ Return(t, "ok", TRUE)
     ELSE /\ CloseSocket
          /\ dev' = Closed
          /\ Return(t, "error", TRUE)
  /\ UNCHANGED <<ctx, cancelling, limits, broken, mixed, breaks>>

\* The program has a buffer once open has returned.
BufferExists == dev.ready

MayUse(t) == t = BufferUser /\ pc[t] = Idle /\ BufferExists /\ Usable("buf") /\ Turn("read")

\* network_read and network_write: the command.
ReadBuffer(t) ==
  /\ MayUse(t)
  /\ IF Cancelled("buf")
     THEN /\ Return(t, "cancelled", TRUE)
          /\ UNCHANGED conns
     ELSE /\ conns' = Sent("buf", <<Req("READBUF", t, 0)>>)
          /\ pc' = [pc EXCEPT ![t] = [Idle EXCEPT !.op = "read", !.at = "samples",
                                                  !.val = Len2, !.first = TRUE]]
          /\ last' = NoResult
  /\ UNCHANGED <<ctx, dev, cancelling, limits, broken, mixed, breaks>>

WriteBuffer(t) ==
  /\ MayUse(t)
  /\ IF Cancelled("buf")
     THEN /\ Return(t, "cancelled", TRUE)
          /\ UNCHANGED conns
     ELSE /\ conns' = Sent("buf", <<Req("WRITEBUF", t, 0)>>)
          /\ pc' = [pc EXCEPT ![t] = [Idle EXCEPT !.op = "write", !.at = "status"]]
          /\ last' = NoResult
  /\ UNCHANGED <<ctx, dev, cancelling, limits, broken, mixed, breaks>>

BufferReads(t) == pc[t].op \in {"read", "write"}

\* Mutant: a thread that waits for samples does not look for the event.
StopWaiting_Writes(t) ==
  /\ pc[t].op = "write" /\ Cancelled("buf")
  /\ Return(t, "cancelled", TRUE)
  /\ broken' = broken \cup {"buf"}
  /\ UNCHANGED <<ctx, conns, dev, cancelling, limits, mixed, breaks>>

\* A wait for the answer finds the event.
StopWaiting(t) ==
  /\ BufferReads(t) /\ Cancelled("buf")
  /\ Return(t, "cancelled", TRUE)
  /\ broken' = broken \cup {"buf"}
  /\ UNCHANGED <<ctx, conns, dev, cancelling, limits, mixed, breaks>>

Ready(t, at) == pc[t].at = at /\ conns["buf"].down # <<>> /\ ~Cancelled("buf")

\* The mask comes with the first line only.
WantsMask(t) == pc[t].first

\* iiod_client_read_unlocked: a line, which gives the samples that follow.
TakeCount(t) ==
  LET u == First("buf")
      own == OwnNow(t, "buf")
  IN
  /\ Ready(t, "samples")
  /\ \E v \in IF u.kind = "int" THEN {u.v} ELSE {-1} :
       /\ conns' = Taken("buf")
       /\ IF v <= 0
          THEN Return(t, IF v = 0 THEN "ok" ELSE "error", own)
          ELSE /\ pc' = [pc EXCEPT ![t].at = IF WantsMask(t) THEN "mask" ELSE "copy",
                                   ![t].val = @ - v, ![t].own = own, ![t].first = FALSE]
               /\ last' = NoResult
  /\ UNCHANGED <<ctx, dev, cancelling, limits, broken, mixed, breaks>>

TakeMask(t) ==
  /\ Ready(t, "mask")
  /\ conns' = Taken("buf")
  /\ pc' = [pc EXCEPT ![t].at = "copy", ![t].own = OwnNow(t, "buf")]
  /\ last' = NoResult
  /\ UNCHANGED <<ctx, dev, cancelling, limits, broken, mixed, breaks>>

\* Samples go to the caller's memory; the loop ends when all that was asked for is
\* there.
TakeSamples(t) ==
  /\ Ready(t, "copy")
  /\ conns' = Taken("buf")
  /\ IF pc[t].val = 0
     THEN Return(t, "ok", OwnNow(t, "buf"))
     ELSE /\ pc' = [pc EXCEPT ![t].at = "samples", ![t].own = OwnNow(t, "buf")]
          /\ last' = NoResult
  /\ UNCHANGED <<ctx, dev, cancelling, limits, broken, mixed, breaks>>

\* iiod_client_write_unlocked: the samples are sent after the first line, and only
\* if it does not refuse them.
TakeStatus(t) ==
  LET u == First("buf") IN
  /\ Ready(t, "status")
  /\ IF u.kind = "int" /\ u.v >= 0
     THEN /\ conns' = [Taken("buf") EXCEPT !["buf"].up = Append(@, Req("DATA", t, 0))]
          /\ pc' = [pc EXCEPT ![t].at = "result", ![t].own = OwnNow(t, "buf")]
          /\ last' = NoResult
     ELSE /\ conns' = Taken("buf")
          /\ Return(t, "error", OwnNow(t, "buf"))
  /\ UNCHANGED <<ctx, dev, cancelling, limits, broken, mixed, breaks>>

TakeResult(t) ==
  LET u == First("buf") IN
  /\ Ready(t, "result")
  /\ conns' = Taken("buf")
  /\ Return(t, IF u.kind = "int" /\ u.v >= 0 THEN "ok" ELSE "error", OwnNow(t, "buf"))
  /\ UNCHANGED <<ctx, dev, cancelling, limits, broken, mixed, breaks>>

\* network_close: the commands are skipped once cancelled is set, and fail when only
\* the event is there.
Close(t) ==
  /\ t = BufferUser /\ pc[t] = Idle /\ dev.open /\ Turn("close")
  /\ IF dev.cancelled \/ Cancelled("buf")
     THEN /\ CloseSocket
          /\ dev' = Closed
          /\ Return(t, IF dev.cancelled THEN "ok" ELSE "error", TRUE)
     ELSE /\ conns' = Sent("buf", <<Req("CLOSE", t, 0)>>)
          /\ pc' = [pc EXCEPT ![t] = [Idle EXCEPT !.op = "close", !.at = "closed"]]
          /\ last' = NoResult
          /\ UNCHANGED dev
  /\ UNCHANGED <<ctx, cancelling, limits, broken, mixed, breaks>>

\* The answer to CLOSE, or what ends the wait for it; EXIT, and the socket is closed.
EndClose(t) ==
  /\ pc[t].at = "closed" /\ (conns["buf"].down # <<>> \/ Cancelled("buf"))
  /\ Return(t, IF Cancelled("buf") THEN "error" ELSE "ok",
            IF Cancelled("buf") THEN TRUE ELSE OwnNow(t, "buf"))
  /\ CloseSocket
  /\ dev' = Closed
  /\ UNCHANGED <<ctx, cancelling, limits, broken, mixed, breaks>>

\* network_cancel, from any thread and without a lock: the event, and the note.
\* The thread it wakes may close the buffer, and open the next, in between.
Cancel ==
  /\ BufferExists /\ ~cancelling
  /\ dev' = [dev EXCEPT !.event = TRUE]
  /\ cancelling' = TRUE
  /\ last' = NoResult
  /\ UNCHANGED <<ctx, conns, pc, limits, broken, mixed, breaks>>

NoteCancel ==
  /\ cancelling
  /\ cancelling' = FALSE
  /\ dev' = IF dev.open THEN [dev EXCEPT !.cancelled = TRUE] ELSE dev
  /\ last' = NoResult
  /\ UNCHANGED <<ctx, conns, pc, limits, broken, mixed, breaks>>

-----------------------------------------------------------------------------
(* Timeouts. *)

\* What the asker no longer waits for answers nobody.
Orphaned(c, t) ==
  [c EXCEPT !.up = [i \in 1 .. Len(c.up) |-> IF c.up[i].by = t
                                             THEN [c.up[i] EXCEPT !.by = NoThread] ELSE c.up[i]],
            !.down = [i \in 1 .. Len(c.down) |-> IF c.down[i].by = t
                                             THEN [c.down[i] EXCEPT !.by = NoThread] ELSE c.down[i]],
            !.srv.by = IF @ = t THEN NoThread ELSE @,
            !.lock = IF @ = t THEN NoThread ELSE @]

\* poll or recv gives up before the next unit is there: -EPIPE.  The connection stays
\* as it is, but for an open, which closes its own, and a close.
TimeOut(t) ==
  LET k == Conn(pc[t].op) IN
  /\ breaks < Breaks /\ pc[t].op # "none" /\ pc[t].at # "lock" /\ ~Spins(t)
  /\ conns[k].down = <<>>
  /\ breaks' = breaks + 1
  /\ Return(t, "error", TRUE)
  /\ IF pc[t].op \in {"open", "close"}
     THEN CloseSocket /\ dev' = Closed /\ UNCHANGED <<broken, ctx>>
     ELSE /\ conns' = IF pc[t].op = "PRINT" THEN [conns EXCEPT !["ctl"] = Fresh]
                      ELSE [conns EXCEPT ![k] = Orphaned(@, t)]
          /\ broken' = IF pc[t].op = "PRINT" THEN broken ELSE broken \cup {k}
          /\ ctx' = CASE pc[t].op = "PRINT" -> "none" [] Creating(t) -> "made"
                      [] OTHER -> ctx
          /\ UNCHANGED dev
  /\ UNCHANGED <<cancelling, limits, mixed>>

-----------------------------------------------------------------------------

ControlStep(t) == Send(t) \/ TakeLine(t) \/ TakeInt(t) \/ TakeValue(t)
                  \/ \E ok \in BOOLEAN : TakeContext(t, ok)

BufferStep(t) ==
  \/ \E ok \in BOOLEAN : Opened(t, ok)
  \/ StopWaiting(t) \/ TakeCount(t) \/ TakeMask(t) \/ TakeSamples(t)
  \/ TakeStatus(t) \/ TakeResult(t) \/ EndClose(t)

Next ==
  \/ \E k \in {"ctl", "buf"} : Serve(k) \/ Reply(k) \/ Refuse(k) \/ Misread(k)
  \/ \E t \in Threads :
       \/ \E op \in ControlOps : Begin(t, op)
       \/ ControlStep(t) \/ BufferStep(t)
       \/ CreateContext(t) \/ Open(t) \/ ReadBuffer(t) \/ WriteBuffer(t) \/ Close(t)
       \/ TimeOut(t)
  \/ Shutdown \/ Cancel \/ NoteCancel \/ OtherClient

\* The daemon answers commands; a refill or a push may wait for ever on the device.
\* A thread that can go on does, and is not kept from a free lock for ever.
Fairness ==
  /\ WF_vars(Serve("ctl") \/ Reply("ctl") \/ Refuse("ctl") \/ Misread("ctl"))
  /\ \A t \in Threads : SF_vars(ControlStep(t))
  /\ WF_vars(BufferStep(BufferUser))

Spec == Init /\ [][Next]_vars /\ Fairness

-----------------------------------------------------------------------------
(* Properties. *)

TypeOK ==
  /\ ctx \in {"none", "making", "made"}
  /\ \A k \in DOMAIN conns : conns[k].lock \in Threads \cup {NoThread}
  /\ \A t \in Threads : /\ pc[t].op \in BufferOps \cup ControlOps \cup {"none"}
                        /\ last.ret \in {"none", "ok", "error", "cancelled"}
  /\ dev.open \/ ~dev.event
  /\ cancelling \in BOOLEAN /\ mixed \in BOOLEAN /\ breaks \in 0 .. Breaks

\* Between two calls nothing is left on a connection, whatever the calls before were
\* answered - an error, a value without room, a ZPRINT that is not known, samples in
\* parts, a write that fails after its value was read - as long as no exchange on it was
\* given up and no write was refused before its value was read.
NothingIsLeft ==
  /\ "ctl" \notin broken /\ conns["ctl"].lock = NoThread => Quiet("ctl")
  /\ "buf" \notin broken /\ pc[BufferUser].op \notin BufferOps => Quiet("buf")

\* The client gives up after twice the time the daemon does: the value a buffer takes
\* over when it is opened is twice the daemon's, even after the daemon refused a new
\* one, unless another client has changed the daemon's; and it is the timeout of the
\* control socket too, unless the last change was refused: then the socket has what was
\* asked for.  What mixed says and connections out of step are left out.
TimeoutsAgree ==
  ctx = "made" /\ ~mixed /\ "ctl" \notin broken /\ (\A t \in Threads : pc[t].op # "TIMEOUT")
    => /\ limits.remote \in {OthersTimeout, calculate_remote_timeout(limits.client)}
       /\ limits.refused \/ limits.socket = limits.client

\* A refill or a push that iio_buffer_cancel finds waiting takes nothing more from the
\* daemon and fails, and so does one begun later ("any further invocations of these
\* functions on the same buffer will return immediately with an error").
CancelIsFinal ==
  [][\A t \in Threads : dev.event /\ pc'[t] # pc[t] /\ (BufferReads(t) \/ BufferReads(t)')
                          => pc'[t] = Idle /\ last'.ret # "ok"]_vars

\* And it does end: cancel wakes a thread that waits for a device without samples.
CancelEndsCalls ==
  dev.event /\ BufferReads(BufferUser) ~> ~BufferReads(BufferUser)

\* Every command on the control connection returns to its caller, and leaves the lock
\* to the others, unless the connection is out of step or a caller without room for a
\* value spins under the lock.
CallsReturn ==
  \A t \in Threads :
    pc[t].op \in ControlOps ~>
      pc[t] = Idle \/ "ctl" \in broken \/ \E u \in Threads : Spins(u)

\* What the documentation says of iio_device_attr_read: it reads "the content of the
\* given device-specific attribute".  After a timeout it returns what answers the
\* command that timed out.
ContentOfTheGivenAttribute ==
  [][\A t \in Threads : pc[t].op = "READ" /\ pc'[t] = Idle /\ last'.ret = "ok"
                          => last'.own]_vars
=============================================================================
