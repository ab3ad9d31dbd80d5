--------------------------- MODULE NetworkClientProofs ---------------------------
(* Theorems about NetworkClient, for any threads, timeouts and breaks, whether the *)
(* two connections are used in turns or not.                                       *)
EXTENDS NetworkClient, SequenceTheorems, TLAPS

-----------------------------------------------------------------------------
(* The invariant. *)

BufferCmds == {"OPEN", "CLOSE", "READBUF", "WRITEBUF", "DATA"}
Cmds == ControlOps \cup BufferCmds \cup {"ZPRINT"}
Val == Timeouts \cup {DEFAULT_TIMEOUT_MS}
RemoteVal == {0} \cup {calculate_remote_timeout(v) : v \in Val}
Asker == Threads \cup {NoThread}
Request == [cmd : Cmds, by : Asker, val : RemoteVal]
Unit == [kind : {"int", "bytes", "version"}, v : Int]
Arrival == [unit : Unit, by : Asker]
Service == [by : Asker, cmd : Cmds \cup {"none"}, rest : Seq(Unit)]
Connection == [up : Seq(Request), srv : Service, down : Seq(Arrival), lock : Asker]

\* Where a call may be that has written a command.
ControlPoints == {"int", "line", "value", "discard"}
BufferPoints == {"opened", "samples", "mask", "copy", "status", "result", "closed"}
Call == [op : BufferOps \cup ControlOps \cup {"none"},
         at : {"idle", "lock"} \cup ControlPoints \cup BufferPoints,
         val : Val \cup Int, first : BOOLEAN, fits : BOOLEAN, room : BOOLEAN,
         own : BOOLEAN]
Device == [open : BOOLEAN, cancelled : BOOLEAN, event : BOOLEAN, ready : BOOLEAN]

\* A WRITE is always followed by its value, and only commands of a buffer go over its
\* connection, which has no lock.
ConnectionFits(k, c) ==
  /\ c \in Connection
  /\ \A n \in 1 .. Len(c.up) : c.up[n].cmd = "WRITE" => n < Len(c.up)
  /\ k = "buf" => /\ \A n \in 1 .. Len(c.up) : c.up[n].cmd \in BufferCmds
                  /\ c.lock = NoThread

IsLimits(l) ==
  l = [client |-> l.client, socket |-> l.socket, refused |-> l.refused, remote |-> l.remote]

Types ==
  /\ ctx \in {"none", "making", "made"}
  /\ conns = [k \in {"ctl", "buf"} |-> conns[k]]
  /\ ConnectionFits("ctl", conns["ctl"]) /\ ConnectionFits("buf", conns["buf"])
  /\ pc \in [Threads -> Call]
  /\ last \in [ret : {"none", "ok", "error", "cancelled"}, own : BOOLEAN]
  /\ dev \in Device
  /\ cancelling \in BOOLEAN /\ mixed \in BOOLEAN
  /\ IsLimits(limits)
  /\ broken \in SUBSET {"ctl", "buf"}
  /\ breaks \in 0 .. Breaks

\* Where a thread may be in each call.
PointsOf(op) ==
  CASE op = "none" -> {"idle"}
    [] op = "VERSION" -> {"lock", "line"}
    [] op \in {"WRITE", "SET", "TIMEOUT"} -> {"lock", "int"}
    [] op \in {"READ", "PRINT", "GETTRIG"} -> {"lock", "int", "value", "discard"}
    [] op = "open" -> {"opened"}
    [] op = "read" -> {"samples", "mask", "copy"}
    [] op = "write" -> {"status", "result"}
    [] op = "close" -> {"closed"}

CallFits(p, t) ==
  /\ p.at \in PointsOf(p.op)
  /\ p.op = "none" => p = Idle
  /\ p.op \in BufferOps => t = BufferUser
  /\ p.op = "read" => p.val \in Int
  /\ p.op = "TIMEOUT" => p.val \in Val

CallsFit == \A t \in Threads : CallFits(pc[t], t)

\* Who waits for an answer on the control connection has its lock, and nobody else.
LockFits(f, lock) == \A t \in Threads : f[t].at \in ControlPoints <=> lock = t

\* A call with which a context is made.
Makes(p) == p.op = "PRINT" \/ (p.op = "TIMEOUT" /\ p.first)

\* Without a context there are no calls, while it is made there is one, and a device is
\* used only when it is made.
ContextFits(x, f, d, noting) ==
  /\ x = "none" => \A t \in Threads : f[t] = Idle
  /\ x = "making" => \E t \in Threads : Makes(f[t]) /\ \A u \in Threads \ {t} : f[u] = Idle
  /\ \A t \in Threads : Makes(f[t]) => x = "making"
  /\ d.open \/ noting => x = "made"
  /\ d.ready \/ d.event \/ f[BufferUser].op \in BufferOps => d.open

\* What makes a context gives no exchange up that it goes on from.
MakingFits == ctx = "making" => "ctl" \notin broken

ClientShape ==
  /\ Types /\ CallsFit /\ MakingFits
  /\ LockFits(pc, conns["ctl"].lock)
  /\ ContextFits(ctx, pc, dev, cancelling)

-----------------------------------------------------------------------------
(* An exchange under way. *)

\* The command of a call.
Asked(p) ==
  CASE p.op = "open" -> "OPEN"
    [] p.op = "close" -> "CLOSE"
    [] p.op = "read" -> "READBUF"
    [] p.op = "write" -> "WRITEBUF"
    [] p.op = "PRINT" -> IF p.first THEN "ZPRINT" ELSE "PRINT"
    [] OTHER -> p.op

Requested(p, t) ==
  CASE p.op = "WRITE" -> <<Req("WRITE", t, 0), Req("DATA", t, 0)>>
    [] p.op = "TIMEOUT" -> <<Req("TIMEOUT", t, calculate_remote_timeout(p.val))>>
    [] OTHER -> <<Req(Asked(p), t, 0)>>

\* Of the answer a to t the daemon has sent j units, of which the client has taken i.
Sending(c, p, t, a, i, j) ==
  /\ Len(c.down) = j - i
  /\ \A n \in 1 .. Len(c.down) : c.down[n] = [unit |-> a[i + n], by |-> t]
  /\ IF j = Len(a) THEN c.srv = NotServing
     ELSE /\ c.srv.by = t /\ c.srv.cmd = Asked(p)
          /\ Len(c.srv.rest) = Len(a) - j
          /\ \A n \in 1 .. Len(c.srv.rest) : c.srv.rest[n] = a[j + n]

\* Where the call p is when it has taken i units of a.
TakenOf(p, a, i) ==
  /\ p.at \in {"int", "line", "opened", "status", "closed"} => i = 0
  /\ p.at \in {"value", "discard", "result"} => i = 1 /\ Len(a) = 2
  /\ p.op = "read" =>
       \/ p.at = "samples" /\ p.first /\ i = 0 /\ p.val = 2
       \/ p.at = "mask" /\ i = 1 /\ Len(a) >= 3 /\ ~p.first /\ p.val = 2 - a[1].v
       \/ p.at = "copy" /\ i = 2 /\ Len(a) >= 3 /\ ~p.first /\ p.val = 2 - a[1].v
       \/ p.at = "samples" /\ i = 3 /\ Len(a) >= 4 /\ ~p.first /\ p.val = 1
       \/ p.at = "copy" /\ i = 4 /\ Len(a) = 5 /\ ~p.first /\ p.val = 0

\* The samples of a write are on their way from the first line to the second.
DataUp(p, t, j) ==
  IF p.at = "result" /\ j = 1 THEN <<Req("DATA", t, 0)>> ELSE <<>>

Unasked(c, p, t) == c.up = Requested(p, t) /\ c.srv = NotServing /\ c.down = <<>>

Answered(c, p, t, a, i, j) ==
  /\ i <= j /\ Sending(c, p, t, a, i, j) /\ TakenOf(p, a, i)
  /\ c.up = DataUp(p, t, j)
  /\ p.at = "status" => j = 1

\* t has asked, and has taken nothing, or it is being answered.
Exchange(c, p, t) ==
  \/ /\ Unasked(c, p, t)
     /\ p.at \in {"int", "line", "opened", "status", "closed"}
          \/ (p.at = "samples" /\ p.first /\ p.val = 2)
  \/ \E a \in Answers(Asked(p)) : \E i \in 0 .. Len(a) - 1 : \E j \in 1 .. Len(a) :
       Answered(c, p, t, a, i, j)

Still(c) == c.up = <<>> /\ c.srv = NotServing /\ c.down = <<>>

\* On a connection that is in step there is one exchange, or nothing.
ControlFits(c, f, given) ==
  "ctl" \notin given =>
    /\ c.lock = NoThread => Still(c)
    /\ \A t \in Threads : c.lock = t => Exchange(c, f[t], t)

BufferFits(c, p, given) ==
  "buf" \notin given => IF p.op \in BufferOps THEN Exchange(c, p, BufferUser) ELSE Still(c)

\* And what was taken of it so far was meant for who took it.
OwnFits(f, given) ==
  \A t \in Threads : f[t].op # "none" /\ Conn(f[t].op) \notin given => f[t].own

Exchanges ==
  /\ ControlFits(conns["ctl"], pc, broken)
  /\ BufferFits(conns["buf"], pc[BufferUser], broken)
  /\ OwnFits(pc, broken)

-----------------------------------------------------------------------------
(* The timeouts of the two ends. *)

\* The daemon has accepted the timeout t asked for, and t has not read so yet.
Accepted(c, t) == c.lock = t /\ c.down # <<>> /\ Head(c.down).unit = Value(0)

\* The daemon's timeout is half of v, if it is not another client's.
Shared(l, v) == l.remote \in {OthersTimeout, calculate_remote_timeout(v)}

\* The socket has the new timeout before the command is written; the daemon has it as
\* soon as its answer is on the way; the client notes it when that has come.
LimitsFit(x, c, f, l) ==
  /\ \A t, u \in Threads : f[t].op = "TIMEOUT" /\ f[u].op = "TIMEOUT" => t = u
  /\ x = "made" /\ (\A t \in Threads : f[t].op # "TIMEOUT")
       => Shared(l, l.client) /\ (l.refused \/ l.socket = l.client)
  /\ x = "making" => l.socket = DEFAULT_TIMEOUT_MS
  /\ \A t \in Threads : f[t].op = "TIMEOUT" =>
       /\ l.socket = f[t].val
       /\ IF Accepted(c, t) THEN Shared(l, f[t].val) ELSE ~f[t].first => Shared(l, l.client)

LimitsFollow ==
  "ctl" \notin broken /\ ~mixed => LimitsFit(ctx, conns["ctl"], pc, limits)

-----------------------------------------------------------------------------
(* Sequences written out. *)

LEMMA OneLong ==
  ASSUME NEW S, NEW x \in S
  PROVE  <<x>> \in Seq(S) /\ Len(<<x>>) = 1 /\ <<x>>[1] = x /\ <<x>> # <<>>
  OBVIOUS

LEMMA TwoLong ==
  ASSUME NEW S, NEW x \in S, NEW y \in S
  PROVE  /\ <<x, y>> \in Seq(S) /\ Len(<<x, y>>) = 2 /\ <<x, y>> # <<>>
         /\ <<x, y>>[1] = x /\ <<x, y>>[2] = y
  OBVIOUS

LEMMA ThreeLong ==
  ASSUME NEW S, NEW x \in S, NEW y \in S, NEW z \in S
  PROVE  /\ <<x, y, z>> \in Seq(S) /\ Len(<<x, y, z>>) = 3
         /\ <<x, y, z>>[1] = x /\ <<x, y, z>>[2] = y /\ <<x, y, z>>[3] = z
  OBVIOUS

-----------------------------------------------------------------------------
(* What the daemon may answer. *)

LEMMA UnitsAre ==
  /\ Bytes \in Unit /\ Version \in Unit /\ \A v \in Int : Value(v) \in Unit
  /\ \A v \in Int : Value(v).v = v /\ Value(v).kind = "int"
  /\ Bytes.kind = "bytes" /\ Version.kind = "version"
  BY DEF Bytes, Version, Value, Unit

LEMMA Units ==
  /\ Bytes \in Unit /\ Version \in Unit
  /\ Value(-1) \in Unit /\ Value(0) \in Unit /\ Value(1) \in Unit /\ Value(2) \in Unit
<1>1. -1 \in Int /\ 0 \in Int /\ 1 \in Int /\ 2 \in Int
  OBVIOUS
<1> QED
  BY <1>1, UnitsAre

\* The answers that are not in parts.
Refused == <<Value(-1)>>
Accepting == <<Value(0)>>
WithValue == <<Value(1), Bytes>>
WithVersion == <<Version>>
ThenRefused == <<Value(0), Value(-1)>>
ThenTaken == <<Value(0), Value(2)>>

LEMMA ShortAnswers ==
  /\ Refused \in Seq(Unit) /\ Len(Refused) = 1 /\ Refused[1] = Value(-1)
  /\ Accepting \in Seq(Unit) /\ Len(Accepting) = 1 /\ Accepting[1] = Value(0)
  /\ WithVersion \in Seq(Unit) /\ Len(WithVersion) = 1 /\ WithVersion[1] = Version
  /\ WithValue \in Seq(Unit) /\ Len(WithValue) = 2 /\ WithValue[1] = Value(1)
  /\ ThenRefused \in Seq(Unit) /\ Len(ThenRefused) = 2 /\ ThenRefused[1] = Value(0)
  /\ ThenTaken \in Seq(Unit) /\ Len(ThenTaken) = 2 /\ ThenTaken[1] = Value(0)
<1> DEFINE m == Value(-1)
           o == Value(0)
           l == Value(1)
           d == Value(2)
           b == Bytes
           v == Version
<1>1. m \in Unit /\ o \in Unit /\ l \in Unit /\ d \in Unit /\ b \in Unit /\ v \in Unit
  BY Units
<1> HIDE DEF m, o, l, d, b, v
<1>2. /\ <<m>> \in Seq(Unit) /\ Len(<<m>>) = 1 /\ <<m>>[1] = m
      /\ <<o>> \in Seq(Unit) /\ Len(<<o>>) = 1 /\ <<o>>[1] = o
      /\ <<v>> \in Seq(Unit) /\ Len(<<v>>) = 1 /\ <<v>>[1] = v
  BY <1>1, OneLong
<1>3. /\ <<l, b>> \in Seq(Unit) /\ Len(<<l, b>>) = 2 /\ <<l, b>>[1] = l
      /\ <<o, m>> \in Seq(Unit) /\ Len(<<o, m>>) = 2 /\ <<o, m>>[1] = o
      /\ <<o, d>> \in Seq(Unit) /\ Len(<<o, d>>) = 2 /\ <<o, d>>[1] = o
  BY <1>1, TwoLong
<1> QED
  BY <1>2, <1>3, Zenon
  DEF m, o, l, d, b, v, Refused, Accepting, WithValue, WithVersion, ThenRefused, ThenTaken

\* The answers to a refill, with the samples in one part or in two.
LEMMA ReadAnswers ==
  ASSUME NEW a \in Answers("READBUF")
  PROVE  /\ a \in Seq(Unit)
         /\ \/ Len(a) = 1 /\ a[1] \in {Value(-1), Value(0)}
            \/ Len(a) = 3 /\ a[1] = Value(2)
            \/ Len(a) = 4 /\ a[1] = Value(1) /\ a[4] \in {Value(-1), Value(0)}
            \/ Len(a) = 5 /\ a[1] = Value(1) /\ a[4] = Value(1)
<1> DEFINE l == Value(1)
           d == Value(2)
           b == Bytes
           two == <<d, b, b>>
           three == <<l, b, b>>
<1>1. l \in Unit /\ d \in Unit /\ b \in Unit
  BY Units
<1> HIDE DEF l, d, b
<1>2. two \in Seq(Unit) /\ Len(two) = 3 /\ two[1] = d
  BY <1>1, ThreeLong
<1>3. three \in Seq(Unit) /\ Len(three) = 3 /\ three[1] = l
  BY <1>1, ThreeLong
<1>4. \/ a = Refused \/ a = Accepting \/ a = two
      \/ \E end \in {WithValue, Accepting, Refused} : a = three \o end
  BY DEF Answers, Len2, l, d, b, Refused, Accepting, WithValue
<1> HIDE DEF two, three
<1>5. CASE a = Refused \/ a = Accepting
  BY <1>5, ShortAnswers
<1>6. CASE a = two
  BY <1>2, <1>6 DEF d
<1>7. CASE \E end \in {WithValue, Accepting, Refused} : a = three \o end
  <2>1. PICK end \in {WithValue, Accepting, Refused} : a = three \o end
    BY <1>7
  <2>2. end \in Seq(Unit)
    BY <2>1, ShortAnswers
  <2>3. \/ Len(end) = 1 /\ end[1] \in {Value(-1), Value(0)}
        \/ Len(end) = 2 /\ end[1] = Value(1)
    BY <2>1, ShortAnswers
  <2>4. /\ three \o end \in Seq(Unit) /\ Len(three \o end) = Len(three) + Len(end)
        /\ \A i \in 1 .. Len(three) + Len(end) :
             (three \o end)[i] = IF i <= Len(three) THEN three[i] ELSE end[i - Len(three)]
    BY <1>3, <2>2, ConcatProperties
  <2>5. a[1] = l /\ a[4] = end[1]
    <3>1. 1 \in 1 .. 3 + Len(end) /\ 4 \in 1 .. 3 + Len(end) /\ 4 - 3 = 1
      BY <2>3
    <3> QED
      BY <1>3, <2>1, <2>4, <3>1
  <2>6. a \in Seq(Unit) /\ Len(a) = 3 + Len(end)
    BY <2>1, <1>3, <2>4
  <2>7. CASE Len(end) = 1 /\ end[1] \in {Value(-1), Value(0)}
    <3>1. Len(a) = 4 /\ a[4] \in {Value(-1), Value(0)}
      BY <2>5, <2>6, <2>7
    <3> QED
      BY <2>5, <2>6, <3>1, Zenon DEF l
  <2>8. CASE Len(end) = 2 /\ end[1] = Value(1)
    <3>1. Len(a) = 5 /\ a[4] = Value(1)
      BY <2>5, <2>6, <2>8
    <3> QED
      BY <2>5, <2>6, <3>1, Zenon DEF l
  <2> QED
    BY <2>3, <2>7, <2>8, Zenon
<1> QED
  BY <1>4, <1>5, <1>6, <1>7

LEMMA OtherAnswers ==
  ASSUME NEW cmd \in Cmds \ {"READBUF"}, NEW a \in Answers(cmd)
  PROVE  \/ a = Refused /\ cmd \notin {"PRINT", "VERSION"}
         \/ a = Accepting /\ cmd \in {"GETTRIG", "WRITE", "SET", "TIMEOUT", "OPEN", "CLOSE"}
         \/ a = WithValue /\ cmd \in {"READ", "ZPRINT", "PRINT", "GETTRIG"}
         \/ a = WithVersion /\ cmd = "VERSION"
         \/ a \in {ThenRefused, ThenTaken} /\ cmd = "WRITEBUF"
  BY DEF Answers, Len2, Cmds, ControlOps, BufferCmds,
         Refused, Accepting, WithValue, WithVersion, ThenRefused, ThenTaken

LEMMA AnswersType ==
  ASSUME NEW cmd \in Cmds, NEW a \in Answers(cmd)
  PROVE  a \in Seq(Unit) /\ Len(a) \in 1 .. 5
<1>1. CASE cmd = "READBUF"
  BY <1>1, ReadAnswers
<1>2. CASE cmd # "READBUF"
  <2>1. a \in {Refused, Accepting, WithValue, WithVersion, ThenRefused, ThenTaken}
    BY <1>2, OtherAnswers
  <2> QED
    BY <2>1, ShortAnswers
<1> QED
  BY <1>1, <1>2
LEMMA CommandOf ==
  ASSUME NEW p \in Call, NEW t, CallFits(p, t), p.op # "none"
  PROVE  Asked(p) \in Cmds
  BY DEF Asked, Cmds, BufferCmds, ControlOps, BufferOps, Call

LEMMA ServiceIs ==
  ASSUME NEW by, NEW cmd, NEW rest
  PROVE  /\ rest = <<>> => Serving(by, cmd, rest) = NotServing
         /\ rest # <<>> => Serving(by, cmd, rest) = [by |-> by, cmd |-> cmd, rest |-> rest]
  BY DEF Serving

-----------------------------------------------------------------------------
(* An exchange goes on. *)

LEMMA RequestedFits ==
  ASSUME NEW p \in Call, NEW t \in Threads, CallFits(p, t), p.op # "none"
  PROVE  /\ Requested(p, t) \in Seq(Request) /\ Requested(p, t) # <<>>
         /\ Head(Requested(p, t)).cmd = Asked(p) /\ Head(Requested(p, t)).by = t
         /\ IF Head(Requested(p, t)).cmd = "WRITE" THEN Tail(Tail(Requested(p, t))) = <<>>
                                                    ELSE Tail(Requested(p, t)) = <<>>
<1>1. CASE p.op = "WRITE"
  <2> DEFINE w == [cmd |-> "WRITE", by |-> t, val |-> 0]
             d == [cmd |-> "DATA", by |-> t, val |-> 0]
  <2>1. Requested(p, t) = <<w, d>> /\ Asked(p) = "WRITE"
    BY <1>1 DEF Requested, Req, Asked
  <2>2. w \in Request /\ d \in Request /\ w.cmd = "WRITE" /\ w.by = t
    BY DEF Request, Asker, Cmds, ControlOps, BufferCmds, RemoteVal
  <2> HIDE DEF w, d
  <2> QED
    BY <2>1, <2>2
<1>2. CASE p.op = "TIMEOUT"
  <2> DEFINE w == [cmd |-> "TIMEOUT", by |-> t, val |-> calculate_remote_timeout(p.val)]
  <2>1. Requested(p, t) = <<w>> /\ Asked(p) = "TIMEOUT"
    BY <1>2 DEF Requested, Req, Asked
  <2>2. calculate_remote_timeout(p.val) \in RemoteVal
    BY <1>2 DEF CallFits, RemoteVal
  <2>3. w \in Request /\ w.cmd = "TIMEOUT" /\ w.by = t
    BY <2>2 DEF Request, Asker, Cmds, ControlOps
  <2> HIDE DEF w
  <2> QED
    BY <2>1, <2>3
<1>3. CASE p.op \notin {"WRITE", "TIMEOUT"}
  <2>1. Requested(p, t) = <<[cmd |-> Asked(p), by |-> t, val |-> 0]>>
    BY <1>3 DEF Requested, Req
  <2>2. Asked(p) \in Cmds /\ Asked(p) # "WRITE"
    BY <1>3, CommandOf DEF Asked, Call, ControlOps, BufferOps
  <2>3. 0 \in RemoteVal /\ t \in Asker
    BY DEF RemoteVal, Asker
  <2> QED
    BY <2>1, <2>2, <2>3 DEF Request
<1> QED
  BY <1>1, <1>2, <1>3

\* The daemon sends the unit that comes next.
LEMMA SendsNext ==
  ASSUME NEW c \in Connection, NEW d \in Connection, NEW p, NEW t \in Threads,
         NEW a \in Seq(Unit), NEW i \in Nat, NEW j \in 1 .. Len(a), i <= j,
         Sending(c, p, t, a, i, j), c.srv.rest # <<>>,
         d.srv = Serving(c.srv.by, c.srv.cmd, Tail(c.srv.rest)),
         d.down = Append(c.down, [unit |-> Head(c.srv.rest), by |-> c.srv.by])
  PROVE  j < Len(a) /\ Sending(d, p, t, a, i, j + 1)
<1> DEFINE rest == c.srv.rest
           down == c.down
           new == [unit |-> Head(rest), by |-> c.srv.by]
<1>1. rest \in Seq(Unit) /\ down \in Seq(Arrival) /\ Len(a) \in Nat
  BY DEF Connection, Service
<1>2. j # Len(a)
  BY DEF Sending, NotServing
<1>3. /\ c.srv.by = t /\ c.srv.cmd = Asked(p) /\ Len(rest) = Len(a) - j
      /\ \A n \in 1 .. Len(rest) : rest[n] = a[j + n]
      /\ Len(down) = j - i
      /\ \A n \in 1 .. Len(down) : down[n] = [unit |-> a[i + n], by |-> t]
  BY <1>2 DEF Sending
<1>4. Head(rest) = a[j + 1] /\ new \in Arrival
  <2>1. Head(rest) = rest[1] /\ 1 \in 1 .. Len(rest) /\ Head(rest) \in Unit
    BY <1>1, <1>2, <1>3
  <2> QED
    BY <2>1, <1>3 DEF Arrival, Asker
<1>5. /\ Tail(rest) \in Seq(Unit) /\ Len(Tail(rest)) = Len(rest) - 1
      /\ \A n \in 1 .. Len(Tail(rest)) : Tail(rest)[n] = rest[n + 1]
  BY <1>1, HeadTailProperties
<1>6. /\ Len(Append(down, new)) = Len(down) + 1
      /\ \A n \in 1 .. Len(down) : Append(down, new)[n] = down[n]
      /\ Append(down, new)[Len(down) + 1] = new
  BY <1>1, <1>4, AppendProperties
<1>7. d.down = Append(down, new)
  OBVIOUS
<1>8. Tail(rest) = <<>> <=> Len(Tail(rest)) = 0
  BY <1>5, EmptySeq
<1>12. Len(Tail(rest)) = Len(a) - (j + 1) /\ Len(rest) \in Nat /\ Len(down) \in Nat
  BY <1>1, <1>3, <1>5
<1>13. j < Len(a)
  BY <1>1, <1>2
<1> HIDE DEF rest, down
<1>9. /\ Len(d.down) = j + 1 - i
      /\ \A n \in 1 .. Len(d.down) : d.down[n] = [unit |-> a[i + n], by |-> t]
  <2>1. Len(d.down) = Len(down) + 1
    BY <1>6, <1>7
  <2>2. ASSUME NEW n \in 1 .. Len(d.down)
        PROVE  d.down[n] = [unit |-> a[i + n], by |-> t]
    <3>1. CASE n \in 1 .. Len(down)
      BY <3>1, <1>3, <1>6, <1>7
    <3>2. CASE n = Len(down) + 1
      <4>1. d.down[n] = new
        BY <3>2, <1>6, <1>7
      <4>2. i + n = j + 1
        BY <3>2, <1>3
      <4> QED
        BY <4>1, <4>2, <1>3, <1>4
    <3> QED
      BY <3>1, <3>2, <2>1, <1>3
  <2>3. Len(d.down) = j + 1 - i
    BY <2>1, <1>3, <1>12
  <2> QED
    BY <2>2, <2>3
<1>10. CASE j + 1 = Len(a)
  <2>1. Tail(rest) = <<>>
    BY <1>8, <1>10, <1>12
  <2>2. d.srv = NotServing
    BY <2>1, ServiceIs DEF rest
  <2> QED
    BY <1>2, <1>9, <1>10, <2>2 DEF Sending
<1>11. CASE j + 1 # Len(a)
  <2>1. Tail(rest) # <<>>
    <3>1. Len(Tail(rest)) # 0
      <4>1. Len(a) - (j + 1) # 0
        BY <1>1, <1>11
      <4> QED
        BY <4>1, <1>12
    <3> QED
      BY <3>1, <1>8, Zenon
  <2>2. d.srv = [by |-> c.srv.by, cmd |-> c.srv.cmd, rest |-> Tail(rest)]
    <3>1. d.srv = Serving(c.srv.by, c.srv.cmd, Tail(rest))
      BY DEF rest
    <3> QED
      BY <2>1, <3>1 DEF Serving
  <2>3. d.srv.by = t /\ d.srv.cmd = Asked(p) /\ d.srv.rest = Tail(rest)
    BY <2>2, <1>3
  <2>4. Len(d.srv.rest) = Len(a) - (j + 1)
    BY <2>3, <1>12
  <2>5. \A n \in 1 .. Len(d.srv.rest) : d.srv.rest[n] = a[(j + 1) + n]
    <3>1. ASSUME NEW n \in 1 .. Len(d.srv.rest) PROVE d.srv.rest[n] = a[(j + 1) + n]
      <4>1. n + 1 \in 1 .. Len(rest) /\ j + (n + 1) = (j + 1) + n /\ n \in 1 .. Len(Tail(rest))
        <5>1. n \in 1 .. Len(Tail(rest))
          BY <2>3, Zenon
        <5>2. Len(rest) = Len(Tail(rest)) + 1
          <6>1. Len(rest) = Len(a) - j
            BY <1>3, Zenon
          <6> QED
            BY <6>1, <1>12, <1>1
        <5>3. n \in Nat /\ j \in Nat
          BY <5>1, <1>1, <1>12
        <5> QED
          BY <5>1, <5>2, <5>3, <1>12
      <4> QED
        BY <4>1, <2>3, <1>3, <1>5
    <3> QED
      BY <3>1
  <2> QED
    <3>1. IF j + 1 = Len(a) THEN d.srv = NotServing
          ELSE /\ d.srv.by = t /\ d.srv.cmd = Asked(p) /\ Len(d.srv.rest) = Len(a) - (j + 1)
               /\ \A n \in 1 .. Len(d.srv.rest) : d.srv.rest[n] = a[(j + 1) + n]
      BY <1>11, <2>3, <2>4, <2>5, Zenon
    <3> QED
      BY <1>9, <1>13, <3>1 DEF Sending
<1> QED
  BY <1>10, <1>11

\* The client takes the unit that comes next, which was sent to it.
LEMMA TakesNext ==
  ASSUME NEW c \in Connection, NEW d \in Connection, NEW p, NEW t,
         NEW a \in Seq(Unit), NEW i \in Nat, NEW j \in 1 .. Len(a), i <= j,
         Sending(c, p, t, a, i, j), c.down # <<>>,
         d.srv = c.srv, d.down = Tail(c.down)
  PROVE  /\ i < j /\ Head(c.down) = [unit |-> a[i + 1], by |-> t]
         /\ Sending(d, p, t, a, i + 1, j)
         /\ i + 1 = Len(a) => d.srv = NotServing /\ d.down = <<>>
<1>1. c.down \in Seq(Arrival) /\ Len(a) \in Nat
  BY DEF Connection
<1>2. /\ Len(c.down) = j - i
      /\ \A n \in 1 .. Len(c.down) : c.down[n] = [unit |-> a[i + n], by |-> t]
  BY DEF Sending
<1>3. /\ Tail(c.down) \in Seq(Arrival) /\ Len(Tail(c.down)) = Len(c.down) - 1
      /\ \A n \in 1 .. Len(Tail(c.down)) : Tail(c.down)[n] = c.down[n + 1]
  BY <1>1, HeadTailProperties
<1>4. i < j
  BY <1>1, <1>2, <1>3
<1>5. Head(c.down) = [unit |-> a[i + 1], by |-> t]
  <2>1. Head(c.down) = c.down[1] /\ 1 \in 1 .. Len(c.down)
    BY <1>1, <1>2, <1>4
  <2> QED
    BY <2>1, <1>2
<1>6. Len(d.down) = j - (i + 1)
  BY <1>2, <1>3
<1>7. \A n \in 1 .. Len(d.down) : d.down[n] = [unit |-> a[(i + 1) + n], by |-> t]
  <2>1. ASSUME NEW n \in 1 .. Len(d.down)
        PROVE  d.down[n] = [unit |-> a[(i + 1) + n], by |-> t]
    <3>1. n + 1 \in 1 .. Len(c.down) /\ i + (n + 1) = (i + 1) + n
      BY <1>1, <1>3
    <3>2. d.down[n] = c.down[n + 1]
      BY <1>3
    <3> QED
      BY <3>1, <3>2, <1>2
  <2> QED
    BY <2>1
<1>8. Sending(d, p, t, a, i + 1, j)
  BY <1>6, <1>7 DEF Sending
<1>9. ASSUME i + 1 = Len(a) PROVE d.srv = NotServing /\ d.down = <<>>
  <2>1. j = Len(a) /\ j - i = 1
    BY <1>1, <1>4, <1>9
  <2>3. Len(Tail(c.down)) = 0
    <3>1. j - i - 1 = 0
      BY <2>1
    <3> QED
      BY <3>1, <1>2, <1>3
  <2>2. d.down = <<>>
    BY <2>3, <1>3, EmptySeq
  <2> QED
    BY <2>1, <2>2 DEF Sending
<1> QED
  BY <1>4, <1>5, <1>8, <1>9

LEMMA Exchanging ==
  ASSUME NEW p \in Call, NEW t \in Threads, CallFits(p, t), p.op # "none"
  PROVE  /\ Asked(p) \in Cmds
         /\ \A a \in Answers(Asked(p)) : a \in Seq(Unit) /\ Len(a) \in 1 .. 5
         /\ Asked(p) = "WRITEBUF" <=> p.op = "write"
         /\ p.at = "result" => p.op = "write"
         /\ p.at = "status" => p.op = "write"
         /\ p.op = "write" => p.at \in {"status", "result"}
<1>1. Asked(p) \in Cmds
  BY CommandOf
<1>2. Asked(p) = "WRITEBUF" <=> p.op = "write"
  BY DEF Asked, Call, BufferOps, ControlOps
<1>3. /\ p.at = "result" => p.op = "write"
      /\ p.at = "status" => p.op = "write"
      /\ p.op = "write" => p.at \in {"status", "result"}
  BY DEF CallFits, PointsOf, Call, BufferOps, ControlOps
<1> QED
  BY <1>1, <1>2, <1>3, AnswersType

\* The daemon begins to answer what it was asked.
LEMMA ServeExchange ==
  ASSUME NEW c \in Connection, NEW d \in Connection, NEW p \in Call, NEW t \in Threads,
         CallFits(p, t), p.op # "none", Exchange(c, p, t),
         c.srv = NotServing, c.up # <<>>, NEW a \in Answers(Head(c.up).cmd),
         d.up = IF Head(c.up).cmd = "WRITE" THEN Tail(Tail(c.up)) ELSE Tail(c.up),
         d.srv = Serving(Head(c.up).by, Head(c.up).cmd, Tail(a)),
         d.down = Append(c.down, [unit |-> Head(a), by |-> Head(c.up).by])
  PROVE  /\ Unasked(c, p, t) /\ Head(c.up).cmd = Asked(p) /\ a \in Answers(Asked(p))
         /\ Answered(d, p, t, a, 0, 1) /\ Exchange(d, p, t)
<1>1. /\ Unasked(c, p, t)
      /\ \/ p.at \in {"int", "line", "opened", "status", "closed"}
         \/ p.at = "samples" /\ p.first /\ p.val = 2
  <2>1. ASSUME NEW b \in Answers(Asked(p)), NEW i \in 0 .. Len(b) - 1, NEW j \in 1 .. Len(b),
               Answered(c, p, t, b, i, j)
        PROVE  FALSE
    <3>1. p.at = "result" /\ j = 1
      BY <2>1 DEF Answered, DataUp
    <3>2. i = 1 /\ Len(b) = 2
      BY <2>1, <3>1 DEF Answered, TakenOf
    <3>3. c.srv.by = t
      BY <2>1, <3>1, <3>2 DEF Answered, Sending
    <3> QED
      BY <3>3, ClientAssumption DEF NotServing
  <2> QED
    BY <2>1 DEF Exchange
<1>2. c.up = Requested(p, t) /\ c.down = <<>>
  BY <1>1 DEF Unasked
<1>3. Head(c.up).cmd = Asked(p) /\ Head(c.up).by = t /\ d.up = <<>>
  BY <1>2, RequestedFits
<1>4. a \in Answers(Asked(p)) /\ a \in Seq(Unit) /\ Len(a) \in 1 .. 5
  BY <1>3, Exchanging
<1>5. Head(a) = a[1] /\ Head(a) \in Unit /\ a # <<>>
  BY <1>4, ElementOfSeq, EmptySeq
<1>6. /\ Tail(a) \in Seq(Unit) /\ Len(Tail(a)) = Len(a) - 1
      /\ \A n \in 1 .. Len(Tail(a)) : Tail(a)[n] = a[n + 1]
  BY <1>4, <1>5, HeadTailProperties
<1>7. d.down = <<[unit |-> Head(a), by |-> t]>>
  BY <1>2, <1>3
<1>8. /\ Len(d.down) = 1 - 0
      /\ \A n \in 1 .. Len(d.down) : d.down[n] = [unit |-> a[0 + n], by |-> t]
  BY <1>5, <1>7
<1>9. IF 1 = Len(a) THEN d.srv = NotServing
      ELSE /\ d.srv.by = t /\ d.srv.cmd = Asked(p) /\ Len(d.srv.rest) = Len(a) - 1
           /\ \A n \in 1 .. Len(d.srv.rest) : d.srv.rest[n] = a[1 + n]
  <2>1. CASE 1 = Len(a)
    <3>1. Len(Tail(a)) = 0
      BY <2>1, <1>6
    <3>2. Tail(a) = <<>>
      BY <3>1, <1>6, EmptySeq
    <3> QED
      BY <2>1, <3>2 DEF Serving
  <2>2. CASE 1 # Len(a)
    <3>1. Len(Tail(a)) # 0
      BY <2>2, <1>4, <1>6
    <3>2. Tail(a) # <<>>
      BY <3>1, EmptySeq
    <3>3. d.srv = [by |-> t, cmd |-> Asked(p), rest |-> Tail(a)]
      BY <3>2, <1>3 DEF Serving
    <3>4. \A n \in 1 .. Len(Tail(a)) : Tail(a)[n] = a[1 + n]
      BY <1>4, <1>6
    <3>5. /\ d.srv.by = t /\ d.srv.cmd = Asked(p) /\ d.srv.rest = Tail(a)
      BY <3>3
    <3>6. Len(d.srv.rest) = Len(a) - 1
      BY <3>5, <1>6
    <3> QED
      BY <2>2, <3>4, <3>5, <3>6, Zenon
  <2> QED
    BY <2>1, <2>2
<1>10. Sending(d, p, t, a, 0, 1)
  BY <1>8, <1>9 DEF Sending
<1>11. TakenOf(p, a, 0) /\ DataUp(p, t, 1) = <<>>
  BY <1>1 DEF TakenOf, DataUp, CallFits, PointsOf
<1>12. Answered(d, p, t, a, 0, 1)
  <2>1. d.up = DataUp(p, t, 1)
    BY <1>3, <1>11, Zenon
  <2>2. 0 <= 1
    OBVIOUS
  <2> QED
    BY <1>10, <1>11, <2>1, <2>2, Zenon DEF Answered
<1>13. 0 \in 0 .. Len(a) - 1 /\ 1 \in 1 .. Len(a)
  BY <1>4
<1> QED
  BY <1>1, <1>3, <1>4, <1>12, <1>13 DEF Exchange

\* And goes on.
LEMMA ReplyExchange ==
  ASSUME NEW c \in Connection, NEW d \in Connection, NEW p \in Call, NEW t \in Threads,
         CallFits(p, t), p.op # "none", Exchange(c, p, t),
         c.srv.rest # <<>>, c.srv.cmd = "WRITEBUF" => c.up # <<>>,
         d.up = IF c.srv.cmd = "WRITEBUF" THEN Tail(c.up) ELSE c.up,
         d.srv = Serving(c.srv.by, c.srv.cmd, Tail(c.srv.rest)),
         d.down = Append(c.down, [unit |-> Head(c.srv.rest), by |-> c.srv.by])
  PROVE  /\ Exchange(d, p, t)
         /\ \E a \in Answers(Asked(p)) : Len(a) > 1
<1>1. PICK a \in Answers(Asked(p)) : \E i \in 0 .. Len(a) - 1 : \E j \in 1 .. Len(a) :
        Answered(c, p, t, a, i, j)
  BY DEF Exchange, Unasked, NotServing
<1>2. PICK i \in 0 .. Len(a) - 1 : \E j \in 1 .. Len(a) : Answered(c, p, t, a, i, j)
  BY <1>1
<1>3. PICK j \in 1 .. Len(a) : Answered(c, p, t, a, i, j)
  BY <1>2
<1>4. a \in Seq(Unit) /\ Len(a) \in 1 .. 5 /\ i \in Nat
  BY Exchanging
<1>5. /\ i <= j /\ Sending(c, p, t, a, i, j) /\ TakenOf(p, a, i) /\ c.up = DataUp(p, t, j)
      /\ p.at = "status" => j = 1
  BY <1>3 DEF Answered
<1>6. j < Len(a) /\ Sending(d, p, t, a, i, j + 1)
  BY <1>4, <1>5, SendsNext
<1>7. c.srv.cmd = Asked(p)
  BY <1>4, <1>5, <1>6 DEF Sending
<1>8. p.at # "status"
  BY <1>5, <1>7, Exchanging DEF DataUp
<1>9. d.up = DataUp(p, t, j + 1)
  <2>1. CASE p.op = "write"
    <3>1. p.at = "result" /\ c.up # <<>> /\ d.up = Tail(c.up)
      BY <2>1, <1>7, <1>8, Exchanging
    <3> DEFINE r == Req("DATA", t, 0)
    <3>2. DataUp(p, t, j) = IF j = 1 THEN <<r>> ELSE <<>>
      BY <3>1 DEF DataUp
    <3> HIDE DEF r
    <3>3. j = 1 /\ c.up = <<r>>
      BY <3>1, <3>2, <1>5, Zenon
    <3>5. Tail(<<r>>) = <<>>
      OBVIOUS
    <3>4. d.up = <<>>
      BY <3>1, <3>3, <3>5, Zenon
    <3>6. j + 1 # 1
      BY <3>3
    <3> QED
      BY <3>4, <3>6, Zenon DEF DataUp
  <2>2. CASE p.op # "write"
    <3>1. p.at # "result" /\ d.up = c.up
      BY <2>2, <1>7, Exchanging
    <3> QED
      BY <3>1, <1>5 DEF DataUp
  <2> QED
    BY <2>1, <2>2
<1>10. Answered(d, p, t, a, i, j + 1)
  BY <1>4, <1>5, <1>6, <1>8, <1>9 DEF Answered
<1>11. j + 1 \in 1 .. Len(a) /\ Len(a) > 1
  BY <1>4, <1>6
<1> QED
  BY <1>10, <1>11 DEF Exchange

\* The client takes what was sent to it.
LEMMA TakeExchange ==
  ASSUME NEW c \in Connection, NEW d \in Connection, NEW p \in Call, NEW t \in Threads,
         CallFits(p, t), p.op # "none", Exchange(c, p, t), c.down # <<>>,
         d.srv = c.srv, d.down = Tail(c.down)
  PROVE  \E a \in Seq(Unit) : \E i, j \in Nat :
           /\ a \in Answers(Asked(p))
           /\ i < j /\ j <= Len(a) /\ TakenOf(p, a, i) /\ c.up = <<>> /\ (p.at = "status" => j = 1)
           /\ Head(c.down).unit = a[i + 1] /\ Head(c.down).by = t
           /\ Sending(d, p, t, a, i + 1, j)
           /\ i + 1 = Len(a) => d.srv = NotServing /\ d.down = <<>>
<1>1. PICK a \in Answers(Asked(p)) : \E i \in 0 .. Len(a) - 1 : \E j \in 1 .. Len(a) :
        Answered(c, p, t, a, i, j)
  BY DEF Exchange, Unasked
<1>2. PICK i \in 0 .. Len(a) - 1 : \E j \in 1 .. Len(a) : Answered(c, p, t, a, i, j)
  BY <1>1
<1>3. PICK j \in 1 .. Len(a) : Answered(c, p, t, a, i, j)
  BY <1>2
<1>4. a \in Seq(Unit) /\ Len(a) \in 1 .. 5 /\ i \in Nat
  BY Exchanging
<1>5. /\ i <= j /\ Sending(c, p, t, a, i, j) /\ TakenOf(p, a, i) /\ c.up = DataUp(p, t, j)
      /\ p.at = "status" => j = 1
  BY <1>3 DEF Answered
<1>6. /\ i < j /\ Head(c.down) = [unit |-> a[i + 1], by |-> t]
      /\ Sending(d, p, t, a, i + 1, j)
      /\ i + 1 = Len(a) => d.srv = NotServing /\ d.down = <<>>
  BY <1>4, <1>5, TakesNext
<1>7. c.up = <<>>
  <2>1. CASE p.at = "result"
    <3>1. i = 1
      BY <2>1, <1>5 DEF TakenOf
    <3>2. j # 1
      BY <3>1, <1>6
    <3> QED
      BY <3>2, <1>5 DEF DataUp
  <2>2. CASE p.at # "result"
    BY <2>2, <1>5 DEF DataUp
  <2> QED
    BY <2>1, <2>2
<1>8. Head(c.down).unit = a[i + 1] /\ Head(c.down).by = t
  BY <1>6
<1>9. j \in Nat /\ j <= Len(a)
  BY <1>4
<1> QED
  BY <1>4, <1>5, <1>6, <1>7, <1>8, <1>9

-----------------------------------------------------------------------------
(* What each step of a call takes. *)

\* The last unit of an answer.
LEMMA TakesLast ==
  ASSUME NEW c \in Connection, NEW d \in Connection, NEW p \in Call, NEW t \in Threads,
         CallFits(p, t), Exchange(c, p, t), c.down # <<>>,
         d.up = c.up, d.srv = c.srv, d.down = Tail(c.down),
         p.at \in {"line", "value", "discard", "opened", "result"}
  PROVE  Still(d) /\ Head(c.down).by = t
<1>1. p.op # "none"
  BY DEF CallFits, Idle
<1>2. PICK a \in Seq(Unit) : \E i, j \in Nat :
        /\ a \in Answers(Asked(p))
        /\ i < j /\ j <= Len(a) /\ TakenOf(p, a, i) /\ c.up = <<>> /\ (p.at = "status" => j = 1)
        /\ Head(c.down).unit = a[i + 1] /\ Head(c.down).by = t
        /\ Sending(d, p, t, a, i + 1, j)
        /\ i + 1 = Len(a) => d.srv = NotServing /\ d.down = <<>>
  BY <1>1, TakeExchange
<1>3. PICK i \in Nat :
        /\ a \in Answers(Asked(p))
        /\ TakenOf(p, a, i) /\ c.up = <<>> /\ Head(c.down).by = t
        /\ i + 1 = Len(a) => d.srv = NotServing /\ d.down = <<>>
  BY <1>2
<1>4. CASE p.at \in {"value", "discard", "result"}
  <2>1. i = 1 /\ Len(a) = 2
    BY <1>3, <1>4 DEF TakenOf
  <2>2. i + 1 = Len(a)
    BY <2>1
  <2> QED
    BY <1>3, <2>2, Zenon DEF Still
<1>5. CASE p.at \in {"line", "opened"}
  <2>1. Asked(p) \in {"VERSION", "OPEN"}
    BY <1>5 DEF CallFits, PointsOf, Call, BufferOps, ControlOps, Asked
  <2>2. a \in {WithVersion, Refused, Accepting}
    BY <1>3, <2>1, OtherAnswers DEF Cmds, ControlOps, BufferCmds
  <2>3. Len(a) = 1
    BY <2>2, ShortAnswers
  <2> QED
    <3>1. i = 0
      BY <1>3, <1>5 DEF TakenOf
    <3>2. i + 1 = Len(a)
      BY <2>3, <3>1
    <3> QED
      BY <1>3, <3>2, Zenon DEF Still
<1> QED
  BY <1>4, <1>5

\* Whether the integer u is followed by a value in the call p.
ValueFollows(p, u) ==
  /\ u.v >= 0 /\ p.op \in {"READ", "PRINT", "GETTRIG"} /\ ~(p.op = "GETTRIG" /\ u.v = 0)

\* The integer of a command.
LEMMA TakesInt ==
  ASSUME NEW c \in Connection, NEW d \in Connection, NEW p \in Call, NEW t \in Threads,
         CallFits(p, t), Exchange(c, p, t), c.down # <<>>,
         d.up = c.up, d.srv = c.srv, d.down = Tail(c.down),
         p.at = "int", NEW q
  PROVE  /\ Head(c.down).by = t /\ Head(c.down).unit.kind = "int"
         /\ p.op \in {"WRITE", "SET", "TIMEOUT"} => Head(c.down).unit \in {Value(-1), Value(0)}
         /\ p.op = "PRINT" /\ ~p.first => ValueFollows(p, Head(c.down).unit)
         /\ ~ValueFollows(p, Head(c.down).unit) => Still(d)
         /\ (ValueFollows(p, Head(c.down).unit) /\ q.op = p.op /\ q.first = p.first
              /\ q.at \in {"value", "discard"}) => Exchange(d, q, t)
<1> DEFINE u == Head(c.down).unit
<1>1. p.op \in {"READ", "PRINT", "GETTRIG", "WRITE", "SET", "TIMEOUT"}
  BY DEF CallFits, PointsOf, Call, BufferOps, ControlOps
<1>2. PICK a \in Seq(Unit) : \E i, j \in Nat :
        /\ a \in Answers(Asked(p))
        /\ i < j /\ j <= Len(a) /\ TakenOf(p, a, i) /\ c.up = <<>> /\ (p.at = "status" => j = 1)
        /\ u = a[i + 1] /\ Head(c.down).by = t /\ Sending(d, p, t, a, i + 1, j)
        /\ i + 1 = Len(a) => d.srv = NotServing /\ d.down = <<>>
  BY <1>1, TakeExchange
<1>4. PICK i \in Nat, j \in Nat :
        /\ a \in Answers(Asked(p))
        /\ i < j /\ j <= Len(a) /\ TakenOf(p, a, i) /\ c.up = <<>> /\ (p.at = "status" => j = 1)
        /\ u = a[i + 1] /\ Head(c.down).by = t /\ Sending(d, p, t, a, i + 1, j)
        /\ i + 1 = Len(a) => d.srv = NotServing /\ d.down = <<>>
  BY <1>2
<1>3. Len(a) \in Nat
  OBVIOUS
<1>13. i + 1 \in 0 .. Len(a) /\ j \in 1 .. Len(a) /\ a \in Answers(Asked(p))
  BY <1>3, <1>4
<1>5. i = 0 /\ u = a[1]
  BY <1>4 DEF TakenOf
<1>6. Asked(p) \in Cmds \ {"READBUF", "VERSION", "WRITEBUF"}
  BY <1>1 DEF Asked, Cmds, ControlOps
<1>7. \/ a = Refused /\ ~(p.op = "PRINT" /\ ~p.first)
      \/ a = Accepting /\ p.op \notin {"READ", "PRINT"}
      \/ a = WithValue /\ p.op \in {"READ", "PRINT", "GETTRIG"}
  <2>1. /\ p.op # "PRINT" => Asked(p) = p.op
        /\ p.op = "PRINT" => Asked(p) = IF p.first THEN "ZPRINT" ELSE "PRINT"
    BY <1>1 DEF Asked
  <2>2. \/ a = Refused /\ Asked(p) # "PRINT"
        \/ a = Accepting
             /\ Asked(p) \in {"GETTRIG", "WRITE", "SET", "TIMEOUT", "OPEN", "CLOSE"}
        \/ a = WithValue /\ Asked(p) \in {"READ", "ZPRINT", "PRINT", "GETTRIG"}
    BY <1>13, <1>6, OtherAnswers
  <2> QED
    BY <1>1, <2>1, <2>2
<1>8. /\ Value(-1).v = -1 /\ Value(0).v = 0 /\ Value(1).v = 1
      /\ Value(-1).kind = "int" /\ Value(0).kind = "int" /\ Value(1).kind = "int"
  BY DEF Value
<1>9. u \in {Value(-1), Value(0), Value(1)}
  BY <1>5, <1>7, ShortAnswers
<1>10. CASE a = WithValue /\ p.op \in {"READ", "PRINT", "GETTRIG"}
  <2>1. u = Value(1) /\ Len(a) = 2
    BY <1>5, <1>10, ShortAnswers
  <2>2. ValueFollows(p, u)
    BY <1>8, <1>10, <2>1 DEF ValueFollows
  <2>3. ASSUME q.op = p.op, q.first = p.first, q.at \in {"value", "discard"}
        PROVE  Exchange(d, q, t)
    <3>1. Asked(q) = Asked(p)
      BY <2>3 DEF Asked
    <3>2. Sending(d, q, t, a, 1, j)
      <4>1. i + 1 = 1
        BY <1>5
      <4>2. Sending(d, p, t, a, 1, j)
        BY <4>1, <1>4, Zenon
      <4> QED
        BY <3>1, <4>2 DEF Sending
    <3>3. TakenOf(q, a, 1) /\ DataUp(q, t, j) = <<>>
      BY <2>1, <2>3, <1>1 DEF TakenOf, DataUp
    <3>4. Answered(d, q, t, a, 1, j)
      BY <2>3, <3>2, <3>3, <1>4 DEF Answered
    <3>5. 1 \in 0 .. Len(a) - 1
      BY <2>1
    <3> QED
      BY <1>13, <3>1, <3>4, <3>5 DEF Exchange
  <2> QED
    <3>1. Head(c.down).unit.kind = "int" /\ p.op \notin {"WRITE", "SET", "TIMEOUT"}
      BY <1>8, <1>10, <2>1
    <3> QED
      BY <1>4, <2>2, <2>3, <3>1, Zenon
<1>11. CASE \/ a = Refused /\ ~(p.op = "PRINT" /\ ~p.first)
            \/ (a = Accepting /\ p.op \notin {"READ", "PRINT"})
  <2>1. /\ Len(a) = 1
        /\ u = Value(-1) \/ (u = Value(0) /\ p.op \notin {"READ", "PRINT"})
    BY <1>5, <1>11, ShortAnswers
  <2>2. ~ValueFollows(p, u)
    BY <1>8, <2>1 DEF ValueFollows
  <2>3. Head(c.down).unit.kind = "int" /\ Head(c.down).unit \in {Value(-1), Value(0)}
    BY <1>8, <2>1
  <2>4. i + 1 = Len(a)
    BY <1>5, <2>1
  <2>5. Still(d)
    BY <1>4, <2>4 DEF Still
  <2>6. ~(p.op = "PRINT" /\ ~p.first)
    BY <1>11
  <2> QED
    BY <1>4, <2>2, <2>3, <2>5, <2>6, Zenon
<1> QED
  BY <1>7, <1>10, <1>11, Zenon

\* The line that says how many samples follow.
LEMMA TakesCount ==
  ASSUME NEW c \in Connection, NEW d \in Connection, NEW p \in Call, NEW t \in Threads,
         CallFits(p, t), Exchange(c, p, t), c.down # <<>>,
         d.up = c.up, d.srv = c.srv, d.down = Tail(c.down),
         p.at = "samples", NEW q
  PROVE  /\ Head(c.down).by = t /\ Head(c.down).unit.kind = "int"
         /\ Head(c.down).unit.v <= 0 => Still(d)
         /\ (Head(c.down).unit.v > 0 /\ q.op = p.op /\ q.first = FALSE
              /\ q.at = (IF p.first THEN "mask" ELSE "copy")
              /\ q.val = p.val - Head(c.down).unit.v) => Exchange(d, q, t)
<1> DEFINE u == Head(c.down).unit
<1>1. p.op = "read" /\ Asked(p) = "READBUF"
  BY DEF CallFits, PointsOf, Call, BufferOps, ControlOps, Asked
<1>2. PICK a \in Seq(Unit) : \E i, j \in Nat :
        /\ a \in Answers(Asked(p))
        /\ i < j /\ j <= Len(a) /\ TakenOf(p, a, i) /\ c.up = <<>> /\ (p.at = "status" => j = 1)
        /\ u = a[i + 1] /\ Head(c.down).by = t /\ Sending(d, p, t, a, i + 1, j)
        /\ i + 1 = Len(a) => d.srv = NotServing /\ d.down = <<>>
  BY <1>1, TakeExchange
<1>4. PICK i \in Nat, j \in Nat :
        /\ a \in Answers(Asked(p))
        /\ i < j /\ j <= Len(a) /\ TakenOf(p, a, i) /\ c.up = <<>> /\ (p.at = "status" => j = 1)
        /\ u = a[i + 1] /\ Head(c.down).by = t /\ Sending(d, p, t, a, i + 1, j)
        /\ i + 1 = Len(a) => d.srv = NotServing /\ d.down = <<>>
  BY <1>2
<1> DEFINE n == Len(a)
<1>3. n \in Nat
  OBVIOUS
<1>13. i + 1 \in 0 .. n /\ j \in 1 .. n /\ a \in Answers(Asked(p))
  BY <1>3, <1>4
<1>5. \/ n = 1 /\ a[1] \in {Value(-1), Value(0)}
      \/ n = 3 /\ a[1] = Value(2)
      \/ n = 4 /\ a[1] = Value(1) /\ a[4] \in {Value(-1), Value(0)}
      \/ n = 5 /\ a[1] = Value(1) /\ a[4] = Value(1)
  BY <1>1, <1>13, ReadAnswers
<1>6. \/ p.first /\ i = 0 /\ p.val = 2
      \/ i = 3 /\ n >= 4 /\ ~p.first /\ p.val = 1
  BY <1>1, <1>4 DEF TakenOf, n
<1> HIDE DEF n
<1>7. /\ Value(-1).v = -1 /\ Value(0).v = 0 /\ Value(1).v = 1 /\ Value(2).v = 2
      /\ Value(-1).kind = "int" /\ Value(0).kind = "int"
      /\ Value(1).kind = "int" /\ Value(2).kind = "int"
  BY DEF Value
<1>8. \/ i + 1 = n /\ u.kind = "int" /\ u.v \in {-1, 0}
      \/ /\ i = 0 /\ n >= 3 /\ u = a[1] /\ u.kind = "int" /\ u.v \in {1, 2}
         /\ p.first /\ p.val = 2
      \/ i = 3 /\ n = 5 /\ u.kind = "int" /\ u.v = 1 /\ ~p.first /\ p.val = 1
  <2>1. CASE p.first /\ i = 0 /\ p.val = 2
    <3>1. u = a[1]
      BY <1>4, <2>1
    <3>2. CASE n = 1 /\ a[1] \in {Value(-1), Value(0)}
      BY <1>7, <2>1, <3>1, <3>2
    <3>3. CASE n \in {3, 4, 5} /\ a[1] \in {Value(1), Value(2)}
      <4>1. u.kind = "int" /\ u.v \in {1, 2}
        BY <1>7, <3>1, <3>3
      <4>2. n >= 3
        BY <1>3, <3>3
      <4> QED
        BY <2>1, <3>1, <4>1, <4>2, Zenon
    <3>4. \/ n = 1 /\ a[1] \in {Value(-1), Value(0)}
          \/ n \in {3, 4, 5} /\ a[1] \in {Value(1), Value(2)}
      BY <1>5
    <3> QED
      BY <3>2, <3>3, <3>4, Zenon
  <2>2. CASE i = 3 /\ n >= 4 /\ ~p.first /\ p.val = 1
    <3>1. u = a[4]
      BY <1>4, <2>2
    <3> QED
      BY <1>5, <1>7, <2>2, <3>1
  <2> QED
    BY <1>6, <2>1, <2>2
<1>9. CASE i + 1 = n /\ u.kind = "int" /\ u.v \in {-1, 0}
  <2>1. Still(d)
    BY <1>4, <1>9, Zenon DEF Still, n
  <2>2. ~(u.v > 0)
    BY <1>9
  <2> QED
    BY <1>4, <1>9, <2>1, <2>2, Zenon
<1>10. CASE u.kind = "int" /\ u.v \in {1, 2} /\ i + 1 # n
  <2>1. ASSUME q.op = p.op, q.first = FALSE,
               q.at = (IF p.first THEN "mask" ELSE "copy"), q.val = p.val - u.v
        PROVE  Exchange(d, q, t)
    <3>1. Asked(q) = Asked(p)
      BY <1>1, <2>1 DEF Asked
    <3>2. Sending(d, q, t, a, i + 1, j)
      BY <3>1, <1>4 DEF Sending
    <3>3. TakenOf(q, a, i + 1)
      <4>1. CASE i = 0 /\ n >= 3 /\ u = a[1] /\ p.first /\ p.val = 2
        <5>1. q.at = "mask" /\ q.val = 2 - a[1].v /\ i + 1 = 1
          BY <2>1, <4>1
        <5> QED
          BY <1>1, <2>1, <4>1, <5>1 DEF TakenOf, n
      <4>2. CASE i = 3 /\ n = 5 /\ u.v = 1 /\ ~p.first /\ p.val = 1
        <5>1. q.at = "copy" /\ q.val = 0 /\ i + 1 = 4
          BY <2>1, <4>2
        <5> QED
          BY <1>1, <2>1, <4>2, <5>1 DEF TakenOf, n
      <4> QED
        BY <1>8, <1>10, <4>1, <4>2
    <3>4. DataUp(q, t, j) = <<>> /\ q.at # "status"
      BY <2>1 DEF DataUp
    <3>5. Answered(d, q, t, a, i + 1, j)
      <4>1. d.up = DataUp(q, t, j)
        BY <1>4, <3>4, Zenon
      <4>2. i + 1 <= j
        BY <1>4
      <4> QED
        BY <3>2, <3>3, <3>4, <4>1, <4>2, Zenon DEF Answered
    <3>6. i + 1 \in 0 .. n - 1
      BY <1>3, <1>10, <1>13
    <3> QED
      BY <1>13, <3>1, <3>5, <3>6 DEF Exchange, n
  <2>2. ~(u.v <= 0)
    BY <1>10
  <2> QED
    BY <1>4, <1>10, <2>1, <2>2, Zenon
<1>11. \/ i + 1 = n /\ u.kind = "int" /\ u.v \in {-1, 0}
       \/ u.kind = "int" /\ u.v \in {1, 2} /\ i + 1 # n
  <2>1. (i = 0 /\ n >= 3) \/ (i = 3 /\ n = 5) => i + 1 # n
    BY <1>3
  <2>2. u.v = 1 => u.v \in {1, 2}
    OBVIOUS
  <2> QED
    BY <1>8, <2>1, <2>2, Zenon
<1> QED
  BY <1>9, <1>10, <1>11, Zenon

\* The mask, and the samples: all of them are there, or the next line follows.
LEMMA TakesSamples ==
  ASSUME NEW c \in Connection, NEW d \in Connection, NEW p \in Call, NEW t \in Threads,
         CallFits(p, t), Exchange(c, p, t), c.down # <<>>,
         d.up = c.up, d.srv = c.srv, d.down = Tail(c.down),
         p.at \in {"mask", "copy"}, NEW q
  PROVE  /\ Head(c.down).by = t
         /\ p.at = "copy" /\ p.val = 0 => Still(d)
         /\ (q.op = p.op /\ q.first = p.first /\ q.val = p.val
              /\ (p.at = "mask" => q.at = "copy")
              /\ (p.at = "copy" => p.val # 0 /\ q.at = "samples")) => Exchange(d, q, t)
<1>1. p.op = "read" /\ Asked(p) = "READBUF"
  BY DEF CallFits, PointsOf, Call, BufferOps, ControlOps, Asked
<1>2. PICK a \in Seq(Unit) : \E i, j \in Nat :
        /\ a \in Answers(Asked(p))
        /\ i < j /\ j <= Len(a) /\ TakenOf(p, a, i) /\ c.up = <<>> /\ (p.at = "status" => j = 1)
        /\ Head(c.down).unit = a[i + 1] /\ Head(c.down).by = t
        /\ Sending(d, p, t, a, i + 1, j)
        /\ i + 1 = Len(a) => d.srv = NotServing /\ d.down = <<>>
  BY <1>1, TakeExchange
<1>3. PICK i \in Nat, j \in Nat :
        /\ a \in Answers(Asked(p))
        /\ i < j /\ j <= Len(a) /\ TakenOf(p, a, i) /\ c.up = <<>> /\ (p.at = "status" => j = 1)
        /\ Head(c.down).unit = a[i + 1] /\ Head(c.down).by = t
        /\ Sending(d, p, t, a, i + 1, j)
        /\ i + 1 = Len(a) => d.srv = NotServing /\ d.down = <<>>
  BY <1>2
<1> DEFINE n == Len(a)
<1>4. n \in Nat /\ j \in 1 .. n /\ i + 1 \in 0 .. n /\ a \in Answers(Asked(p))
  BY <1>3
<1>5. /\ Value(-1).v = -1 /\ Value(0).v = 0 /\ Value(1).v = 1 /\ Value(2).v = 2
  BY DEF Value
<1>6. \/ n = 1 \/ (n = 3 /\ a[1].v = 2) \/ (n \in {4, 5} /\ a[1].v = 1)
  <2>1. \/ n = 1
        \/ n = 3 /\ a[1] = Value(2)
        \/ n = 4 /\ a[1] = Value(1)
        \/ n = 5 /\ a[1] = Value(1)
    BY <1>1, <1>4, ReadAnswers
  <2> HIDE DEF n
  <2> QED
    BY <1>5, <2>1
<1>7. \/ p.at = "mask" /\ i = 1 /\ n >= 3 /\ ~p.first /\ p.val = 2 - a[1].v
      \/ p.at = "copy" /\ i = 2 /\ n >= 3 /\ ~p.first /\ p.val = 2 - a[1].v
      \/ p.at = "copy" /\ i = 4 /\ n = 5 /\ ~p.first /\ p.val = 0
  BY <1>1, <1>3 DEF TakenOf
<1> HIDE DEF n
<1>8. CASE p.at = "copy" /\ p.val = 0
  <2>1. i + 1 = n
    BY <1>4, <1>6, <1>7, <1>8
  <2>2. Still(d)
    BY <1>3, <2>1, Zenon DEF Still, n
  <2>3. p.at # "mask"
    BY <1>8
  <2> QED
    BY <1>3, <1>8, <2>2, <2>3, Zenon
<1>9. CASE ~(p.at = "copy" /\ p.val = 0)
  <2>1. ASSUME q.op = p.op, q.first = p.first, q.val = p.val,
               p.at = "mask" => q.at = "copy",
               p.at = "copy" => p.val # 0 /\ q.at = "samples"
        PROVE  Exchange(d, q, t)
    <3>1. Asked(q) = Asked(p) /\ q.op = "read"
      BY <1>1, <2>1 DEF Asked
    <3>2. Sending(d, q, t, a, i + 1, j)
      BY <3>1, <1>3 DEF Sending
    <3>3. ASSUME p.at = "mask" PROVE TakenOf(q, a, i + 1)
      <4>1. q.at = "copy" /\ i + 1 = 2 /\ n >= 3 /\ ~q.first /\ q.val = 2 - a[1].v
        BY <1>7, <2>1, <3>3
      <4> QED
        BY <3>1, <4>1 DEF TakenOf, n
    <3>4. ASSUME p.at = "copy" PROVE TakenOf(q, a, i + 1)
      <4>1. q.at = "samples" /\ i + 1 = 3 /\ n >= 4 /\ ~q.first /\ q.val = 1
        BY <1>4, <1>6, <1>7, <2>1, <3>4
      <4> QED
        BY <3>1, <4>1 DEF TakenOf, n
    <3>5. TakenOf(q, a, i + 1) /\ q.at \notin {"status", "result"}
      BY <1>7, <2>1, <3>3, <3>4
    <3>6. i + 1 \in 0 .. n - 1
      BY <1>4, <1>6, <1>7, <1>9
    <3>7. Answered(d, q, t, a, i + 1, j)
      <4>1. d.up = DataUp(q, t, j)
        BY <1>3, <3>5, Zenon DEF DataUp
      <4>2. i + 1 <= j
        BY <1>3
      <4> QED
        BY <3>2, <3>5, <4>1, <4>2, Zenon DEF Answered
    <3> QED
      BY <1>4, <3>1, <3>6, <3>7 DEF Exchange, n
  <2> QED
    BY <1>3, <1>9, <2>1, Zenon
<1> QED
  BY <1>8, <1>9, Zenon

\* The first line of a push, after which the samples are sent.
LEMMA TakesStatus ==
  ASSUME NEW c \in Connection, NEW d \in Connection, NEW p \in Call, NEW t \in Threads,
         CallFits(p, t), Exchange(c, p, t), c.down # <<>>,
         d.srv = c.srv, d.down = Tail(c.down),
         p.at = "status", NEW q
  PROVE  /\ Head(c.down).by = t /\ Head(c.down).unit.kind = "int" /\ c.up = <<>>
         /\ Head(c.down).unit.v < 0 /\ d.up = c.up => Still(d)
         /\ (Head(c.down).unit.v >= 0 /\ d.up = <<Req("DATA", t, 0)>>
              /\ q.op = p.op /\ q.at = "result") => Exchange(d, q, t)
<1> DEFINE u == Head(c.down).unit
<1>1. p.op = "write" /\ Asked(p) = "WRITEBUF"
  BY DEF CallFits, PointsOf, Call, BufferOps, ControlOps, Asked
<1>2. PICK a \in Seq(Unit) : \E i, j \in Nat :
        /\ a \in Answers(Asked(p))
        /\ i < j /\ j <= Len(a) /\ TakenOf(p, a, i) /\ c.up = <<>> /\ (p.at = "status" => j = 1)
        /\ u = a[i + 1] /\ Head(c.down).by = t
        /\ Sending(d, p, t, a, i + 1, j)
        /\ i + 1 = Len(a) => d.srv = NotServing /\ d.down = <<>>
  BY <1>1, TakeExchange
<1>3. PICK i \in Nat, j \in Nat :
        /\ a \in Answers(Asked(p))
        /\ i < j /\ j <= Len(a) /\ TakenOf(p, a, i) /\ c.up = <<>> /\ (p.at = "status" => j = 1)
        /\ u = a[i + 1] /\ Head(c.down).by = t
        /\ Sending(d, p, t, a, i + 1, j)
        /\ i + 1 = Len(a) => d.srv = NotServing /\ d.down = <<>>
  BY <1>2
<1>4. i = 0 /\ j = 1 /\ i + 1 = 1 /\ u = a[1]
  BY <1>3 DEF TakenOf
<1>5. a = Refused \/ a \in {ThenRefused, ThenTaken}
  BY <1>1, <1>3, OtherAnswers DEF Cmds, BufferCmds
<1>6. \/ Len(a) = 1 /\ u = Value(-1)
      \/ Len(a) = 2 /\ u = Value(0)
  BY <1>4, <1>5, ShortAnswers
<1>7. Value(-1).v = -1 /\ Value(0).v = 0 /\ Value(-1).kind = "int" /\ Value(0).kind = "int"
  BY DEF Value
<1>8. CASE Len(a) = 1 /\ u = Value(-1)
  <2>1. i + 1 = Len(a)
    BY <1>4, <1>8
  <2>2. d.up = c.up => Still(d)
    BY <1>3, <2>1, Zenon DEF Still
  <2>3. u.kind = "int" /\ ~(u.v >= 0)
    BY <1>7, <1>8
  <2> QED
    BY <1>3, <2>2, <2>3, Zenon
<1>9. CASE Len(a) = 2 /\ u = Value(0)
  <2>1. ASSUME d.up = <<Req("DATA", t, 0)>>, q.op = p.op, q.at = "result"
        PROVE  Exchange(d, q, t)
    <3>1. Asked(q) = Asked(p) /\ q.op = "write"
      BY <1>1, <2>1 DEF Asked
    <3>2. Sending(d, p, t, a, 1, 1)
      BY <1>3, <1>4, Zenon
    <3>3. Sending(d, q, t, a, 1, 1)
      BY <3>1, <3>2 DEF Sending
    <3>4. TakenOf(q, a, 1)
      BY <1>9, <2>1, <3>1 DEF TakenOf
    <3>5. d.up = DataUp(q, t, 1) /\ q.at # "status"
      BY <2>1 DEF DataUp
    <3>6. 1 <= 1
      OBVIOUS
    <3>7. Answered(d, q, t, a, 1, 1)
      BY <3>3, <3>4, <3>5, <3>6, Zenon DEF Answered
    <3>8. 1 \in 0 .. Len(a) - 1 /\ 1 \in 1 .. Len(a)
      BY <1>9
    <3> QED
      BY <1>3, <3>1, <3>7, <3>8 DEF Exchange
  <2>2. u.kind = "int" /\ ~(u.v < 0)
    BY <1>7, <1>9
  <2> QED
    BY <1>3, <2>1, <2>2, Zenon
<1> QED
  BY <1>6, <1>8, <1>9, Zenon

-----------------------------------------------------------------------------
(* What the operations do to a connection. *)

Other(k) == IF k = "ctl" THEN "buf" ELSE "ctl"

LEMMA ConnectionsAre ==
  ASSUME Types, NEW k \in {"ctl", "buf"}
  PROVE  /\ conns[k] \in Connection /\ ConnectionFits(k, conns[k])
         /\ DOMAIN conns = {"ctl", "buf"}
         /\ \A d : /\ [conns EXCEPT ![k] = d]
                     = [j \in {"ctl", "buf"} |-> [conns EXCEPT ![k] = d][j]]
                   /\ [conns EXCEPT ![k] = d][k] = d
                   /\ [conns EXCEPT ![k] = d][Other(k)] = conns[Other(k)]
  BY DEF Types, ConnectionFits, Other

LEMMA FreshFits ==
  /\ ConnectionFits("ctl", Fresh) /\ ConnectionFits("buf", Fresh)
  /\ Fresh.lock = NoThread /\ Still(Fresh)
<1>1. NotServing \in Service
  BY DEF NotServing, Service, Asker
<1>2. Fresh \in Connection
  BY <1>1 DEF Fresh, Connection, Asker
<1> QED
  BY <1>2 DEF ConnectionFits, Fresh, Still

\* A unit is taken.
LEMMA TakingFits ==
  ASSUME NEW k, NEW c, ConnectionFits(k, c), c.down # <<>>
  PROVE  LET d == [c EXCEPT !.down = Tail(@)]
             e == [c EXCEPT !.down = Tail(@), !.lock = NoThread]
         IN /\ ConnectionFits(k, d) /\ ConnectionFits(k, e)
            /\ d.up = c.up /\ d.srv = c.srv /\ d.down = Tail(c.down) /\ d.lock = c.lock
            /\ e.up = c.up /\ e.srv = c.srv /\ e.down = Tail(c.down) /\ e.lock = NoThread
<1> DEFINE z == Tail(c.down)
           d == [c EXCEPT !.down = z]
           e == [c EXCEPT !.down = z, !.lock = NoThread]
<1>1. c \in Connection
  BY DEF ConnectionFits
<1>2. z \in Seq(Arrival)
  BY <1>1, HeadTailProperties DEF Connection
<1> HIDE DEF z
<1>3. d.up = c.up /\ d.srv = c.srv /\ d.down = z /\ d.lock = c.lock /\ d \in Connection
  BY <1>1, <1>2 DEF Connection, Asker
<1>4. e.up = c.up /\ e.srv = c.srv /\ e.down = z /\ e.lock = NoThread /\ e \in Connection
  BY <1>1, <1>2 DEF Connection, Asker
<1> HIDE DEF d, e
<1>5. ConnectionFits(k, d)
  BY <1>3 DEF ConnectionFits
<1>6. ConnectionFits(k, e)
  BY <1>4 DEF ConnectionFits
<1> QED
  BY <1>3, <1>4, <1>5, <1>6 DEF d, e, z

\* A command is written, with the data it carries or without.
LEMMA AskingFits ==
  ASSUME NEW u \in Seq(Request), \A n \in 1 .. Len(u) : u[n].cmd = "WRITE" => n < Len(u),
         NEW x \in Seq(Request), Len(x) > 0, x[Len(x)].cmd # "WRITE"
  PROVE  /\ u \o x \in Seq(Request)
         /\ \A n \in 1 .. Len(u \o x) : (u \o x)[n].cmd = "WRITE" => n < Len(u \o x)
         /\ (/\ \A n \in 1 .. Len(u) : u[n].cmd \in BufferCmds
             /\ \A n \in 1 .. Len(x) : x[n].cmd \in BufferCmds)
              => \A n \in 1 .. Len(u \o x) : (u \o x)[n].cmd \in BufferCmds
<1> DEFINE y == u \o x
<1>2. Len(x) \in Nat
  OBVIOUS
<1>3. /\ y \in Seq(Request) /\ Len(y) = Len(u) + Len(x)
      /\ \A n \in 1 .. Len(u) + Len(x) :
           y[n] = IF n <= Len(u) THEN u[n] ELSE x[n - Len(u)]
  BY <1>2, ConcatProperties
<1>4. Len(u) \in Nat
  OBVIOUS
<1>5. \A n \in 1 .. Len(y) : y[n].cmd = "WRITE" => n < Len(y)
  <2>1. ASSUME NEW n \in 1 .. Len(y), y[n].cmd = "WRITE", ~(n < Len(y))
        PROVE  FALSE
    <3>1. n = Len(u) + Len(x) /\ n - Len(u) = Len(x) /\ ~(n <= Len(u))
      BY <1>2, <1>3, <1>4, <2>1
    <3>2. y[n] = x[Len(x)]
      BY <1>3, <2>1, <3>1
    <3> QED
      BY <1>2, <2>1, <3>2
  <2> QED
    BY <2>1
<1>6. ASSUME \A n \in 1 .. Len(u) : u[n].cmd \in BufferCmds,
             \A n \in 1 .. Len(x) : x[n].cmd \in BufferCmds
      PROVE  \A n \in 1 .. Len(y) : y[n].cmd \in BufferCmds
  <2>2. ASSUME NEW n \in 1 .. Len(y) PROVE y[n].cmd \in BufferCmds
    <3>1. CASE n <= Len(u)
      <4>1. n \in 1 .. Len(u) /\ y[n] = u[n]
        BY <1>3, <1>4, <3>1
      <4> QED
        BY <1>6, <4>1
    <3>2. CASE ~(n <= Len(u))
      <4>1. n - Len(u) \in 1 .. Len(x) /\ y[n] = x[n - Len(u)]
        BY <1>2, <1>3, <1>4, <3>2
      <4> QED
        BY <1>6, <4>1
    <3> QED
      BY <3>1, <3>2
  <2> QED
    BY <2>2
<1> HIDE DEF y
<1>7. y \in Seq(Request)
  BY <1>3
<1> QED
  BY <1>5, <1>6, <1>7 DEF y

\* The daemon takes a command and begins its answer.
LEMMA ServingFits ==
  ASSUME NEW k \in {"ctl", "buf"}, NEW c, ConnectionFits(k, c), c.up # <<>>,
         NEW a \in Answers(Head(c.up).cmd)
  PROVE  LET r == Head(c.up)
             d == [c EXCEPT !.up = IF r.cmd = "WRITE" THEN Tail(Tail(@)) ELSE Tail(@),
                            !.srv = Serving(r.by, r.cmd, Tail(a)),
                            !.down = Append(@, [unit |-> Head(a), by |-> r.by])]
         IN /\ ConnectionFits(k, d) /\ d.lock = c.lock
            /\ d.up = IF r.cmd = "WRITE" THEN Tail(Tail(c.up)) ELSE Tail(c.up)
            /\ d.srv = Serving(r.by, r.cmd, Tail(a))
            /\ d.down = Append(c.down, [unit |-> Head(a), by |-> r.by])
            /\ r \in Request /\ (k = "buf" => r.cmd \in BufferCmds)
<1> DEFINE r == Head(c.up)
           up == c.up
           x == IF r.cmd = "WRITE" THEN Tail(Tail(c.up)) ELSE Tail(c.up)
           y == Serving(r.by, r.cmd, Tail(a))
           z == Append(c.down, [unit |-> Head(a), by |-> r.by])
           d == [c EXCEPT !.up = x, !.srv = y, !.down = z]
<1>1. c \in Connection /\ up \in Seq(Request) /\ c.down \in Seq(Arrival)
  BY DEF ConnectionFits, Connection
<1>2. Len(up) \in Nat /\ Len(up) > 0 /\ r = up[1] /\ r \in Request
  BY <1>1
<1>3. /\ r.cmd \in Cmds /\ r.by \in Asker
      /\ r.cmd = "WRITE" => 1 < Len(up)
      /\ k = "buf" => r.cmd \in BufferCmds
  BY <1>2 DEF ConnectionFits, Request
<1>4. a \in Seq(Unit) /\ a # <<>>
  <2>1. a \in Seq(Unit) /\ Len(a) \in 1 .. 5
    BY <1>3, AnswersType
  <2> QED
    BY <2>1, EmptySeq
<1>5. Head(a) \in Unit /\ Tail(a) \in Seq(Unit)
  BY <1>4, HeadTailProperties
<1>6. y \in Service
  BY <1>3, <1>5 DEF Serving, NotServing, Service, Asker
<1>7. z \in Seq(Arrival)
  <2>1. [unit |-> Head(a), by |-> r.by] \in Arrival
    BY <1>3, <1>5 DEF Arrival
  <2> QED
    BY <1>1, <2>1, AppendProperties
<1>8. PICK m \in {1, 2} : /\ x \in Seq(Request) /\ Len(x) = Len(up) - m
                          /\ \A n \in 1 .. Len(x) : x[n] = up[n + m]
  <2>1. /\ Tail(up) \in Seq(Request) /\ Len(Tail(up)) = Len(up) - 1
        /\ \A n \in 1 .. Len(Tail(up)) : Tail(up)[n] = up[n + 1]
    BY <1>1, HeadTailProperties
  <2>2. CASE r.cmd # "WRITE"
    <3>1. x = Tail(up)
      BY <2>2
    <3> HIDE DEF x
    <3> QED
      BY <2>1, <3>1
  <2>3. CASE r.cmd = "WRITE"
    <3> DEFINE w == Tail(up)
    <3>1. w # <<>>
      <4>1. Len(w) # 0
        <5> DEFINE l == Len(up)
        <5>1. 1 < l /\ Len(w) = l - 1
          BY <1>3, <2>1, <2>3, Zenon
        <5>2. l \in Nat
          BY <1>2
        <5> HIDE DEF l, w
        <5> QED
          BY <5>1, <5>2
      <4> QED
        BY <4>1, EmptySeq
    <3>2. x = Tail(w)
      BY <2>3
    <3> HIDE DEF w, x
    <3>3. /\ w \in Seq(Request) /\ Len(w) = Len(up) - 1
          /\ \A n \in 1 .. Len(w) : w[n] = up[n + 1]
      BY <2>1 DEF w
    <3>4. /\ x \in Seq(Request) /\ Len(x) = Len(w) - 1
          /\ \A n \in 1 .. Len(x) : x[n] = w[n + 1]
      BY <3>1, <3>2, <3>3, HeadTailProperties
    <3>5. Len(x) = Len(up) - 2
      BY <1>2, <3>3, <3>4
    <3>6. ASSUME NEW n \in 1 .. Len(x) PROVE x[n] = up[n + 2]
      <4>1. n + 1 \in 1 .. Len(w) /\ (n + 1) + 1 = n + 2
        BY <1>2, <3>3, <3>4
      <4> QED
        BY <3>3, <3>4, <4>1
    <3> QED
      BY <3>4, <3>5, <3>6
  <2> QED
    BY <2>2, <2>3
<1> HIDE DEF x, y, z
<1>9. d.up = x /\ d.srv = y /\ d.down = z /\ d.lock = c.lock /\ d \in Connection
  BY <1>1, <1>6, <1>7, <1>8 DEF Connection
<1> HIDE DEF d
<1>10. ASSUME NEW n \in 1 .. Len(x)
       PROVE  /\ x[n].cmd = "WRITE" => n < Len(x)
              /\ k = "buf" => x[n].cmd \in BufferCmds
  <2>1. n + m \in 1 .. Len(up) /\ x[n] = up[n + m]
    BY <1>2, <1>8
  <2>2. x[n].cmd = "WRITE" => n + m < Len(up)
    BY <2>1 DEF ConnectionFits
  <2>3. n + m < Len(up) => n < Len(x)
    BY <1>2, <1>8
  <2>4. k = "buf" => x[n].cmd \in BufferCmds
    BY <2>1 DEF ConnectionFits
  <2> QED
    BY <2>2, <2>3, <2>4
<1>11. ConnectionFits(k, d)
  BY <1>9, <1>10 DEF ConnectionFits
<1> QED
  BY <1>2, <1>3, <1>9, <1>11 DEF d, x, y, z

\* And goes on with it.
LEMMA ReplyingFits ==
  ASSUME NEW k \in {"ctl", "buf"}, NEW c, ConnectionFits(k, c), c.srv.rest # <<>>,
         c.srv.cmd = "WRITEBUF" => c.up # <<>>
  PROVE  LET d == [c EXCEPT !.up = IF c.srv.cmd = "WRITEBUF" THEN Tail(@) ELSE @,
                            !.srv = Serving(@.by, @.cmd, Tail(@.rest)),
                            !.down = Append(@, [unit |-> Head(c.srv.rest), by |-> c.srv.by])]
         IN /\ ConnectionFits(k, d) /\ d.lock = c.lock
            /\ d.up = IF c.srv.cmd = "WRITEBUF" THEN Tail(c.up) ELSE c.up
            /\ d.srv = Serving(c.srv.by, c.srv.cmd, Tail(c.srv.rest))
            /\ d.down = Append(c.down, [unit |-> Head(c.srv.rest), by |-> c.srv.by])
<1> DEFINE x == IF c.srv.cmd = "WRITEBUF" THEN Tail(c.up) ELSE c.up
           y == Serving(c.srv.by, c.srv.cmd, Tail(c.srv.rest))
           z == Append(c.down, [unit |-> Head(c.srv.rest), by |-> c.srv.by])
           d == [c EXCEPT !.up = x, !.srv = y, !.down = z]
<1>1. /\ c \in Connection /\ c.up \in Seq(Request) /\ c.down \in Seq(Arrival)
      /\ c.srv.rest \in Seq(Unit) /\ c.srv.by \in Asker /\ c.srv.cmd \in Cmds \cup {"none"}
  BY DEF ConnectionFits, Connection, Service
<1>2. Head(c.srv.rest) \in Unit /\ Tail(c.srv.rest) \in Seq(Unit)
  BY <1>1, HeadTailProperties
<1>3. y \in Service
  BY <1>1, <1>2 DEF Serving, NotServing, Service, Asker
<1>4. z \in Seq(Arrival)
  <2>1. [unit |-> Head(c.srv.rest), by |-> c.srv.by] \in Arrival
    BY <1>1, <1>2 DEF Arrival
  <2> QED
    BY <1>1, <2>1, AppendProperties
<1>5. /\ x \in Seq(Request)
      /\ \A n \in 1 .. Len(x) : /\ x[n].cmd = "WRITE" => n < Len(x)
                                /\ k = "buf" => x[n].cmd \in BufferCmds
  <2>1. CASE c.srv.cmd # "WRITEBUF"
    BY <1>1, <2>1 DEF ConnectionFits
  <2>2. CASE c.srv.cmd = "WRITEBUF"
    <3>1. x = Tail(c.up)
      BY <2>2
    <3> HIDE DEF x
    <3>2. /\ x \in Seq(Request) /\ Len(x) = Len(c.up) - 1
          /\ \A n \in 1 .. Len(x) : x[n] = c.up[n + 1]
      BY <1>1, <2>2, <3>1, HeadTailProperties
    <3>3. Len(c.up) \in Nat
      BY <1>1
    <3>4. ASSUME NEW n \in 1 .. Len(x)
          PROVE  /\ x[n].cmd = "WRITE" => n < Len(x)
                 /\ k = "buf" => x[n].cmd \in BufferCmds
      <4>1. n + 1 \in 1 .. Len(c.up) /\ x[n] = c.up[n + 1]
        BY <3>2, <3>3
      <4>2. x[n].cmd = "WRITE" => n + 1 < Len(c.up)
        BY <4>1 DEF ConnectionFits
      <4>3. n + 1 < Len(c.up) => n < Len(x)
        BY <3>2, <3>3
      <4>4. k = "buf" => x[n].cmd \in BufferCmds
        BY <4>1 DEF ConnectionFits
      <4> QED
        BY <4>2, <4>3, <4>4
    <3> QED
      BY <3>2, <3>4
  <2> QED
    BY <2>1, <2>2
<1> HIDE DEF x, y, z
<1>6. d.up = x /\ d.srv = y /\ d.down = z /\ d.lock = c.lock /\ d \in Connection
  BY <1>1, <1>3, <1>4, <1>5 DEF Connection
<1>7. d = [c EXCEPT !.up = IF c.srv.cmd = "WRITEBUF" THEN Tail(@) ELSE @,
                    !.srv = Serving(@.by, @.cmd, Tail(@.rest)),
                    !.down = Append(@, [unit |-> Head(c.srv.rest), by |-> c.srv.by])]
  BY <1>1 DEF x, y, z, Connection
<1> HIDE DEF d
<1>8. ConnectionFits(k, d)
  BY <1>5, <1>6 DEF ConnectionFits
<1> QED
  BY <1>6, <1>7, <1>8 DEF x, y, z

\* A command is given up.
LEMMA OrphanedFits ==
  ASSUME NEW k, NEW c, ConnectionFits(k, c), NEW t \in Threads
  PROVE  /\ ConnectionFits(k, Orphaned(c, t))
         /\ Orphaned(c, t).lock = IF c.lock = t THEN NoThread ELSE c.lock
<1> DEFINE x == [i \in 1 .. Len(c.up) |-> IF c.up[i].by = t
                                          THEN [c.up[i] EXCEPT !.by = NoThread] ELSE c.up[i]]
           z == [i \in 1 .. Len(c.down) |-> IF c.down[i].by = t
                                          THEN [c.down[i] EXCEPT !.by = NoThread] ELSE c.down[i]]
           b == IF c.srv.by = t THEN NoThread ELSE c.srv.by
           l == IF c.lock = t THEN NoThread ELSE c.lock
           d == [c EXCEPT !.up = x, !.down = z, !.srv.by = b, !.lock = l]
<1>1. /\ c \in Connection /\ c.up \in Seq(Request) /\ c.down \in Seq(Arrival)
      /\ c.srv \in Service /\ c.lock \in Asker
  BY DEF ConnectionFits, Connection
<1>2. /\ x \in Seq(Request) /\ Len(x) = Len(c.up)
      /\ \A i \in 1 .. Len(x) : x[i].cmd = c.up[i].cmd
  <2>1. Len(c.up) \in Nat /\ \A i \in 1 .. Len(c.up) : c.up[i] \in Request
    BY <1>1, ElementOfSeq
  <2>2. \A i \in 1 .. Len(c.up) : x[i] \in Request /\ x[i].cmd = c.up[i].cmd
    BY <2>1 DEF Request, Asker
  <2>3. x \in [1 .. Len(c.up) -> Request]
    BY <2>2
  <2>4. x \in Seq(Request) /\ Len(x) = Len(c.up)
    BY <2>1, <2>3, SeqDef, LenProperties
  <2> QED
    BY <2>2, <2>4
<1>3. z \in Seq(Arrival)
  <2>1. Len(c.down) \in Nat /\ \A i \in 1 .. Len(c.down) : c.down[i] \in Arrival
    BY <1>1, ElementOfSeq
  <2>2. \A i \in 1 .. Len(c.down) : z[i] \in Arrival
    BY <2>1 DEF Arrival, Asker
  <2>3. z \in [1 .. Len(c.down) -> Arrival]
    BY <2>2
  <2> QED
    BY <2>1, <2>3, SeqDef
<1>4. b \in Asker /\ l \in Asker /\ (k = "buf" => l = NoThread)
  BY <1>1 DEF Service, Asker, ConnectionFits
<1>5. Orphaned(c, t) = d
  BY <1>1 DEF Orphaned, Connection, Service
<1> HIDE DEF x, z, b, l
<1>6. d.up = x /\ d.lock = l /\ d \in Connection
  BY <1>1, <1>2, <1>3, <1>4 DEF Connection, Service
<1> HIDE DEF d
<1>7. ConnectionFits(k, d)
  BY <1>2, <1>4, <1>6 DEF ConnectionFits
<1> QED
  BY <1>5, <1>6, <1>7 DEF l

-----------------------------------------------------------------------------
(* What a step of one thread leaves of the invariant. *)

ClientInv == ClientShape /\ Exchanges /\ LimitsFollow

LEMMA IdleIs ==
  /\ Idle \in Call /\ Idle.op = "none" /\ Idle.at = "idle" /\ ~Idle.first /\ Idle.own
  /\ ~Makes(Idle) /\ "idle" \notin ControlPoints
  /\ \A t \in Threads : CallFits(Idle, t)
  BY DEF Idle, Call, Makes, ControlPoints, CallFits, PointsOf, BufferOps

\* Where a call is says which it is.
LEMMA PointsAre ==
  ASSUME NEW p \in Call, NEW t, CallFits(p, t)
  PROVE  /\ p.at \in ControlPoints => p.op \in ControlOps
         /\ p.op \in BufferOps => /\ p.at \in BufferPoints /\ p.at \notin ControlPoints
                                /\ t = BufferUser
         /\ p.at \in BufferPoints => p.op \in BufferOps
         /\ p.op = "none" <=> p.at = "idle"
         /\ p.op \in ControlOps => p.op \notin BufferOps /\ Conn(p.op) = "ctl"
         /\ p.op \in BufferOps => p.op \notin ControlOps /\ Conn(p.op) = "buf"
         /\ Makes(p) => p.op \in ControlOps
         /\ p.op \in ControlOps => p.at \in {"lock"} \cup ControlPoints
  BY DEF Call, CallFits, PointsOf, ControlPoints, BufferPoints, ControlOps, BufferOps, Conn,
         Makes, Idle

\* The calls with one of them changed.
LEMMA CallsChange ==
  ASSUME pc \in [Threads -> Call], CallsFit, NEW t \in Threads, NEW q \in Call, CallFits(q, t),
         NEW g, g = [pc EXCEPT ![t] = q]
  PROVE  /\ g \in [Threads -> Call] /\ g[t] = q
         /\ \A u \in Threads : u # t => g[u] = pc[u]
         /\ \A u \in Threads : CallFits(g[u], u)
  BY DEF CallsFit

LEMMA LockChanges ==
  ASSUME NEW f, NEW g, NEW t \in Threads, NEW lock,
         \A u \in Threads : u # t => g[u] = f[u],
         LockFits(f, lock)
  PROVE  /\ f[t].at \in ControlPoints => lock = t
         /\ f[t].at \notin ControlPoints /\ g[t].at \notin ControlPoints => LockFits(g, lock)
         /\ f[t].at \in ControlPoints /\ g[t].at \in ControlPoints => LockFits(g, lock)
         /\ f[t].at \in ControlPoints /\ g[t].at \notin ControlPoints => LockFits(g, NoThread)
         /\ lock = NoThread /\ g[t].at \in ControlPoints => LockFits(g, t)
  BY ClientAssumption DEF LockFits

\* A call goes on or ends: the context stays.
LEMMA ContextStays ==
  ASSUME NEW x, NEW f, NEW g, NEW d, NEW noting, NEW t \in Threads,
         \A u \in Threads : u # t => g[u] = f[u],
         f[t].op # "none", Makes(g[t]) <=> Makes(f[t]),
         g[BufferUser].op \in BufferOps => f[BufferUser].op \in BufferOps,
         ContextFits(x, f, d, noting)
  PROVE  ContextFits(x, g, d, noting)
<1>1. x # "none"
  BY IdleIs DEF ContextFits
<1>2. x = "making" => \E v \in Threads : Makes(g[v]) /\ \A u \in Threads \ {v} : g[u] = Idle
  BY IdleIs DEF ContextFits
<1>3. \A v \in Threads : Makes(g[v]) => x = "making"
  BY DEF ContextFits
<1> QED
  BY <1>1, <1>2, <1>3 DEF ContextFits

\* A call begins in a context that is made.
LEMMA ContextUsed ==
  ASSUME NEW f, NEW g, NEW d, NEW noting, NEW t \in Threads,
         \A u \in Threads : u # t => g[u] = f[u],
         f[t] = Idle, ~Makes(g[t]),
         g[BufferUser].op \in BufferOps => d.open,
         ContextFits("made", f, d, noting)
  PROVE  ContextFits("made", g, d, noting)
  BY IdleIs DEF ContextFits

\* A thread does something on the buffer's connection.
BufferSide(t) ==
  /\ UNCHANGED <<ctx, cancelling, limits, mixed>> /\ conns'["ctl"] = conns["ctl"]
  /\ "ctl" \in broken' <=> "ctl" \in broken
  /\ pc[t].op \notin ControlOps /\ pc'[t].op \notin ControlOps

LEMMA BufferSideKeeps ==
  ASSUME ClientInv, NEW t \in Threads, BufferSide(t), t = BufferUser,
         NEW q \in Call, CallFits(q, t), pc' = [pc EXCEPT ![t] = q],
         conns' = [k \in {"ctl", "buf"} |-> conns'[k]],
         ConnectionFits("buf", conns'["buf"]),
         last' \in [ret : {"none", "ok", "error", "cancelled"}, own : BOOLEAN],
         dev' \in Device, broken' \in SUBSET {"ctl", "buf"}, breaks' \in 0 .. Breaks,
         dev'.ready \/ dev'.event \/ q.op \in BufferOps => dev'.open,
         dev'.open => ctx = "made", q.op # "none" => ctx = "made",
         BufferFits(conns'["buf"], q, broken'),
         q.op # "none" /\ "buf" \notin broken' => q.own
  PROVE  ClientInv'
<1> DEFINE p == pc[t]
           c == conns["ctl"]
<1>1. pc \in [Threads -> Call] /\ CallsFit /\ p \in Call /\ CallFits(p, t)
  BY DEF ClientInv, ClientShape, Types, CallsFit
<1>2. /\ pc' \in [Threads -> Call] /\ pc'[t] = q
      /\ \A u \in Threads : u # t => pc'[u] = pc[u]
      /\ \A u \in Threads : CallFits(pc'[u], u)
  BY <1>1, CallsChange
<1>3. p.op \notin ControlOps /\ q.op \notin ControlOps /\ conns'["ctl"] = c
  BY <1>2 DEF BufferSide
<1>4. /\ p.at \notin ControlPoints /\ q.at \notin ControlPoints
      /\ ~Makes(p) /\ ~Makes(q)
  BY <1>1, <1>3, PointsAre
<1>5. LockFits(pc, c.lock) /\ LockFits(pc', conns'["ctl"].lock)
  <2>1. LockFits(pc, c.lock)
    BY DEF ClientInv, ClientShape
  <2>2. LockFits(pc', c.lock)
    BY <1>2, <1>4, <2>1 DEF LockFits
  <2> QED
    BY <2>1, <2>2, <1>3
<1>6. Types'
  BY <1>2, <1>3 DEF ClientInv, ClientShape, Types, BufferSide
<1>7. ContextFits(ctx', pc', dev', cancelling')
  <2>1. ContextFits(ctx, pc, dev, cancelling)
    BY DEF ClientInv, ClientShape
  <2>2. ctx = "none" => \A u \in Threads : pc'[u] = Idle
    <3>1. ctx = "none" => q = Idle
      BY <1>1 DEF CallFits
    <3> QED
      BY <1>2, <2>1, <3>1 DEF ContextFits
  <2>3. ctx = "making" => \E v \in Threads : /\ Makes(pc'[v])
                                           /\ \A u \in Threads \ {v} : pc'[u] = Idle
    <3>1. ctx = "making" => q = Idle
      BY <1>1 DEF CallFits
    <3> QED
      BY <1>2, <1>4, <2>1, <3>1 DEF ContextFits
  <2>4. \A v \in Threads : Makes(pc'[v]) => ctx = "making"
    BY <1>2, <1>4, <2>1 DEF ContextFits
  <2>5. dev'.open \/ cancelling' => ctx = "made"
    BY <2>1 DEF ContextFits, BufferSide
  <2> QED
    BY <1>2, <2>2, <2>3, <2>4, <2>5 DEF ContextFits, BufferSide
<1>8. ControlFits(conns'["ctl"], pc', broken')
  <2>1. ControlFits(c, pc, broken)
    BY DEF ClientInv, Exchanges
  <2>2. c.lock # t
    BY <1>4, <1>5 DEF LockFits
  <2> QED
    BY <1>2, <1>3, <2>1, <2>2 DEF ControlFits, BufferSide
<1>9. OwnFits(pc', broken')
  <2>1. OwnFits(pc, broken)
    BY DEF ClientInv, Exchanges
  <2>2. \A u \in Threads : u # t /\ pc[u].op # "none" => Conn(pc[u].op) = "ctl"
    BY <1>1, PointsAre DEF CallsFit, Conn
  <2>3. q.op # "none" => Conn(q.op) = "buf"
    BY <1>3, PointsAre DEF Call
  <2> QED
    BY <1>2, <2>1, <2>2, <2>3 DEF OwnFits, BufferSide
<1>10. LimitsFollow'
  <2>1. p.op # "TIMEOUT" /\ q.op # "TIMEOUT"
    BY <1>3 DEF ControlOps
  <2>2. ASSUME "ctl" \notin broken, ~mixed
        PROVE  LimitsFit(ctx, c, pc', limits)
    <3>1. LimitsFit(ctx, c, pc, limits)
      BY <2>2 DEF ClientInv, LimitsFollow
    <3>2. \A u \in Threads : pc'[u].op = "TIMEOUT" => u # t /\ pc'[u] = pc[u]
      BY <1>2, <2>1
    <3>3. (\A u \in Threads : pc'[u].op # "TIMEOUT") => \A u \in Threads : pc[u].op # "TIMEOUT"
      BY <1>2, <2>1
    <3> QED
      BY <3>1, <3>2, <3>3 DEF LimitsFit
  <2> QED
    BY <1>3, <2>2 DEF LimitsFollow, BufferSide
<1>11. MakingFits'
  BY DEF ClientInv, ClientShape, MakingFits, BufferSide
<1> QED
  BY <1>2, <1>5, <1>6, <1>7, <1>8, <1>9, <1>10, <1>11
  DEF ClientInv, ClientShape, Exchanges, CallsFit

\* A thread does something on the control connection.
ControlSide(t) ==
  /\ UNCHANGED <<cancelling, dev>> /\ conns'["buf"] = conns["buf"]
  /\ broken' = broken
  /\ pc[t].op \notin BufferOps /\ pc'[t].op \notin BufferOps

LEMMA ControlSideKeeps ==
  ASSUME ClientInv, NEW t \in Threads, ControlSide(t),
         NEW q \in Call, CallFits(q, t), pc' = [pc EXCEPT ![t] = q],
         conns' = [k \in {"ctl", "buf"} |-> conns'[k]],
         ConnectionFits("ctl", conns'["ctl"]),
         last' \in [ret : {"none", "ok", "error", "cancelled"}, own : BOOLEAN],
         breaks' \in 0 .. Breaks, mixed' \in BOOLEAN, ctx' \in {"none", "making", "made"},
         IsLimits(limits'),
         ContextFits(ctx', pc', dev, cancelling), ctx' = "making" => ctx = "making",
         \/ /\ q.at \notin ControlPoints /\ pc[t].at \notin ControlPoints
            /\ conns'["ctl"] = conns["ctl"]
         \/ /\ q.at \notin ControlPoints /\ pc[t].at \in ControlPoints
            /\ conns'["ctl"].lock = NoThread
            /\ "ctl" \notin broken => Still(conns'["ctl"])
         \/ /\ q.at \in ControlPoints
            /\ (pc[t].at \in ControlPoints \/ conns["ctl"].lock = NoThread)
            /\ conns'["ctl"].lock = t
            /\ "ctl" \notin broken => Exchange(conns'["ctl"], q, t),
         q.op # "none" /\ "ctl" \notin broken => q.own,
         LimitsFollow'
  PROVE  ClientInv'
<1> DEFINE p == pc[t]
           c == conns["ctl"]
           d == conns'["ctl"]
<1>1. pc \in [Threads -> Call] /\ CallsFit /\ p \in Call /\ CallFits(p, t)
  BY DEF ClientInv, ClientShape, Types, CallsFit
<1>2. /\ pc' \in [Threads -> Call] /\ pc'[t] = q
      /\ \A u \in Threads : u # t => pc'[u] = pc[u]
      /\ \A u \in Threads : CallFits(pc'[u], u)
  BY <1>1, CallsChange
<1>3. p.op \notin BufferOps /\ q.op \notin BufferOps /\ conns'["buf"] = conns["buf"]
  BY <1>2 DEF ControlSide
<1>4. LockFits(pc, c.lock)
  BY DEF ClientInv, ClientShape
<1>5. Types'
  BY <1>2, <1>3 DEF ClientInv, ClientShape, Types, ControlSide
<1>6. ContextFits(ctx', pc', dev', cancelling')
  BY DEF ControlSide
<1>7. ControlFits(c, pc, broken)
  BY DEF ClientInv, Exchanges
<1>8. LockFits(pc', d.lock) /\ ControlFits(d, pc', broken')
  <2>1. CASE q.at \notin ControlPoints /\ p.at \notin ControlPoints /\ d = c
    <3>1. c.lock # t
      BY <1>4, <2>1 DEF LockFits
    <3> HIDE DEF p, c, d
    <3>2. LockFits(pc', d.lock)
      BY <1>2, <1>4, <2>1, <3>1 DEF LockFits
    <3>3. ControlFits(d, pc', broken)
      BY <1>2, <1>7, <2>1, <3>1 DEF ControlFits
    <3> QED
      BY <3>2, <3>3 DEF ControlSide
  <2>2. CASE /\ q.at \notin ControlPoints /\ p.at \in ControlPoints
             /\ d.lock = NoThread /\ ("ctl" \notin broken => Still(d))
    <3>1. c.lock = t
      BY <1>4, <2>2 DEF LockFits
    <3> HIDE DEF p, c, d
    <3>2. LockFits(pc', d.lock)
      BY <1>2, <1>4, <2>2, <3>1, ClientAssumption DEF LockFits
    <3>3. ControlFits(d, pc', broken)
      BY <2>2, ClientAssumption DEF ControlFits
    <3> QED
      BY <3>2, <3>3 DEF ControlSide
  <2>3. CASE /\ q.at \in ControlPoints /\ (p.at \in ControlPoints \/ c.lock = NoThread)
             /\ d.lock = t /\ ("ctl" \notin broken => Exchange(d, q, t))
    <3>1. \A u \in Threads : u # t => pc[u].at \notin ControlPoints
      BY <1>4, <2>3, ClientAssumption DEF LockFits
    <3> HIDE DEF p, c, d
    <3>2. LockFits(pc', d.lock)
      BY <1>2, <2>3, <3>1 DEF LockFits
    <3>3. ControlFits(d, pc', broken)
      BY <1>2, <2>3, ClientAssumption DEF ControlFits
    <3> QED
      BY <3>2, <3>3 DEF ControlSide
  <2> QED
    BY <2>1, <2>2, <2>3
<1>9. OwnFits(pc', broken')
  <2>1. OwnFits(pc, broken)
    BY DEF ClientInv, Exchanges
  <2>2. q.op # "none" => Conn(q.op) = "ctl"
    BY <1>3 DEF Conn
  <2> QED
    BY <1>2, <2>1, <2>2 DEF OwnFits, ControlSide
<1>10. BufferFits(conns'["buf"], pc'[BufferUser], broken')
  <2>1. BufferFits(conns["buf"], pc[BufferUser], broken)
    BY DEF ClientInv, Exchanges
  <2>2. CASE t = BufferUser
    BY <1>2, <1>3, <2>1, <2>2 DEF BufferFits, ControlSide
  <2>3. CASE t # BufferUser
    <3>1. pc'[BufferUser] = pc[BufferUser]
      BY <1>2, <2>3, ClientAssumption
    <3> QED
      BY <1>3, <2>1, <3>1 DEF BufferFits, ControlSide
  <2> QED
    BY <2>2, <2>3
<1>11. MakingFits'
  BY DEF ClientInv, ClientShape, MakingFits, ControlSide
<1> QED
  BY <1>2, <1>5, <1>6, <1>8, <1>9, <1>10, <1>11
  DEF ClientInv, ClientShape, Exchanges, CallsFit

-----------------------------------------------------------------------------
(* The steps on the buffer's connection. *)

LEMMA TakenIs ==
  ASSUME Types, NEW k \in {"ctl", "buf"}, conns[k].down # <<>>
  PROVE  /\ Taken(k) = [j \in {"ctl", "buf"} |-> Taken(k)[j]]
         /\ \A j \in {"ctl", "buf"} \ {k} : Taken(k)[j] = conns[j]
         /\ Taken(k)[k] = [conns[k] EXCEPT !.down = Tail(@)]
         /\ ConnectionFits(k, Taken(k)[k])
         /\ Taken(k)[k].up = conns[k].up /\ Taken(k)[k].srv = conns[k].srv
         /\ Taken(k)[k].down = Tail(conns[k].down) /\ Taken(k)[k].lock = conns[k].lock
<1>1. conns = [j \in {"ctl", "buf"} |-> conns[j]] /\ ConnectionFits(k, conns[k])
  BY DEF Types
<1>2. Taken(k)[k] = [conns[k] EXCEPT !.down = Tail(@)]
  BY <1>1 DEF Taken
<1>3. /\ Taken(k) = [j \in {"ctl", "buf"} |-> Taken(k)[j]]
      /\ \A j \in {"ctl", "buf"} \ {k} : Taken(k)[j] = conns[j]
  BY <1>1 DEF Taken
<1>4. LET d == [conns[k] EXCEPT !.down = Tail(@)]
      IN  /\ ConnectionFits(k, d) /\ d.up = conns[k].up /\ d.srv = conns[k].srv
          /\ d.down = Tail(conns[k].down) /\ d.lock = conns[k].lock
  BY <1>1, TakingFits
<1> QED
  BY <1>2, <1>3, <1>4

LEMMA BufferCall ==
  ASSUME ClientInv, NEW t \in Threads, pc[t].op \in BufferOps
  PROVE  /\ Types /\ t = BufferUser /\ pc[t] \in Call /\ CallFits(pc[t], t)
         /\ pc[t].op \notin ControlOps /\ pc[t].op # "none"
         /\ dev \in Device /\ dev.open /\ ctx = "made"
         /\ ConnectionFits("buf", conns["buf"]) /\ conns["buf"] \in Connection
         /\ conns = [j \in {"ctl", "buf"} |-> conns[j]]
         /\ broken \in SUBSET {"ctl", "buf"} /\ breaks \in 0 .. Breaks
         /\ "buf" \notin broken => Exchange(conns["buf"], pc[t], t) /\ pc[t].own
<1>1. /\ Types /\ pc[t] \in Call /\ CallFits(pc[t], t) /\ dev \in Device
      /\ conns = [j \in {"ctl", "buf"} |-> conns[j]] /\ ConnectionFits("buf", conns["buf"])
      /\ broken \in SUBSET {"ctl", "buf"} /\ breaks \in 0 .. Breaks
  BY DEF ClientInv, ClientShape, Types, CallsFit
<1>2. t = BufferUser /\ pc[t].op \notin ControlOps /\ Conn(pc[t].op) = "buf" /\ pc[t].op # "none"
  BY <1>1, PointsAre DEF BufferOps, ControlOps, Conn
<1>3. dev.open /\ ctx = "made"
  BY <1>2 DEF ClientInv, ClientShape, ContextFits
<1>4. ASSUME "buf" \notin broken PROVE Exchange(conns["buf"], pc[t], t) /\ pc[t].own
  BY <1>2, <1>4 DEF ClientInv, Exchanges, BufferFits, OwnFits
<1>5. conns["buf"] \in Connection
  BY <1>1 DEF ConnectionFits
<1> QED
  BY <1>1, <1>2, <1>3, <1>4, <1>5

\* A call on the buffer's connection that ends with its answer read.
LEMMA BufferReturns ==
  ASSUME ClientInv, NEW t \in Threads, pc[t].op \in BufferOps, pc' = [pc EXCEPT ![t] = Idle],
         conns' = [k \in {"ctl", "buf"} |-> conns'[k]], conns'["ctl"] = conns["ctl"],
         ConnectionFits("buf", conns'["buf"]), "buf" \notin broken' => Still(conns'["buf"]),
         UNCHANGED <<ctx, cancelling, limits, mixed>>, "ctl" \in broken' <=> "ctl" \in broken,
         last' \in [ret : {"none", "ok", "error", "cancelled"}, own : BOOLEAN],
         dev' \in Device, dev'.ready \/ dev'.event => dev'.open,
         broken' \in SUBSET {"ctl", "buf"}, breaks' \in 0 .. Breaks
  PROVE  ClientInv'
<1>1. /\ t = BufferUser /\ pc[t].op \notin ControlOps /\ ctx = "made"
      /\ pc \in [Threads -> Call]
  BY BufferCall DEF Types
<1>2. /\ Idle \in Call /\ CallFits(Idle, t) /\ Idle.op = "none"
      /\ Idle.op \notin BufferOps /\ Idle.op \notin ControlOps
  BY IdleIs DEF BufferOps, ControlOps
<1>3. BufferSide(t)
  BY <1>1, <1>2 DEF BufferSide
<1>4. BufferFits(conns'["buf"], Idle, broken')
  BY <1>2 DEF BufferFits
<1> QED
  BY <1>1, <1>2, <1>3, <1>4, BufferSideKeeps

\* A call on the buffer's connection that goes on.
LEMMA BufferGoesOn ==
  ASSUME ClientInv, NEW t \in Threads, pc[t].op \in BufferOps,
         NEW q \in Call, CallFits(q, t), q.op = pc[t].op, pc' = [pc EXCEPT ![t] = q],
         conns' = [k \in {"ctl", "buf"} |-> conns'[k]], conns'["ctl"] = conns["ctl"],
         ConnectionFits("buf", conns'["buf"]),
         "buf" \notin broken => Exchange(conns'["buf"], q, t) /\ q.own,
         last' = NoResult, UNCHANGED <<ctx, dev, cancelling, limits, broken, mixed, breaks>>
  PROVE  ClientInv'
<1>1. /\ t = BufferUser /\ pc[t].op \notin ControlOps /\ ctx = "made" /\ dev.open /\ dev \in Device
      /\ pc \in [Threads -> Call] /\ broken \in SUBSET {"ctl", "buf"} /\ breaks \in 0 .. Breaks
  BY BufferCall DEF Types
<1>2. BufferSide(t)
  BY <1>1 DEF BufferSide
<1>3. BufferFits(conns'["buf"], q, broken')
  BY <1>1 DEF BufferFits
<1>4. last' \in [ret : {"none", "ok", "error", "cancelled"}, own : BOOLEAN]
  BY DEF NoResult
<1> QED
  BY <1>1, <1>2, <1>3, <1>4, BufferSideKeeps

LEMMA TakeCountKeeps ==
  ASSUME ClientInv, NEW t \in Threads, TakeCount(t) PROVE ClientInv'
<1> DEFINE p == pc[t]
           c == conns["buf"]
           u == Head(c.down).unit
           d == Taken("buf")["buf"]
           own == OwnNow(t, "buf")
<1>1. p.at = "samples" /\ c.down # <<>>
  BY DEF TakeCount, Ready
<1>2. p \in Call /\ CallFits(p, t) /\ Types /\ pc \in [Threads -> Call]
  BY DEF ClientInv, ClientShape, Types, CallsFit
<1>3. p.op = "read" /\ p.op \in BufferOps /\ p.val \in Int
  BY <1>1, <1>2 DEF CallFits, PointsOf, BufferOps, ControlOps, Call
<1>4. PICK v \in IF u.kind = "int" THEN {u.v} ELSE {-1} :
        /\ conns' = Taken("buf")
        /\ IF v <= 0 THEN Return(t, IF v = 0 THEN "ok" ELSE "error", own)
           ELSE /\ pc' = [pc EXCEPT ![t].at = IF WantsMask(t) THEN "mask" ELSE "copy",
                                    ![t].val = @ - v, ![t].own = own, ![t].first = FALSE]
                /\ last' = NoResult
  BY DEF TakeCount, First
<1>5. UNCHANGED <<ctx, dev, cancelling, limits, broken, mixed, breaks>>
  BY DEF TakeCount
<1>6. /\ conns' = [j \in {"ctl", "buf"} |-> conns'[j]]
      /\ conns'["ctl"] = conns["ctl"] /\ conns'["buf"] = d /\ ConnectionFits("buf", d)
      /\ d \in Connection /\ d.up = c.up /\ d.srv = c.srv /\ d.down = Tail(c.down)
  BY <1>1, <1>2, <1>4, TakenIs DEF ConnectionFits
<1>7. /\ Head(c.down) \in Arrival /\ own \in BOOLEAN
  <2>1. c \in Connection
    BY <1>3, BufferCall
  <2>2. Head(c.down) \in Arrival
    BY <1>1, <2>1, HeadTailProperties DEF Connection
  <2> QED
    BY <1>2, <2>2 DEF OwnNow, Call
<1>8. u.v \in Int /\ v \in Int
  BY <1>4, <1>7 DEF Arrival, Unit
<1>9. ASSUME "buf" \notin broken
      PROVE  /\ u.kind = "int" /\ v = u.v /\ own
             /\ u.v <= 0 => Still(d)
             /\ \A q : (u.v > 0 /\ q.op = p.op /\ q.first = FALSE
                         /\ q.at = (IF p.first THEN "mask" ELSE "copy")
                         /\ q.val = p.val - u.v) => Exchange(d, q, t)
  <2>1. Exchange(c, p, t) /\ p.own
    BY <1>3, <1>9, BufferCall
  <2>2. c \in Connection
    BY <1>3, BufferCall
  <2>3. /\ Head(c.down).by = t /\ u.kind = "int"
        /\ u.v <= 0 => Still(d)
        /\ \A q : (u.v > 0 /\ q.op = p.op /\ q.first = FALSE
                    /\ q.at = (IF p.first THEN "mask" ELSE "copy")
                    /\ q.val = p.val - u.v) => Exchange(d, q, t)
    BY <1>1, <1>2, <1>6, <2>1, <2>2, TakesCount
  <2> QED
    BY <1>4, <2>1, <2>3 DEF OwnNow
<1> HIDE DEF d, u, own, c
<1>10. CASE v <= 0
  <2>1. /\ pc' = [pc EXCEPT ![t] = Idle]
        /\ last' \in [ret : {"none", "ok", "error", "cancelled"}, own : BOOLEAN]
    BY <1>4, <1>7, <1>10 DEF Return
  <2>2. dev \in Device /\ dev.open /\ broken \in SUBSET {"ctl", "buf"} /\ breaks \in 0 .. Breaks
    BY <1>3, BufferCall
  <2>3. "buf" \notin broken => Still(d)
    BY <1>9, <1>10
  <2> QED
    BY <1>3, <1>5, <1>6, <2>1, <2>2, <2>3, BufferReturns
<1>11. CASE ~(v <= 0)
  <2> DEFINE q == [p EXCEPT !.at = IF p.first THEN "mask" ELSE "copy", !.val = @ - v,
                            !.own = own, !.first = FALSE]
  <2>1. pc' = [pc EXCEPT ![t] = q] /\ last' = NoResult
    BY <1>2, <1>4, <1>11 DEF WantsMask
  <2> DEFINE at == IF p.first THEN "mask" ELSE "copy"
             left == p.val - v
  <2>2. at \in BufferPoints /\ at \in {"mask", "copy"} /\ left \in Int
    BY <1>3, <1>8 DEF BufferPoints
  <2>3. q = [p EXCEPT !.at = at, !.val = left, !.own = own, !.first = FALSE]
    BY <1>2, <1>3 DEF Call
  <2> HIDE DEF q, at, left
  <2>4. /\ q \in Call /\ q.op = "read" /\ q.first = FALSE
        /\ q.at = at /\ q.val = left /\ q.own = own
    BY <1>2, <1>3, <1>7, <2>2, <2>3 DEF Call
  <2>5. CallFits(q, t)
    <3>1. t = BufferUser
      BY <1>3, BufferCall
    <3>2. q.at \in PointsOf("read")
      BY <2>2, <2>4 DEF PointsOf
    <3> QED
      BY <2>2, <2>4, <3>1, <3>2 DEF CallFits
  <2>6. ASSUME "buf" \notin broken PROVE Exchange(d, q, t) /\ q.own
    <3>1. u.v > 0 /\ v = u.v /\ own
      BY <1>8, <1>9, <1>11, <2>6
    <3>2. q.op = p.op /\ q.val = p.val - u.v /\ q.at = (IF p.first THEN "mask" ELSE "copy")
      BY <1>3, <2>4, <3>1 DEF at, left
    <3> QED
      BY <1>9, <2>4, <2>6, <3>1, <3>2, Zenon
  <2> QED
    BY <1>3, <1>5, <1>6, <2>1, <2>4, <2>5, <2>6, BufferGoesOn
<1> QED
  BY <1>10, <1>11

\* What the steps that take a unit from the buffer's connection start from.
LEMMA BufferTaking ==
  ASSUME ClientInv, NEW t \in Threads, pc[t].at \in BufferPoints, conns["buf"].down # <<>>
  PROVE  LET c == conns["buf"]
             d == Taken("buf")["buf"]
         IN  /\ pc[t].op \in BufferOps /\ pc[t] \in Call /\ CallFits(pc[t], t)
             /\ pc \in [Threads -> Call] /\ t = BufferUser
             /\ c \in Connection /\ Head(c.down) \in Arrival /\ Head(c.down).unit.v \in Int
             /\ OwnNow(t, "buf") \in BOOLEAN
             /\ Taken("buf") = [j \in {"ctl", "buf"} |-> Taken("buf")[j]]
             /\ Taken("buf")["ctl"] = conns["ctl"] /\ ConnectionFits("buf", d)
             /\ d \in Connection /\ d.up = c.up /\ d.srv = c.srv /\ d.down = Tail(c.down)
             /\ dev \in Device /\ dev.open /\ ctx = "made"
             /\ broken \in SUBSET {"ctl", "buf"} /\ breaks \in 0 .. Breaks
             /\ "buf" \notin broken => Exchange(c, pc[t], t) /\ pc[t].own
<1>1. pc[t] \in Call /\ CallFits(pc[t], t) /\ Types /\ pc \in [Threads -> Call]
  BY DEF ClientInv, ClientShape, Types, CallsFit
<1>2. pc[t].op \in BufferOps
  BY <1>1, PointsAre
<1>3. conns["buf"] \in Connection
  BY <1>2, BufferCall
<1>4. Head(conns["buf"].down) \in Arrival
  BY <1>3, HeadTailProperties DEF Connection
<1>5. OwnNow(t, "buf") \in BOOLEAN /\ Head(conns["buf"].down).unit.v \in Int
  BY <1>1, <1>4 DEF OwnNow, Call, Arrival, Unit
<1>6. /\ Taken("buf") = [j \in {"ctl", "buf"} |-> Taken("buf")[j]]
      /\ Taken("buf")["ctl"] = conns["ctl"] /\ ConnectionFits("buf", Taken("buf")["buf"])
      /\ Taken("buf")["buf"].up = conns["buf"].up /\ Taken("buf")["buf"].srv = conns["buf"].srv
      /\ Taken("buf")["buf"].down = Tail(conns["buf"].down)
  BY <1>1, TakenIs
<1>7. Taken("buf")["buf"] \in Connection
  BY <1>6 DEF ConnectionFits
<1>8. /\ dev \in Device /\ dev.open /\ ctx = "made" /\ t = BufferUser
      /\ broken \in SUBSET {"ctl", "buf"} /\ breaks \in 0 .. Breaks
      /\ "buf" \notin broken => Exchange(conns["buf"], pc[t], t) /\ pc[t].own
  BY <1>2, BufferCall
<1> QED
  BY <1>1, <1>2, <1>3, <1>4, <1>5, <1>6, <1>7, <1>8

LEMMA TakeMaskKeeps ==
  ASSUME ClientInv, NEW t \in Threads, TakeMask(t) PROVE ClientInv'
<1> DEFINE p == pc[t]
           c == conns["buf"]
           d == Taken("buf")["buf"]
           own == OwnNow(t, "buf")
           q == [p EXCEPT !.at = "copy", !.own = own]
<1>1. /\ p.at = "mask" /\ p.at \in BufferPoints /\ c.down # <<>>
      /\ conns' = Taken("buf") /\ last' = NoResult
      /\ pc' = [pc EXCEPT ![t].at = "copy", ![t].own = own]
      /\ UNCHANGED <<ctx, dev, cancelling, limits, broken, mixed, breaks>>
  BY DEF TakeMask, Ready, BufferPoints
<1>2. /\ p.op \in BufferOps /\ p \in Call /\ CallFits(p, t) /\ t = BufferUser
      /\ pc \in [Threads -> Call] /\ c \in Connection /\ own \in BOOLEAN
      /\ Taken("buf") = [j \in {"ctl", "buf"} |-> Taken("buf")[j]]
      /\ Taken("buf")["ctl"] = conns["ctl"] /\ ConnectionFits("buf", d)
      /\ d \in Connection /\ d.up = c.up /\ d.srv = c.srv /\ d.down = Tail(c.down)
      /\ "buf" \notin broken => Exchange(c, p, t) /\ p.own
  BY <1>1, BufferTaking
<1>3. p.op = "read"
  BY <1>1, <1>2 DEF CallFits, PointsOf, BufferOps, Call
<1>4. pc' = [pc EXCEPT ![t] = q]
  BY <1>1, <1>2
<1>5. own = (p.own /\ Head(c.down).by = t)
  BY DEF OwnNow
<1> HIDE DEF own, d, c
<1>6. /\ q \in Call /\ q.op = "read" /\ q.first = p.first /\ q.at = "copy"
      /\ q.val = p.val /\ q.own = own
  BY <1>2, <1>3 DEF Call, BufferPoints
<1> HIDE DEF q
<1>7. CallFits(q, t)
  BY <1>2, <1>3, <1>6 DEF CallFits, PointsOf
<1>8. ASSUME "buf" \notin broken PROVE Exchange(d, q, t) /\ q.own
  <2>1. Head(c.down).by = t /\ Exchange(d, q, t)
    BY <1>1, <1>2, <1>3, <1>6, <1>8, TakesSamples
  <2> QED
    BY <1>2, <1>5, <1>6, <1>8, <2>1
<1> QED
  BY <1>1, <1>2, <1>3, <1>4, <1>6, <1>7, <1>8, BufferGoesOn DEF d

LEMMA TakeSamplesKeeps ==
  ASSUME ClientInv, NEW t \in Threads, TakeSamples(t) PROVE ClientInv'
<1> DEFINE p == pc[t]
           c == conns["buf"]
           d == Taken("buf")["buf"]
           own == OwnNow(t, "buf")
           q == [p EXCEPT !.at = "samples", !.own = own]
<1>1. /\ p.at = "copy" /\ p.at \in BufferPoints /\ c.down # <<>>
      /\ conns' = Taken("buf")
      /\ p.val = 0 => Return(t, "ok", own)
      /\ p.val # 0 => /\ pc' = [pc EXCEPT ![t].at = "samples", ![t].own = own]
                      /\ last' = NoResult
      /\ UNCHANGED <<ctx, dev, cancelling, limits, broken, mixed, breaks>>
  BY DEF TakeSamples, Ready, BufferPoints
<1>2. /\ p.op \in BufferOps /\ p \in Call /\ CallFits(p, t) /\ t = BufferUser
      /\ pc \in [Threads -> Call] /\ c \in Connection /\ own \in BOOLEAN
      /\ Taken("buf") = [j \in {"ctl", "buf"} |-> Taken("buf")[j]]
      /\ Taken("buf")["ctl"] = conns["ctl"] /\ ConnectionFits("buf", d)
      /\ d \in Connection /\ d.up = c.up /\ d.srv = c.srv /\ d.down = Tail(c.down)
      /\ dev \in Device /\ dev.open
      /\ broken \in SUBSET {"ctl", "buf"} /\ breaks \in 0 .. Breaks
      /\ "buf" \notin broken => Exchange(c, p, t) /\ p.own
  BY <1>1, BufferTaking
<1>3. p.op = "read" /\ p.val \in Int
  BY <1>1, <1>2 DEF CallFits, PointsOf, BufferOps, Call
<1>4. own = (p.own /\ Head(c.down).by = t)
  BY DEF OwnNow
<1> HIDE DEF own, d, c
<1>5. CASE p.val = 0
  <2>1. /\ pc' = [pc EXCEPT ![t] = Idle]
        /\ last' \in [ret : {"none", "ok", "error", "cancelled"}, own : BOOLEAN]
    BY <1>1, <1>2, <1>5 DEF Return
  <2>2. "buf" \notin broken => Still(d)
    BY <1>1, <1>2, <1>5, TakesSamples
  <2> QED
    BY <1>1, <1>2, <2>1, <2>2, BufferReturns DEF d
<1>6. CASE p.val # 0
  <2>1. pc' = [pc EXCEPT ![t] = q] /\ last' = NoResult
    BY <1>1, <1>2, <1>6
  <2>2. /\ q \in Call /\ q.op = "read" /\ q.first = p.first /\ q.at = "samples"
        /\ q.val = p.val /\ q.own = own
    BY <1>2, <1>3 DEF Call, BufferPoints
  <2> HIDE DEF q
  <2>3. CallFits(q, t)
    BY <1>2, <1>3, <2>2 DEF CallFits, PointsOf
  <2>4. ASSUME "buf" \notin broken PROVE Exchange(d, q, t) /\ q.own
    <3>1. Head(c.down).by = t /\ Exchange(d, q, t)
      BY <1>1, <1>2, <1>3, <1>6, <2>2, <2>4, TakesSamples
    <3> QED
      BY <1>2, <1>4, <2>2, <2>4, <3>1
  <2> QED
    BY <1>1, <1>2, <1>3, <2>1, <2>2, <2>3, <2>4, BufferGoesOn DEF d
<1> QED
  BY <1>5, <1>6

LEMMA TakeResultKeeps ==
  ASSUME ClientInv, NEW t \in Threads, TakeResult(t) PROVE ClientInv'
<1> DEFINE c == conns["buf"]
           d == Taken("buf")["buf"]
<1>1. /\ pc[t].at = "result" /\ pc[t].at \in BufferPoints /\ c.down # <<>>
      /\ conns' = Taken("buf")
      /\ UNCHANGED <<ctx, dev, cancelling, limits, broken, mixed, breaks>>
  BY DEF TakeResult, Ready, BufferPoints
<1>2. /\ pc[t].op \in BufferOps /\ pc[t] \in Call /\ CallFits(pc[t], t)
      /\ c \in Connection /\ OwnNow(t, "buf") \in BOOLEAN
      /\ Taken("buf") = [j \in {"ctl", "buf"} |-> Taken("buf")[j]]
      /\ Taken("buf")["ctl"] = conns["ctl"] /\ ConnectionFits("buf", d)
      /\ d \in Connection /\ d.up = c.up /\ d.srv = c.srv /\ d.down = Tail(c.down)
      /\ dev \in Device /\ dev.open
      /\ broken \in SUBSET {"ctl", "buf"} /\ breaks \in 0 .. Breaks
      /\ "buf" \notin broken => Exchange(c, pc[t], t)
  BY <1>1, BufferTaking
<1>3. /\ pc' = [pc EXCEPT ![t] = Idle]
      /\ last' \in [ret : {"none", "ok", "error", "cancelled"}, own : BOOLEAN]
  BY <1>2 DEF TakeResult, Return
<1> HIDE DEF d, c
<1>4. "buf" \notin broken => Still(d)
  BY <1>1, <1>2, TakesLast
<1> QED
  BY <1>1, <1>2, <1>3, <1>4, BufferReturns DEF d

\* A request for the buffer's connection.
LEMMA BufferAsks ==
  ASSUME NEW t \in Threads, NEW cmd \in BufferCmds
  PROVE  /\ Req(cmd, t, 0) \in Request /\ Req(cmd, t, 0).cmd # "WRITE"
         /\ Req(cmd, t, 0).cmd \in BufferCmds
  BY DEF Req, Request, Cmds, BufferCmds, RemoteVal, Asker

LEMMA BufferAsking ==
  ASSUME NEW c, ConnectionFits("buf", c), NEW r \in Request, r.cmd # "WRITE",
         r.cmd \in BufferCmds, NEW e, e = [c EXCEPT !.up = @ \o <<r>>]
  PROVE  ConnectionFits("buf", e) /\ e.up = c.up \o <<r>> /\ e.srv = c.srv /\ e.down = c.down
<1> DEFINE x == <<r>>
           y == c.up \o x
<1>1. /\ c \in Connection /\ c.up \in Seq(Request) /\ c.lock = NoThread
      /\ \A n \in 1 .. Len(c.up) : c.up[n].cmd = "WRITE" => n < Len(c.up)
      /\ \A n \in 1 .. Len(c.up) : c.up[n].cmd \in BufferCmds
  BY DEF ConnectionFits, Connection
<1>2. x \in Seq(Request) /\ Len(x) = 1 /\ x[1] = r
  BY OneLong
<1> HIDE DEF x
<1>3. Len(x) > 0 /\ x[Len(x)].cmd # "WRITE" /\ \A n \in 1 .. Len(x) : x[n].cmd \in BufferCmds
  BY <1>2
<1>4. /\ y \in Seq(Request)
      /\ \A n \in 1 .. Len(y) : y[n].cmd = "WRITE" => n < Len(y)
      /\ \A n \in 1 .. Len(y) : y[n].cmd \in BufferCmds
  BY <1>1, <1>2, <1>3, AskingFits
<1>5. e = [c EXCEPT !.up = y]
  BY DEF x
<1> HIDE DEF y
<1>6. /\ e \in Connection /\ e.up = y /\ e.srv = c.srv /\ e.down = c.down /\ e.lock = NoThread
  BY <1>1, <1>4, <1>5 DEF Connection
<1>7. ConnectionFits("buf", e)
  BY <1>4, <1>6 DEF ConnectionFits
<1> QED
  BY <1>6, <1>7 DEF y, x

LEMMA TakeStatusKeeps ==
  ASSUME ClientInv, NEW t \in Threads, TakeStatus(t) PROVE ClientInv'
<1> DEFINE p == pc[t]
           c == conns["buf"]
           u == Head(c.down).unit
           goes == u.kind = "int" /\ u.v >= 0
           own == OwnNow(t, "buf")
           k == Taken("buf")
           d == k["buf"]
           r == Req("DATA", t, 0)
           x == <<r>>
           e == [d EXCEPT !.up = @ \o x]
           q == [p EXCEPT !.at = "result", !.own = own]
<1>1. /\ p.at = "status" /\ p.at \in BufferPoints /\ c.down # <<>>
      /\ goes => /\ conns' = [k EXCEPT !["buf"].up = Append(@, r)]
                 /\ pc' = [pc EXCEPT ![t].at = "result", ![t].own = own]
                 /\ last' = NoResult
      /\ ~goes => conns' = k /\ Return(t, "error", own)
      /\ UNCHANGED <<ctx, dev, cancelling, limits, broken, mixed, breaks>>
  BY DEF TakeStatus, Ready, First, BufferPoints
<1>2. /\ p.op \in BufferOps /\ p \in Call /\ CallFits(p, t) /\ t = BufferUser
      /\ pc \in [Threads -> Call] /\ c \in Connection /\ own \in BOOLEAN /\ u.v \in Int
      /\ k = [j \in {"ctl", "buf"} |-> k[j]]
      /\ k["ctl"] = conns["ctl"] /\ ConnectionFits("buf", d)
      /\ d \in Connection /\ d.up = c.up /\ d.srv = c.srv /\ d.down = Tail(c.down)
      /\ dev \in Device /\ dev.open
      /\ broken \in SUBSET {"ctl", "buf"} /\ breaks \in 0 .. Breaks
      /\ "buf" \notin broken => Exchange(c, p, t) /\ p.own
  BY <1>1, BufferTaking
<1>3. p.op = "write"
  BY <1>1, <1>2 DEF CallFits, PointsOf, BufferOps, Call
<1>4. own = (p.own /\ Head(c.down).by = t)
  BY DEF OwnNow
<1>5. r \in Request /\ r.cmd # "WRITE" /\ r.cmd \in BufferCmds
  BY BufferAsks DEF BufferCmds
<1> HIDE DEF own, k, c, u, r
<1>6. CASE ~goes
  <2>1. /\ pc' = [pc EXCEPT ![t] = Idle]
        /\ last' \in [ret : {"none", "ok", "error", "cancelled"}, own : BOOLEAN]
    BY <1>1, <1>2, <1>6 DEF Return
  <2>2. ASSUME "buf" \notin broken PROVE Still(d)
    <3>1. u.kind = "int" /\ (u.v < 0 => Still(d))
      BY <1>1, <1>2, <2>2, TakesStatus DEF u
    <3> QED
      BY <1>2, <1>6, <3>1
  <2> QED
    BY <1>1, <1>2, <1>6, <2>1, <2>2, BufferReturns DEF c
<1>7. CASE goes
  <2>1. pc' = [pc EXCEPT ![t] = q] /\ last' = NoResult
    BY <1>1, <1>2, <1>7
  <2>2. /\ q \in Call /\ q.op = "write" /\ q.at = "result" /\ q.own = own
    BY <1>2, <1>3 DEF Call, BufferPoints
  <2> HIDE DEF q
  <2>3. CallFits(q, t)
    BY <1>2, <1>3, <2>2 DEF CallFits, PointsOf
  <2>4. /\ ConnectionFits("buf", e) /\ e.up = d.up \o x /\ e.srv = d.srv /\ e.down = d.down
    <3>1. e = [d EXCEPT !.up = @ \o <<r>>]
      OBVIOUS
    <3>2. ConnectionFits("buf", d)
      BY <1>2
    <3> HIDE DEF d, e
    <3>3. /\ ConnectionFits("buf", e)
          /\ e.up = d.up \o <<r>> /\ e.srv = d.srv /\ e.down = d.down
      BY <1>5, <3>1, <3>2, BufferAsking
    <3> QED
      BY <3>3
  <2>5. d.up \in Seq(Request)
    BY <1>2 DEF Connection
  <2>6. Append(d.up, r) = d.up \o x
    <3> HIDE DEF d
    <3> QED
      BY <1>5, <2>5, AppendIsConcat
  <2>7. /\ conns' = [j \in {"ctl", "buf"} |-> conns'[j]]
        /\ conns'["ctl"] = conns["ctl"] /\ conns'["buf"] = e
    <3>1. conns' = [k EXCEPT !["buf"] = [k["buf"] EXCEPT !.up = Append(@, r)]]
      BY <1>1, <1>2, <1>7
    <3>2. [k["buf"] EXCEPT !.up = Append(@, r)] = e
      BY <1>2, <2>6 DEF Connection
    <3> HIDE DEF e
    <3> QED
      BY <1>2, <3>1, <3>2
  <2>8. ASSUME "buf" \notin broken PROVE Exchange(e, q, t) /\ q.own
    <3>1. e \in Connection /\ e.srv = c.srv /\ e.down = Tail(c.down)
      BY <1>2, <2>4 DEF ConnectionFits
    <3> HIDE DEF e
    <3>2. Head(c.down).by = t /\ c.up = <<>>
      BY <1>1, <1>2, <2>8, <3>1, TakesStatus
    <3>3. e.up = x
      <4>1. <<>> \o x = x
        BY <1>5, ConcatEmptySeq
      <4> QED
        BY <1>2, <2>4, <3>2, <4>1
    <3>4. Exchange(e, q, t)
      BY <1>1, <1>2, <1>3, <1>7, <2>2, <2>8, <3>1, <3>3, TakesStatus DEF u, r
    <3> QED
      BY <1>2, <1>4, <2>2, <2>8, <3>2, <3>4
  <2> QED
    BY <1>1, <1>2, <1>3, <2>1, <2>2, <2>3, <2>4, <2>7, <2>8, BufferGoesOn
<1> QED
  BY <1>6, <1>7

\* The socket is closed.
LEMMA SocketCloses ==
  ASSUME ClientInv, CloseSocket
  PROVE  /\ conns' = [j \in {"ctl", "buf"} |-> conns'[j]] /\ conns'["ctl"] = conns["ctl"]
         /\ ConnectionFits("buf", conns'["buf"]) /\ Still(conns'["buf"])
<1>1. conns = [j \in {"ctl", "buf"} |-> conns[j]]
  BY DEF ClientInv, ClientShape, Types
<1>2. conns'["buf"] = Fresh /\ conns'["ctl"] = conns["ctl"]
  BY <1>1 DEF CloseSocket
<1>3. conns' = [j \in {"ctl", "buf"} |-> conns'[j]]
  BY <1>1 DEF CloseSocket
<1> QED
  BY <1>2, <1>3, FreshFits

LEMMA ClosedIs == Closed \in Device /\ ~Closed.open /\ ~Closed.ready /\ ~Closed.event
  BY DEF Closed, Device

LEMMA OpenedKeeps ==
  ASSUME ClientInv, NEW t \in Threads, NEW ok \in BOOLEAN, Opened(t, ok) PROVE ClientInv'
<1> DEFINE c == conns["buf"]
           d == Taken("buf")["buf"]
           works == First("buf") = Value(0) /\ ok
<1>1. /\ pc[t].at = "opened" /\ pc[t].at \in BufferPoints /\ c.down # <<>>
      /\ works => /\ conns' = Taken("buf") /\ dev' = [dev EXCEPT !.ready = TRUE]
                  /\ Return(t, "ok", TRUE)
      /\ ~works => CloseSocket /\ dev' = Closed /\ Return(t, "error", TRUE)
      /\ UNCHANGED <<ctx, cancelling, limits, broken, mixed, breaks>>
  BY DEF Opened, BufferPoints
<1>2. /\ pc[t].op \in BufferOps /\ pc[t] \in Call /\ CallFits(pc[t], t)
      /\ c \in Connection
      /\ Taken("buf") = [j \in {"ctl", "buf"} |-> Taken("buf")[j]]
      /\ Taken("buf")["ctl"] = conns["ctl"] /\ ConnectionFits("buf", d)
      /\ d \in Connection /\ d.up = c.up /\ d.srv = c.srv /\ d.down = Tail(c.down)
      /\ dev \in Device /\ dev.open
      /\ broken \in SUBSET {"ctl", "buf"} /\ breaks \in 0 .. Breaks
      /\ "buf" \notin broken => Exchange(c, pc[t], t)
  BY <1>1, BufferTaking
<1>3. /\ pc' = [pc EXCEPT ![t] = Idle]
      /\ last' \in [ret : {"none", "ok", "error", "cancelled"}, own : BOOLEAN]
  <2> HIDE DEF works
  <2>1. /\ pc' = [pc EXCEPT ![t] = Idle]
        /\ \E ret \in {"ok", "error"} : last' = [ret |-> ret, own |-> TRUE]
    BY <1>1, Zenon DEF Return
  <2> HIDE DEF c, d
  <2> QED
    BY <2>1
<1> HIDE DEF works, d, c
<1>4. CASE works
  <2>1. "buf" \notin broken => Still(d)
    BY <1>1, <1>2, TakesLast
  <2>2. dev' \in Device /\ dev'.open
    BY <1>1, <1>2, <1>4 DEF Device
  <2> QED
    BY <1>1, <1>2, <1>3, <1>4, <2>1, <2>2, BufferReturns DEF d
<1>5. CASE ~works
  BY <1>1, <1>2, <1>3, <1>5, SocketCloses, ClosedIs, BufferReturns
<1> QED
  BY <1>4, <1>5

LEMMA StopWaitingKeeps ==
  ASSUME ClientInv, NEW t \in Threads, StopWaiting(t) PROVE ClientInv'
<1>1. /\ pc[t].op \in BufferOps /\ pc' = [pc EXCEPT ![t] = Idle]
      /\ last' \in [ret : {"none", "ok", "error", "cancelled"}, own : BOOLEAN]
      /\ broken' = broken \cup {"buf"}
      /\ UNCHANGED <<ctx, conns, dev, cancelling, limits, mixed, breaks>>
  BY DEF StopWaiting, BufferReads, BufferOps, Return
<1>2. /\ conns = [j \in {"ctl", "buf"} |-> conns[j]] /\ ConnectionFits("buf", conns["buf"])
      /\ dev \in Device /\ dev.open /\ broken \in SUBSET {"ctl", "buf"} /\ breaks \in 0 .. Breaks
  BY <1>1, BufferCall
<1>3. conns' = [j \in {"ctl", "buf"} |-> conns'[j]]
  BY <1>1, <1>2
<1> QED
  BY <1>1, <1>2, <1>3, BufferReturns

LEMMA EndCloseKeeps ==
  ASSUME ClientInv, NEW t \in Threads, EndClose(t) PROVE ClientInv'
<1>1. /\ pc[t].at = "closed" /\ pc[t].at \in BufferPoints /\ CloseSocket /\ dev' = Closed
      /\ pc' = [pc EXCEPT ![t] = Idle]
      /\ UNCHANGED <<ctx, cancelling, limits, broken, mixed, breaks>>
  BY DEF EndClose, BufferPoints, Return
<1>2. pc[t] \in Call /\ CallFits(pc[t], t)
  BY DEF ClientInv, ClientShape, Types, CallsFit
<1>3. pc[t].op \in BufferOps
  BY <1>1, <1>2, PointsAre
<1>4. /\ conns["buf"] \in Connection /\ broken \in SUBSET {"ctl", "buf"} /\ breaks \in 0 .. Breaks
  BY <1>3, BufferCall
<1>5. last' \in [ret : {"none", "ok", "error", "cancelled"}, own : BOOLEAN]
  BY <1>2 DEF EndClose, Return, OwnNow, Call
<1> QED
  BY <1>1, <1>3, <1>4, <1>5, SocketCloses, ClosedIs, BufferReturns

\* A call on the buffer's connection begins: its command is on the way.
LEMMA BufferBegins ==
  ASSUME ClientInv, NEW t \in Threads, t = BufferUser, pc[t] = Idle, dev.open,
         NEW q \in Call, CallFits(q, t), q.op \in {"read", "write", "close"}, q.own,
         q.at \in {"status", "closed"} \/ (q.at = "samples" /\ q.first /\ q.val = 2),
         conns' = Sent("buf", <<Req(Asked(q), t, 0)>>), pc' = [pc EXCEPT ![t] = q],
         last' = NoResult, UNCHANGED <<ctx, dev, cancelling, limits, broken, mixed, breaks>>
  PROVE  ClientInv'
<1> DEFINE c == conns["buf"]
           r == Req(Asked(q), t, 0)
           d == [c EXCEPT !.up = @ \o <<r>>]
<1>1. /\ Types /\ dev \in Device /\ conns = [j \in {"ctl", "buf"} |-> conns[j]]
      /\ pc \in [Threads -> Call] /\ ConnectionFits("buf", c)
      /\ broken \in SUBSET {"ctl", "buf"} /\ breaks \in 0 .. Breaks
  BY DEF ClientInv, ClientShape, Types
<1>2. c \in Connection
  BY <1>1 DEF ConnectionFits
<1>3. /\ Asked(q) \in BufferCmds /\ q.op \in BufferOps /\ q.op # "none"
      /\ Requested(q, t) = <<r>>
  BY DEF Asked, BufferCmds, BufferOps, Requested
<1>4. ctx = "made"
  BY DEF ClientInv, ClientShape, ContextFits
<1>5. r \in Request /\ r.cmd # "WRITE" /\ r.cmd \in BufferCmds
  BY <1>3, BufferAsks
<1>6. /\ conns' = [j \in {"ctl", "buf"} |-> conns'[j]]
      /\ conns'["ctl"] = conns["ctl"] /\ conns'["buf"] = d
  <2>1. conns' = [conns EXCEPT !["buf"] = d]
    BY <1>1 DEF Sent
  <2> HIDE DEF d
  <2> QED
    BY <1>1, <2>1
<1>7. d = [c EXCEPT !.up = @ \o <<r>>]
  OBVIOUS
<1> HIDE DEF r, c, d
<1>8. ConnectionFits("buf", d) /\ d.up = c.up \o <<r>> /\ d.srv = c.srv /\ d.down = c.down
  <2>1. ConnectionFits("buf", c)
    BY <1>1
  <2> QED
    BY <1>5, <1>7, <2>1, BufferAsking
<1>9. ASSUME "buf" \notin broken PROVE Exchange(d, q, t)
  <2>1. Still(c)
    BY <1>9, IdleIs DEF ClientInv, Exchanges, BufferFits, BufferOps, c
  <2>2. <<>> \o <<r>> = <<r>>
    BY <1>5, ConcatEmptySeq
  <2>3. d.up = <<r>> /\ d.srv = NotServing /\ d.down = <<>>
    BY <1>8, <2>1, <2>2 DEF Still
  <2>4. Unasked(d, q, t)
    BY <1>3, <2>3 DEF Unasked
  <2> QED
    BY <2>4 DEF Exchange
<1>10. BufferFits(d, q, broken)
  BY <1>3, <1>9 DEF BufferFits
<1>11. BufferSide(t)
  <2>1. Idle.op \notin ControlOps /\ q.op \notin ControlOps /\ pc'[t] = q
    BY <1>1, IdleIs DEF ControlOps
  <2> QED
    BY <1>6, <2>1 DEF BufferSide
<1>12. last' \in [ret : {"none", "ok", "error", "cancelled"}, own : BOOLEAN]
  BY DEF NoResult
<1> QED
  BY <1>1, <1>4, <1>6, <1>8, <1>10, <1>11, <1>12, BufferSideKeeps

\* A call of the buffer's user that only returns.
LEMMA BufferRefuses ==
  ASSUME ClientInv, NEW t \in Threads, t = BufferUser, pc[t] = Idle,
         pc' = [pc EXCEPT ![t] = Idle],
         last' \in [ret : {"none", "ok", "error", "cancelled"}, own : BOOLEAN],
         conns' = [k \in {"ctl", "buf"} |-> conns'[k]], conns'["ctl"] = conns["ctl"],
         ConnectionFits("buf", conns'["buf"]), "buf" \notin broken => Still(conns'["buf"]),
         dev' = dev \/ dev' = Closed,
         UNCHANGED <<ctx, cancelling, limits, broken, mixed, breaks>>
  PROVE  ClientInv'
<1>1. /\ Types /\ dev \in Device /\ pc \in [Threads -> Call]
      /\ broken \in SUBSET {"ctl", "buf"} /\ breaks \in 0 .. Breaks
      /\ ContextFits(ctx, pc, dev, cancelling)
  BY DEF ClientInv, ClientShape, Types
<1>2. /\ Idle \in Call /\ CallFits(Idle, t) /\ Idle.op = "none"
      /\ Idle.op \notin BufferOps /\ Idle.op \notin ControlOps
  BY IdleIs DEF BufferOps, ControlOps
<1>3. BufferSide(t)
  BY <1>1, <1>2 DEF BufferSide
<1>4. BufferFits(conns'["buf"], Idle, broken')
  BY <1>2 DEF BufferFits
<1>5. /\ dev' \in Device /\ (dev'.ready \/ dev'.event => dev'.open)
      /\ (dev'.open => ctx = "made")
  BY <1>1, ClosedIs DEF ContextFits
<1> QED
  BY <1>1, <1>2, <1>3, <1>4, <1>5, BufferSideKeeps

LEMMA BufferIdle ==
  ASSUME ClientInv, pc[BufferUser] = Idle
  PROVE  /\ conns = [k \in {"ctl", "buf"} |-> conns[k]]
         /\ ConnectionFits("buf", conns["buf"])
         /\ "buf" \notin broken => Still(conns["buf"])
         /\ dev.ready => dev.open
<1>1. Idle.op \notin BufferOps
  BY IdleIs DEF BufferOps
<1> QED
  BY <1>1 DEF ClientInv, ClientShape, Types, Exchanges, BufferFits, ContextFits

LEMMA OpenKeeps ==
  ASSUME ClientInv, NEW t \in Threads, Open(t) PROVE ClientInv'
<1> DEFINE r == Req("OPEN", t, 0)
           d == [Fresh EXCEPT !.up = <<r>>]
           q == [Idle EXCEPT !.op = "open", !.at = "opened"]
<1>1. /\ ctx = "made" /\ t = BufferUser /\ pc[t] = Idle
      /\ dev' = [Closed EXCEPT !.open = TRUE] /\ conns' = [conns EXCEPT !["buf"] = d]
      /\ pc' = [pc EXCEPT ![t] = q] /\ last' = NoResult /\ broken' = broken \ {"buf"}
      /\ UNCHANGED <<ctx, cancelling, limits, mixed, breaks>>
  BY DEF Open
<1>2. /\ conns = [j \in {"ctl", "buf"} |-> conns[j]]
      /\ pc \in [Threads -> Call] /\ broken \in SUBSET {"ctl", "buf"} /\ breaks \in 0 .. Breaks
  BY DEF ClientInv, ClientShape, Types
<1>3. r \in Request /\ r.cmd # "WRITE" /\ r.cmd \in BufferCmds
  BY BufferAsks DEF BufferCmds
<1>4. q \in Call /\ q.op = "open" /\ q.at = "opened" /\ q.own /\ CallFits(q, t)
  <2>1. q \in Call /\ q.op = "open" /\ q.at = "opened" /\ q.own
    BY IdleIs DEF Call, BufferOps, BufferPoints
  <2> HIDE DEF q
  <2> QED
    BY <1>1, <2>1 DEF CallFits, PointsOf
<1>5. Requested(q, t) = <<r>>
  BY <1>4 DEF Requested, Asked
<1>6. d = [Fresh EXCEPT !.up = @ \o <<r>>]
  <2>1. <<>> \o <<r>> = <<r>>
    BY <1>3, ConcatEmptySeq
  <2> QED
    BY <2>1 DEF Fresh
<1>7. d.up = <<r>> /\ d.srv = NotServing /\ d.down = <<>>
  BY DEF Fresh
<1> HIDE DEF r, d, q
<1>8. ConnectionFits("buf", d)
  BY <1>3, <1>6, FreshFits, BufferAsking
<1>9. /\ conns' = [j \in {"ctl", "buf"} |-> conns'[j]]
      /\ conns'["ctl"] = conns["ctl"] /\ conns'["buf"] = d
  BY <1>1, <1>2
<1>10. Exchange(d, q, t)
  <2>1. Unasked(d, q, t)
    BY <1>5, <1>7 DEF Unasked
  <2> QED
    BY <1>4, <2>1 DEF Exchange
<1>11. BufferFits(d, q, broken')
  <2>1. q.op \in BufferOps /\ Exchange(d, q, BufferUser)
    BY <1>1, <1>4, <1>10 DEF BufferOps
  <2> QED
    BY <2>1 DEF BufferFits
<1>12. dev' \in Device /\ dev'.open
  BY <1>1 DEF Closed, Device
<1>13. BufferSide(t)
  <2>1. Idle.op \notin ControlOps /\ q.op \notin ControlOps /\ pc'[t] = q
    BY <1>1, <1>2, <1>4, IdleIs DEF ControlOps
  <2> QED
    BY <1>1, <1>9, <2>1 DEF BufferSide
<1>14. last' \in [ret : {"none", "ok", "error", "cancelled"}, own : BOOLEAN]
  BY <1>1 DEF NoResult
<1>15. broken' \in SUBSET {"ctl", "buf"} /\ breaks' \in 0 .. Breaks
  BY <1>1, <1>2
<1> QED
  BY <1>1, <1>4, <1>8, <1>9, <1>11, <1>12, <1>13, <1>14, <1>15, BufferSideKeeps

LEMMA ReadBufferKeeps ==
  ASSUME ClientInv, NEW t \in Threads, ReadBuffer(t) PROVE ClientInv'
<1> DEFINE q == [Idle EXCEPT !.op = "read", !.at = "samples", !.val = Len2, !.first = TRUE]
<1>1. /\ t = BufferUser /\ pc[t] = Idle /\ dev.ready
      /\ UNCHANGED <<ctx, dev, cancelling, limits, broken, mixed, breaks>>
  BY DEF ReadBuffer, MayUse, BufferExists
<1>2. CASE Cancelled("buf")
  <2>1. /\ pc' = [pc EXCEPT ![t] = Idle] /\ UNCHANGED conns
        /\ last' \in [ret : {"none", "ok", "error", "cancelled"}, own : BOOLEAN]
    <3>1. Return(t, "cancelled", TRUE) /\ UNCHANGED conns
      BY <1>2, Zenon DEF ReadBuffer
    <3> QED
      BY <3>1 DEF Return
  <2> QED
    BY <1>1, <2>1, BufferIdle, BufferRefuses
<1>3. CASE ~Cancelled("buf")
  <2>1. /\ conns' = Sent("buf", <<Req("READBUF", t, 0)>>) /\ pc' = [pc EXCEPT ![t] = q]
        /\ last' = NoResult
    BY <1>3 DEF ReadBuffer
  <2>2. /\ q \in Call /\ q.op = "read" /\ q.own /\ q.at = "samples" /\ q.first /\ q.val = 2
        /\ CallFits(q, t) /\ Asked(q) = "READBUF"
    <3>1. q \in Call /\ q.op = "read" /\ q.own /\ q.at = "samples" /\ q.first /\ q.val = 2
      <4>1. q = [Idle EXCEPT !.op = "read", !.at = "samples", !.val = 2, !.first = TRUE]
        BY DEF Len2
      <4>2. Idle \in Call /\ Idle.own
        BY IdleIs
      <4> HIDE DEF q
      <4>3. q \in Call
        <5>1. "read" \in BufferOps /\ "samples" \in BufferPoints /\ 2 \in Int /\ TRUE \in BOOLEAN
          BY DEF BufferOps, BufferPoints
        <5> QED
          BY <4>1, <4>2, <5>1 DEF Call
      <4>4. q.op = "read" /\ q.at = "samples" /\ q.val = 2 /\ q.first /\ q.own
        BY <4>1, <4>2 DEF Call
      <4> QED
        BY <4>3, <4>4
    <3> HIDE DEF q
    <3> QED
      BY <1>1, <3>1 DEF CallFits, PointsOf, Asked
  <2>3. dev.open
    BY <1>1, BufferIdle
  <2> HIDE DEF q
  <2> QED
    BY <1>1, <2>1, <2>2, <2>3, BufferBegins
<1> QED
  BY <1>2, <1>3

LEMMA WriteBufferKeeps ==
  ASSUME ClientInv, NEW t \in Threads, WriteBuffer(t) PROVE ClientInv'
<1> DEFINE q == [Idle EXCEPT !.op = "write", !.at = "status"]
<1>1. /\ t = BufferUser /\ pc[t] = Idle /\ dev.ready
      /\ UNCHANGED <<ctx, dev, cancelling, limits, broken, mixed, breaks>>
  BY DEF WriteBuffer, MayUse, BufferExists
<1>2. CASE Cancelled("buf")
  <2>1. /\ pc' = [pc EXCEPT ![t] = Idle] /\ UNCHANGED conns
        /\ last' \in [ret : {"none", "ok", "error", "cancelled"}, own : BOOLEAN]
    <3>1. Return(t, "cancelled", TRUE) /\ UNCHANGED conns
      BY <1>2, Zenon DEF WriteBuffer
    <3> QED
      BY <3>1 DEF Return
  <2> QED
    BY <1>1, <2>1, BufferIdle, BufferRefuses
<1>3. CASE ~Cancelled("buf")
  <2>1. /\ conns' = Sent("buf", <<Req("WRITEBUF", t, 0)>>) /\ pc' = [pc EXCEPT ![t] = q]
        /\ last' = NoResult
    BY <1>3 DEF WriteBuffer
  <2>2. /\ q \in Call /\ q.op = "write" /\ q.own /\ q.at = "status"
        /\ CallFits(q, t) /\ Asked(q) = "WRITEBUF"
    <3>1. q \in Call /\ q.op = "write" /\ q.own /\ q.at = "status"
      BY IdleIs DEF Call, BufferOps, BufferPoints
    <3> HIDE DEF q
    <3> QED
      BY <1>1, <3>1 DEF CallFits, PointsOf, Asked
  <2>3. dev.open
    BY <1>1, BufferIdle
  <2> HIDE DEF q
  <2> QED
    BY <1>1, <2>1, <2>2, <2>3, BufferBegins
<1> QED
  BY <1>2, <1>3

LEMMA CloseKeeps ==
  ASSUME ClientInv, NEW t \in Threads, Close(t) PROVE ClientInv'
<1> DEFINE q == [Idle EXCEPT !.op = "close", !.at = "closed"]
           skips == dev.cancelled \/ Cancelled("buf")
<1>1. /\ t = BufferUser /\ pc[t] = Idle /\ dev.open
      /\ UNCHANGED <<ctx, cancelling, limits, broken, mixed, breaks>>
      /\ skips => /\ CloseSocket /\ dev' = Closed
                  /\ Return(t, IF dev.cancelled THEN "ok" ELSE "error", TRUE)
      /\ ~skips => /\ conns' = Sent("buf", <<Req("CLOSE", t, 0)>>) /\ UNCHANGED dev
                   /\ pc' = [pc EXCEPT ![t] = q] /\ last' = NoResult
  BY DEF Close
<1> HIDE DEF skips
<1>2. CASE skips
  <2>1. /\ pc' = [pc EXCEPT ![t] = Idle]
        /\ last' \in [ret : {"none", "ok", "error", "cancelled"}, own : BOOLEAN]
    <3>1. \E ret \in {"ok", "error"} : Return(t, ret, TRUE)
      BY <1>1, <1>2
    <3> QED
      BY <3>1 DEF Return
  <2> QED
    BY <1>1, <1>2, <2>1, SocketCloses, BufferRefuses
<1>3. CASE ~skips
  <2>1. /\ q \in Call /\ q.op = "close" /\ q.own /\ q.at = "closed"
        /\ CallFits(q, t) /\ Asked(q) = "CLOSE"
    <3>1. q \in Call /\ q.op = "close" /\ q.own /\ q.at = "closed"
      BY IdleIs DEF Call, BufferOps, BufferPoints
    <3> HIDE DEF q
    <3> QED
      BY <1>1, <3>1 DEF CallFits, PointsOf, Asked
  <2> HIDE DEF q
  <2> QED
    BY <1>1, <1>3, <2>1, BufferBegins
<1> QED
  BY <1>2, <1>3

-----------------------------------------------------------------------------
(* The steps on the control connection. *)

\* A context is made, or is not.
LEMMA ContextEnds ==
  ASSUME NEW x, NEW y \in {"made", "none"}, NEW f, NEW g, NEW d, NEW noting, NEW t \in Threads,
         \A u \in Threads : u # t => g[u] = f[u],
         Makes(f[t]), g[t] = Idle, ContextFits(x, f, d, noting)
  PROVE  ContextFits(y, g, d, noting)
<1>1. x = "making" /\ ~d.open /\ ~noting
  BY DEF ContextFits
<1>2. \A u \in Threads : g[u] = Idle
  BY <1>1, IdleIs DEF ContextFits
<1>3. ~(d.ready \/ d.event \/ f[BufferUser].op \in BufferOps)
  BY <1>1 DEF ContextFits
<1>4. Idle.op \notin BufferOps
  BY IdleIs DEF BufferOps
<1> QED
  BY <1>1, <1>2, <1>3, <1>4, IdleIs, ClientAssumption DEF ContextFits

\* A step of a thread that has nothing to do with the timeouts.
LEMMA LimitsStay ==
  ASSUME LimitsFollow, pc \in [Threads -> Call], NEW t \in Threads, NEW q,
         pc' = [pc EXCEPT ![t] = q], pc[t].op # "TIMEOUT", q.op # "TIMEOUT",
         ctx' = ctx, limits' = limits, mixed => mixed', broken' = broken,
         \A u \in Threads : u # t => (Accepted(conns'["ctl"], u) <=> Accepted(conns["ctl"], u))
  PROVE  LimitsFollow'
<1> DEFINE c == conns["ctl"]
           d == conns'["ctl"]
<1>1. /\ \A u \in Threads : u # t => pc'[u] = pc[u]
      /\ pc'[t].op # "TIMEOUT"
  OBVIOUS
<1>2. ASSUME "ctl" \notin broken, ~mixed PROVE LimitsFit(ctx', d, pc', limits)
  <2>1. LimitsFit(ctx, c, pc, limits)
    BY <1>2 DEF LimitsFollow
  <2>2. \A u \in Threads : pc'[u].op = "TIMEOUT" =>
          pc'[u] = pc[u] /\ (Accepted(d, u) <=> Accepted(c, u))
    BY <1>1
  <2>3. (\A u \in Threads : pc'[u].op # "TIMEOUT") => \A u \in Threads : pc[u].op # "TIMEOUT"
    BY <1>1
  <2> HIDE DEF c, d
  <2> QED
    BY <2>1, <2>2, <2>3 DEF LimitsFit
<1> QED
  BY <1>2 DEF LimitsFollow

\* Whose lock it was, or is, is the only one whose answer may have come.
LEMMA OthersWait ==
  ASSUME NEW c, NEW d, NEW t \in Threads, c.lock \in {t, NoThread}, d.lock \in {t, NoThread}
  PROVE  \A u \in Threads : u # t => (Accepted(d, u) <=> Accepted(c, u))
  BY ClientAssumption DEF Accepted

\* What the steps that take a unit from the control connection start from.
LEMMA ControlTaking ==
  ASSUME ClientInv, NEW t \in Threads, pc[t].at \in ControlPoints, conns["ctl"].down # <<>>
  PROVE  LET c == conns["ctl"]
             d == Done["ctl"]
             e == Taken("ctl")["ctl"]
         IN  /\ pc[t].op \in ControlOps /\ pc[t].op \notin BufferOps /\ pc[t] \in Call
             /\ CallFits(pc[t], t) /\ pc \in [Threads -> Call] /\ c.lock = t
             /\ c \in Connection /\ Head(c.down) \in Arrival /\ Head(c.down).unit.v \in Int
             /\ OwnNow(t, "ctl") \in BOOLEAN
             /\ Done = [j \in {"ctl", "buf"} |-> Done[j]]
             /\ Done["buf"] = conns["buf"] /\ ConnectionFits("ctl", d) /\ d.lock = NoThread
             /\ d \in Connection /\ d.up = c.up /\ d.srv = c.srv /\ d.down = Tail(c.down)
             /\ Taken("ctl") = [j \in {"ctl", "buf"} |-> Taken("ctl")[j]]
             /\ Taken("ctl")["buf"] = conns["buf"] /\ ConnectionFits("ctl", e) /\ e.lock = t
             /\ e \in Connection /\ e.up = c.up /\ e.srv = c.srv /\ e.down = Tail(c.down)
             /\ breaks \in 0 .. Breaks /\ mixed \in BOOLEAN /\ ctx \in {"none", "making", "made"}
             /\ IsLimits(limits)
             /\ ContextFits(ctx, pc, dev, cancelling) /\ LimitsFollow
             /\ "ctl" \notin broken => Exchange(c, pc[t], t) /\ pc[t].own
<1> DEFINE c == conns["ctl"]
           d == Done["ctl"]
           e == Taken("ctl")["ctl"]
<1>1. /\ pc[t] \in Call /\ CallFits(pc[t], t) /\ Types /\ pc \in [Threads -> Call]
      /\ LockFits(pc, c.lock) /\ ContextFits(ctx, pc, dev, cancelling) /\ LimitsFollow
  BY DEF ClientInv, ClientShape, Types, CallsFit
<1>2. /\ breaks \in 0 .. Breaks /\ mixed \in BOOLEAN /\ ctx \in {"none", "making", "made"}
      /\ IsLimits(limits)
      /\ conns = [j \in {"ctl", "buf"} |-> conns[j]] /\ ConnectionFits("ctl", c)
  BY <1>1 DEF Types
<1>3. pc[t].op \in ControlOps /\ pc[t].op \notin BufferOps /\ Conn(pc[t].op) = "ctl"
  BY <1>1, PointsAre
<1>4. c.lock = t /\ c \in Connection
  BY <1>1, <1>2 DEF LockFits, ConnectionFits
<1>5. Head(c.down) \in Arrival
  BY <1>4, HeadTailProperties DEF Connection
<1>6. OwnNow(t, "ctl") \in BOOLEAN /\ Head(c.down).unit.v \in Int
  BY <1>1, <1>5 DEF OwnNow, Call, Arrival, Unit
<1>7. /\ Taken("ctl") = [j \in {"ctl", "buf"} |-> Taken("ctl")[j]]
      /\ Taken("ctl")["buf"] = conns["buf"] /\ ConnectionFits("ctl", e) /\ e.lock = c.lock
      /\ e.up = c.up /\ e.srv = c.srv /\ e.down = Tail(c.down)
  BY <1>1, TakenIs
<1>8. /\ Done = [j \in {"ctl", "buf"} |-> Done[j]]
      /\ Done["buf"] = conns["buf"] /\ d = [c EXCEPT !.down = Tail(@), !.lock = NoThread]
  BY <1>2 DEF Done
<1>9. LET z == [c EXCEPT !.down = Tail(@), !.lock = NoThread]
      IN  /\ ConnectionFits("ctl", z) /\ z.up = c.up /\ z.srv = c.srv
          /\ z.down = Tail(c.down) /\ z.lock = NoThread
  BY <1>2, TakingFits
<1>10. ConnectionFits("ctl", d) /\ d.lock = NoThread /\ d.up = c.up /\ d.srv = c.srv
       /\ d.down = Tail(c.down)
  BY <1>8, <1>9
<1>11. d \in Connection /\ e \in Connection
  BY <1>7, <1>10 DEF ConnectionFits
<1>12. ASSUME "ctl" \notin broken PROVE Exchange(c, pc[t], t) /\ pc[t].own
  <2>1. pc[t].op # "none"
    BY <1>3 DEF ControlOps
  <2> QED
    BY <1>3, <1>4, <1>12, <2>1 DEF ClientInv, Exchanges, ControlFits, OwnFits
<1> QED
  BY <1>1, <1>2, <1>3, <1>4, <1>5, <1>6, <1>7, <1>8, <1>10, <1>11, <1>12

\* A call on the control connection ends with its answer read.
LEMMA ControlReturns ==
  ASSUME ClientInv, NEW t \in Threads, pc[t].at \in ControlPoints, conns["ctl"].down # <<>>,
         pc' = [pc EXCEPT ![t] = Idle], conns' = Done,
         last' \in [ret : {"none", "ok", "error", "cancelled"}, own : BOOLEAN],
         "ctl" \notin broken => Still(Done["ctl"]),
         ctx' = IF Makes(pc[t]) THEN "made" ELSE ctx,
         IsLimits(limits'), mixed' \in BOOLEAN,
         UNCHANGED <<dev, cancelling, broken, breaks>>, LimitsFollow'
  PROVE  ClientInv'
<1>1. /\ pc[t].op \in ControlOps /\ pc[t].op \notin BufferOps /\ pc \in [Threads -> Call]
      /\ Done = [j \in {"ctl", "buf"} |-> Done[j]]
      /\ Done["buf"] = conns["buf"] /\ ConnectionFits("ctl", Done["ctl"])
      /\ Done["ctl"].lock = NoThread
      /\ breaks \in 0 .. Breaks /\ ctx \in {"none", "making", "made"}
      /\ ContextFits(ctx, pc, dev, cancelling)
  BY ControlTaking
<1>2. /\ Idle \in Call /\ CallFits(Idle, t) /\ Idle.op = "none" /\ Idle.op \notin BufferOps
      /\ ~Makes(Idle) /\ Idle.at \notin ControlPoints
  BY IdleIs DEF BufferOps
<1>3. pc'[t] = Idle /\ \A u \in Threads : u # t => pc'[u] = pc[u]
  BY <1>1
<1>4. ControlSide(t)
  BY <1>1, <1>2, <1>3 DEF ControlSide
<1>5. ContextFits(ctx', pc', dev, cancelling)
  <2>1. CASE Makes(pc[t])
    <3>1. ContextFits(ctx, pc, dev, cancelling)
      BY <1>1
    <3>2. ContextFits("made", pc', dev, cancelling)
      <4>1. PICK g : g = pc'
        OBVIOUS
      <4>2. g[t] = Idle /\ \A u \in Threads : u # t => g[u] = pc[u]
        BY <1>3, <4>1
      <4>3. ContextFits("made", g, dev, cancelling)
        BY <2>1, <3>1, <4>2, ContextEnds
      <4> QED
        BY <4>1, <4>3
    <3> QED
      BY <2>1, <3>2
  <2>2. CASE ~Makes(pc[t])
    <3>1. pc[t].op # "none"
      BY <1>1 DEF ControlOps
    <3>2. pc'[BufferUser].op \in BufferOps => pc[BufferUser].op \in BufferOps
      BY <1>2, <1>3, ClientAssumption
    <3>3. ContextFits(ctx, pc', dev, cancelling)
      BY <1>1, <1>2, <1>3, <2>2, <3>1, <3>2, ContextStays
    <3> QED
      BY <2>2, <3>3
  <2> QED
    BY <2>1, <2>2
<1>6. /\ conns' = [j \in {"ctl", "buf"} |-> conns'[j]] /\ ConnectionFits("ctl", conns'["ctl"])
      /\ conns'["ctl"].lock = NoThread /\ ("ctl" \notin broken => Still(conns'["ctl"]))
      /\ breaks' \in 0 .. Breaks /\ ctx' \in {"none", "making", "made"}
      /\ ctx' = "making" => ctx = "making"
  BY <1>1
<1> QED
  BY <1>2, <1>4, <1>5, <1>6, ControlSideKeeps

LEMMA TakeLineKeeps ==
  ASSUME ClientInv, NEW t \in Threads, TakeLine(t) PROVE ClientInv'
<1> DEFINE c == conns["ctl"]
           d == Done["ctl"]
<1>1. /\ pc[t].at = "line" /\ pc[t].at \in ControlPoints /\ c.down # <<>> /\ conns' = Done
      /\ \E ret \in {"ok", "error"} : Return(t, ret, OwnNow(t, "ctl"))
      /\ UNCHANGED <<ctx, dev, cancelling, limits, broken, mixed, breaks>>
  BY DEF TakeLine, ControlPoints
<1>2. /\ pc[t] \in Call /\ CallFits(pc[t], t) /\ pc \in [Threads -> Call] /\ c.lock = t
      /\ c \in Connection /\ OwnNow(t, "ctl") \in BOOLEAN
      /\ d \in Connection /\ d.up = c.up /\ d.srv = c.srv /\ d.down = Tail(c.down)
      /\ d.lock = NoThread /\ mixed \in BOOLEAN
      /\ IsLimits(limits) /\ LimitsFollow
      /\ "ctl" \notin broken => Exchange(c, pc[t], t)
  BY <1>1, ControlTaking
<1>3. pc[t].op = "VERSION"
  BY <1>1, <1>2 DEF CallFits, PointsOf, Call, BufferOps, ControlOps
<1>4. /\ pc' = [pc EXCEPT ![t] = Idle]
      /\ last' \in [ret : {"none", "ok", "error", "cancelled"}, own : BOOLEAN]
  BY <1>1, <1>2 DEF Return
<1>5. LimitsFollow'
  <2>1. Idle.op # "TIMEOUT"
    BY IdleIs
  <2>2. \A u \in Threads : u # t => (Accepted(conns'["ctl"], u) <=> Accepted(c, u))
    BY <1>1, <1>2, OthersWait
  <2> QED
    BY <1>1, <1>2, <1>3, <1>4, <2>1, <2>2, LimitsStay
<1> HIDE DEF d, c
<1>6. "ctl" \notin broken => Still(d)
  BY <1>1, <1>2, TakesLast
<1>7. ctx' = (IF Makes(pc[t]) THEN "made" ELSE ctx)
  BY <1>1, <1>3 DEF Makes
<1>8. IsLimits(limits') /\ mixed' \in BOOLEAN
  BY <1>1, <1>2
<1> QED
  BY <1>1, <1>4, <1>5, <1>6, <1>7, <1>8, ControlReturns DEF c, d

LEMMA TakeValueKeeps ==
  ASSUME ClientInv, NEW t \in Threads, TakeValue(t) PROVE ClientInv'
<1> DEFINE c == conns["ctl"]
           d == Done["ctl"]
<1>1. /\ pc[t].at \in {"value", "discard"} /\ pc[t].at \in ControlPoints /\ pc[t].op # "PRINT"
      /\ c.down # <<>> /\ conns' = Done
      /\ \E ret \in {"ok", "error"} : Return(t, ret, OwnNow(t, "ctl"))
      /\ UNCHANGED <<ctx, dev, cancelling, limits, broken, mixed, breaks>>
  BY DEF TakeValue, ControlPoints
<1>2. /\ pc[t] \in Call /\ CallFits(pc[t], t) /\ pc \in [Threads -> Call] /\ c.lock = t
      /\ c \in Connection /\ OwnNow(t, "ctl") \in BOOLEAN
      /\ d \in Connection /\ d.up = c.up /\ d.srv = c.srv /\ d.down = Tail(c.down)
      /\ d.lock = NoThread /\ mixed \in BOOLEAN
      /\ IsLimits(limits) /\ LimitsFollow
      /\ "ctl" \notin broken => Exchange(c, pc[t], t)
  BY <1>1, ControlTaking
<1>3. pc[t].op \in {"READ", "GETTRIG"}
  BY <1>1, <1>2 DEF CallFits, PointsOf, Call, BufferOps, ControlOps
<1>4. /\ pc' = [pc EXCEPT ![t] = Idle]
      /\ last' \in [ret : {"none", "ok", "error", "cancelled"}, own : BOOLEAN]
  BY <1>1, <1>2 DEF Return
<1>5. LimitsFollow'
  <2>1. Idle.op # "TIMEOUT"
    BY IdleIs
  <2>2. \A u \in Threads : u # t => (Accepted(conns'["ctl"], u) <=> Accepted(c, u))
    BY <1>1, <1>2, OthersWait
  <2>3. pc[t].op # "TIMEOUT"
    BY <1>3
  <2> QED
    BY <1>1, <1>2, <1>4, <2>1, <2>2, <2>3, LimitsStay
<1> HIDE DEF d, c
<1>6. "ctl" \notin broken => Still(d)
  BY <1>1, <1>2, TakesLast
<1>7. ctx' = (IF Makes(pc[t]) THEN "made" ELSE ctx)
  BY <1>1, <1>3 DEF Makes
<1>8. IsLimits(limits') /\ mixed' \in BOOLEAN
  BY <1>1, <1>2
<1> QED
  BY <1>1, <1>4, <1>5, <1>6, <1>7, <1>8, ControlReturns DEF c, d

\* A context that has its description asks for its timeout, as the only thread.
LEMMA TakeContextKeeps ==
  ASSUME ClientInv, NEW t \in Threads, NEW ok \in BOOLEAN, TakeContext(t, ok) PROVE ClientInv'
<1> DEFINE c == conns["ctl"]
           d == Done["ctl"]
           q == [Idle EXCEPT !.op = "TIMEOUT", !.at = "lock",
                             !.val = DEFAULT_TIMEOUT_MS, !.first = TRUE]
<1>1. /\ pc[t].at = "value" /\ pc[t].at \in ControlPoints /\ pc[t].op = "PRINT" /\ c.down # <<>>
      /\ UNCHANGED <<dev, cancelling, limits, broken, mixed, breaks>>
      /\ ok => conns' = Done /\ pc' = [pc EXCEPT ![t] = q] /\ last' = NoResult /\ ctx' = ctx
      /\ ~ok => /\ conns' = [conns EXCEPT !["ctl"] = Fresh] /\ ctx' = "none"
                /\ Return(t, "error", OwnNow(t, "ctl"))
  BY DEF TakeContext, ControlPoints
<1>2. /\ pc[t] \in Call /\ CallFits(pc[t], t) /\ pc \in [Threads -> Call] /\ c.lock = t
      /\ c \in Connection /\ OwnNow(t, "ctl") \in BOOLEAN /\ pc[t].op \notin BufferOps
      /\ Done = [j \in {"ctl", "buf"} |-> Done[j]]
      /\ Done["buf"] = conns["buf"] /\ ConnectionFits("ctl", d) /\ d.lock = NoThread
      /\ d \in Connection /\ d.up = c.up /\ d.srv = c.srv /\ d.down = Tail(c.down)
      /\ breaks \in 0 .. Breaks /\ mixed \in BOOLEAN /\ ctx \in {"none", "making", "made"}
      /\ IsLimits(limits)
      /\ ContextFits(ctx, pc, dev, cancelling) /\ LimitsFollow
      /\ "ctl" \notin broken => Exchange(c, pc[t], t)
  BY <1>1, ControlTaking
<1>3. conns = [j \in {"ctl", "buf"} |-> conns[j]]
  BY DEF ClientInv, ClientShape, Types
<1>4. Makes(pc[t]) /\ ctx = "making" /\ \A u \in Threads : u # t => pc[u] = Idle
  <2>1. Makes(pc[t])
    BY <1>1 DEF Makes
  <2> QED
    BY <1>2, <2>1, IdleIs DEF ContextFits
<1> HIDE DEF d, c
<1>5. CASE ok
  <2>1. /\ q.op = "TIMEOUT" /\ q.at = "lock" /\ q.first = TRUE /\ q.own
        /\ q.val = DEFAULT_TIMEOUT_MS
    BY DEF Idle
  <2>2. q \in Call
    <3>1. "TIMEOUT" \in ControlOps /\ "lock" \in {"idle", "lock"} /\ TRUE \in BOOLEAN
          /\ DEFAULT_TIMEOUT_MS \in Val /\ Idle \in Call
      BY IdleIs DEF ControlOps, Val
    <3> HIDE DEF Val, ControlOps
    <3> QED
      BY <3>1 DEF Call
  <2> HIDE DEF q
  <2>3. CallFits(q, t) /\ q.at \notin ControlPoints /\ q.op \notin BufferOps /\ Makes(q)
    BY <2>1 DEF CallFits, PointsOf, Val, ControlPoints, BufferOps, Makes
  <2>4. pc'[t] = q /\ \A u \in Threads : u # t => pc'[u] = pc[u]
    BY <1>1, <1>2, <1>5
  <2>5. ControlSide(t)
    BY <1>1, <1>2, <1>5, <2>3, <2>4 DEF ControlSide
  <2>6. ContextFits(ctx, pc', dev, cancelling)
    <3>1. pc[t].op # "none"
      BY <1>1
    <3>2. pc'[BufferUser].op \in BufferOps => pc[BufferUser].op \in BufferOps
      BY <2>3, <2>4, ClientAssumption
    <3> QED
      BY <1>2, <1>4, <2>3, <2>4, <3>1, <3>2, ContextStays
  <2>7. "ctl" \notin broken => Still(d)
    BY <1>1, <1>2, TakesLast
  <2>8. LimitsFollow'
    <3>1. ASSUME "ctl" \notin broken, ~mixed PROVE LimitsFit(ctx, d, pc', limits)
      <4>1. \A u \in Threads : pc'[u].op = "TIMEOUT" => u = t
        BY <1>4, <2>4, IdleIs
      <4>2. /\ pc'[t].op = "TIMEOUT" /\ pc'[t].first /\ ctx # "made" /\ ~Accepted(d, t)
            /\ pc'[t].val = DEFAULT_TIMEOUT_MS
        BY <1>2, <1>4, <2>1, <2>4, ClientAssumption DEF Accepted
      <4>3. limits.socket = DEFAULT_TIMEOUT_MS
        BY <1>2, <1>4, <3>1 DEF LimitsFollow, LimitsFit
      <4> QED
        BY <4>1, <4>2, <4>3 DEF LimitsFit
    <3>2. conns'["ctl"] = d /\ limits' = limits /\ ctx' = ctx
      BY <1>1, <1>5 DEF d
    <3> QED
      BY <1>1, <3>1, <3>2 DEF LimitsFollow
  <2>9. last' \in [ret : {"none", "ok", "error", "cancelled"}, own : BOOLEAN]
    <3>1. last' = NoResult
      BY <1>1, <1>5
    <3> QED
      BY <3>1 DEF NoResult
  <2>10. /\ conns' = [j \in {"ctl", "buf"} |-> conns'[j]] /\ ConnectionFits("ctl", conns'["ctl"])
         /\ conns'["ctl"].lock = NoThread /\ ("ctl" \notin broken => Still(conns'["ctl"]))
         /\ breaks' \in 0 .. Breaks /\ ctx' = ctx /\ ctx' \in {"none", "making", "made"}
         /\ ContextFits(ctx', pc', dev, cancelling) /\ mixed' \in BOOLEAN
         /\ IsLimits(limits')
         /\ pc' = [pc EXCEPT ![t] = q]
    BY <1>1, <1>2, <1>5, <2>6, <2>7 DEF d
  <2> QED
    BY <1>1, <2>1, <2>2, <2>3, <2>5, <2>8, <2>9, <2>10, ControlSideKeeps
<1>6. CASE ~ok
  <2>1. /\ pc' = [pc EXCEPT ![t] = Idle]
        /\ last' \in [ret : {"none", "ok", "error", "cancelled"}, own : BOOLEAN]
    <3>1. Return(t, "error", OwnNow(t, "ctl"))
      BY <1>1, <1>6
    <3> QED
      BY <1>2, <3>1 DEF Return
  <2>2. pc'[t] = Idle /\ \A u \in Threads : u # t => pc'[u] = pc[u]
    BY <1>2, <2>1
  <2>3. /\ conns' = [j \in {"ctl", "buf"} |-> conns'[j]]
        /\ conns'["buf"] = conns["buf"] /\ conns'["ctl"] = Fresh
    BY <1>1, <1>3, <1>6
  <2>4. /\ Idle \in Call /\ CallFits(Idle, t) /\ Idle.op = "none" /\ Idle.op \notin BufferOps
        /\ Idle.at \notin ControlPoints
    BY IdleIs DEF BufferOps
  <2>5. ControlSide(t)
    BY <1>1, <1>2, <2>2, <2>3, <2>4 DEF ControlSide
  <2>6. ContextFits("none", pc', dev, cancelling)
    BY <1>2, <1>4, <2>2, ContextEnds
  <2>7. LimitsFollow'
    <3>1. \A u \in Threads : pc'[u].op # "TIMEOUT"
      BY <1>4, <2>2, IdleIs
    <3>2. LimitsFit("none", conns'["ctl"], pc', limits')
      BY <3>1 DEF LimitsFit
    <3> QED
      BY <1>1, <1>6, <3>2 DEF LimitsFollow
  <2>8. /\ ConnectionFits("ctl", conns'["ctl"])
        /\ conns'["ctl"].lock = NoThread /\ Still(conns'["ctl"])
        /\ breaks' \in 0 .. Breaks /\ ctx' \in {"none", "making", "made"} /\ ctx' # "making"
        /\ ContextFits(ctx', pc', dev, cancelling) /\ mixed' \in BOOLEAN
        /\ IsLimits(limits')
    BY <1>1, <1>2, <1>6, <2>3, <2>6, FreshFits
  <2> QED
    BY <1>1, <2>1, <2>3, <2>4, <2>5, <2>7, <2>8, ControlSideKeeps
<1> QED
  BY <1>5, <1>6

\* The timeouts when the answer to a new one has come.
LEMMA TimeoutAnswered ==
  ASSUME pc \in [Threads -> Call], NEW t \in Threads, pc[t].op = "TIMEOUT",
         pc' = [pc EXCEPT ![t] = Idle], LimitsFit(ctx, conns["ctl"], pc, limits),
         conns["ctl"].lock = t, conns["ctl"].down # <<>>,
         NEW u, u = Head(conns["ctl"].down).unit, NEW l,
         \/ u = Value(0) /\ l.client = pc[t].val /\ l.remote = limits.remote
              /\ l.socket = limits.socket
         \/ u # Value(0) /\ ~pc[t].first /\ l.client = limits.client
              /\ l.remote = limits.remote /\ l.refused,
         NEW x, x # "making", NEW d
  PROVE  LimitsFit(x, d, pc', l)
<1>1. Accepted(conns["ctl"], t) <=> u = Value(0)
  BY DEF Accepted
<1>2. Shared(l, l.client) /\ (l.refused \/ l.socket = l.client)
  <2>1. /\ limits.socket = pc[t].val
        /\ Accepted(conns["ctl"], t) => Shared(limits, pc[t].val)
        /\ (~Accepted(conns["ctl"], t) /\ ~pc[t].first) => Shared(limits, limits.client)
    BY DEF LimitsFit
  <2>2. CASE /\ u = Value(0) /\ l.client = pc[t].val /\ l.remote = limits.remote
             /\ l.socket = limits.socket
    BY <1>1, <2>1, <2>2 DEF Shared
  <2>3. CASE /\ u # Value(0) /\ ~pc[t].first /\ l.client = limits.client
             /\ l.remote = limits.remote /\ l.refused
    BY <1>1, <2>1, <2>3 DEF Shared
  <2> QED
    BY <2>2, <2>3
<1>3. \A w \in Threads : pc'[w].op # "TIMEOUT"
  <2>1. \A w \in Threads : pc[w].op = "TIMEOUT" => w = t
    BY DEF LimitsFit
  <2> QED
    BY <2>1, IdleIs
<1> QED
  BY <1>2, <1>3 DEF LimitsFit

LEMMA TakeIntKeeps ==
  ASSUME ClientInv, NEW t \in Threads, TakeInt(t) PROVE ClientInv'
<1> DEFINE p == pc[t]
           c == conns["ctl"]
           u == Head(c.down).unit
           d == Done["ctl"]
           e == Taken("ctl")["ctl"]
           own == OwnNow(t, "ctl")
           again(v) == v < 0 /\ p.op = "PRINT" /\ p.first
           ends(v) == \/ v < 0 /\ ~(p.op = "PRINT" /\ p.first)
                      \/ v >= 0 /\ (~Follows(t) \/ (p.op = "GETTRIG" /\ v = 0))
           goes(v) == v >= 0 /\ Follows(t) /\ ~(p.op = "GETTRIG" /\ v = 0)
<1>1. /\ p.at = "int" /\ p.at \in ControlPoints /\ c.down # <<>>
      /\ ctx' = (IF Creating(t) THEN "made" ELSE ctx)
      /\ UNCHANGED <<dev, cancelling, broken, breaks>>
  BY DEF TakeInt, ControlPoints
<1>2. PICK v \in IF u.kind = "int" THEN {u.v} ELSE {-1, 1} :
        /\ \/ /\ again(v) /\ conns' = Done
              /\ pc' = [pc EXCEPT ![t].at = "lock", ![t].first = FALSE]
              /\ last' = NoResult
           \/ /\ ends(v) /\ conns' = Done
              /\ \E ret \in {"ok", "error"} : Return(t, ret, own)
           \/ /\ goes(v) /\ conns' = Taken("ctl")
              /\ \E at \in {"value", "discard"} :
                   pc' = [pc EXCEPT ![t].at = at, ![t].own = own]
              /\ last' = NoResult
        /\ limits' = Noted(t, v >= 0)
        /\ mixed' = (mixed \/ (Creating(t) /\ v < 0))
  <2>1. NextAt(t) \in {"value", "discard"} /\ NextAt(t) # "return"
    BY DEF NextAt
  <2>2. PICK v \in IF First("ctl").kind = "int" THEN {First("ctl").v} ELSE {-1, 1} :
       /\ \/ /\ v < 0 /\ pc[t].op = "PRINT" /\ pc[t].first
             /\ conns' = Done
             /\ pc' = [pc EXCEPT ![t].at = "lock", ![t].first = FALSE]
             /\ last' = NoResult
          \/ /\ v < 0 /\ ~(pc[t].op = "PRINT" /\ pc[t].first)
             /\ conns' = Done
             /\ Return(t, "error", own)
          \/ /\ v >= 0 /\ (~Follows(t) \/ (pc[t].op = "GETTRIG" /\ v = 0))
             /\ conns' = Done
             /\ Return(t, "ok", own)
          \/ /\ v >= 0 /\ Follows(t) /\ ~(pc[t].op = "GETTRIG" /\ v = 0)
             /\ IF NextAt(t) = "return"
                THEN conns' = Done /\ Return(t, "error", own)
                ELSE /\ conns' = Taken("ctl")
                     /\ pc' = [pc EXCEPT ![t].at = NextAt(t), ![t].own = own]
                     /\ last' = NoResult
       /\ limits' = Noted(t, v >= 0)
       /\ mixed' = (mixed \/ (Creating(t) /\ v < 0))
    BY Zenon DEF TakeInt
  <2>3. v \in IF u.kind = "int" THEN {u.v} ELSE {-1, 1}
    BY <2>2 DEF First
  <2> HIDE DEF u, own
  <2>4. \/ /\ again(v) /\ conns' = Done
           /\ pc' = [pc EXCEPT ![t].at = "lock", ![t].first = FALSE]
           /\ last' = NoResult
        \/ /\ ends(v) /\ conns' = Done
           /\ \E ret \in {"ok", "error"} : Return(t, ret, own)
        \/ /\ goes(v) /\ conns' = Taken("ctl")
           /\ \E at \in {"value", "discard"} :
                pc' = [pc EXCEPT ![t].at = at, ![t].own = own]
           /\ last' = NoResult
    <3>1. "ok" \in {"ok", "error"} /\ "error" \in {"ok", "error"}
      OBVIOUS
    <3> QED
      BY <2>1, <2>2, <3>1, Zenon
  <2> QED
    BY <2>2, <2>3, <2>4
<1>3. /\ p \in Call /\ CallFits(p, t) /\ pc \in [Threads -> Call] /\ c.lock = t
      /\ c \in Connection /\ u.v \in Int /\ own \in BOOLEAN
      /\ p.op \in ControlOps /\ p.op \notin BufferOps
      /\ Done = [j \in {"ctl", "buf"} |-> Done[j]]
      /\ Done["buf"] = conns["buf"] /\ ConnectionFits("ctl", d) /\ d.lock = NoThread
      /\ d \in Connection /\ d.up = c.up /\ d.srv = c.srv /\ d.down = Tail(c.down)
  BY <1>1, ControlTaking
<1>4. /\ Taken("ctl") = [j \in {"ctl", "buf"} |-> Taken("ctl")[j]]
      /\ Taken("ctl")["buf"] = conns["buf"] /\ ConnectionFits("ctl", e) /\ e.lock = t
      /\ e \in Connection /\ e.up = c.up /\ e.srv = c.srv /\ e.down = Tail(c.down)
      /\ breaks \in 0 .. Breaks /\ mixed \in BOOLEAN /\ ctx \in {"none", "making", "made"}
      /\ IsLimits(limits)
      /\ ContextFits(ctx, pc, dev, cancelling) /\ LimitsFollow
      /\ "ctl" \notin broken => Exchange(c, p, t) /\ p.own
  BY <1>1, ControlTaking
<1>5. own = (p.own /\ Head(c.down).by = t)
  BY DEF OwnNow
<1>6. v \in Int
  BY <1>2, <1>3
<1>7. ASSUME "ctl" \notin broken
      PROVE  /\ v = u.v /\ own /\ u.kind = "int"
             /\ p.op = "TIMEOUT" => u \in {Value(-1), Value(0)}
             /\ p.op = "PRINT" /\ ~p.first => ValueFollows(p, u)
             /\ ~ValueFollows(p, u) => Still(d)
  <2> HIDE DEF d, e, c
  <2>1. /\ Head(c.down).by = t /\ u.kind = "int"
        /\ p.op = "TIMEOUT" => u \in {Value(-1), Value(0)}
        /\ p.op = "PRINT" /\ ~p.first => ValueFollows(p, u)
        /\ ~ValueFollows(p, u) => Still(d)
    BY <1>1, <1>3, <1>4, <1>7, TakesInt
  <2> QED
    BY <1>2, <1>4, <1>5, <1>7, <2>1
<1>8. p.op = "PRINT" => ctx = "making" /\ "ctl" \notin broken
  BY <1>4 DEF Makes, ContextFits, ClientInv, ClientShape, MakingFits
<1>9. IsLimits(limits') /\ mixed' \in BOOLEAN
  <2>1. \/ limits' = limits
        \/ limits' = [limits EXCEPT !.client = IF v >= 0 THEN p.val ELSE @, !.refused = ~(v >= 0)]
    BY <1>2 DEF Noted
  <2> QED
    BY <1>2, <1>4, <2>1 DEF IsLimits
<1>10. p.op # "TIMEOUT" => limits' = limits /\ mixed' = mixed
  BY <1>2, <1>4 DEF Noted, Creating
<1>11. /\ breaks' \in 0 .. Breaks /\ ctx' \in {"none", "making", "made"}
       /\ ctx' = "making" => ctx = "making"
  BY <1>1, <1>4
<1> HIDE DEF d, e, u, own
<1>12. CASE /\ again(v) /\ conns' = Done
            /\ pc' = [pc EXCEPT ![t].at = "lock", ![t].first = FALSE]
            /\ last' = NoResult
  <2> DEFINE q == [p EXCEPT !.at = "lock", !.first = FALSE]
  <2>1. pc' = [pc EXCEPT ![t] = q]
    BY <1>3, <1>12
  <2>2. q \in Call /\ q.op = "PRINT" /\ q.at = "lock" /\ q.own = p.own
    BY <1>3, <1>12 DEF Call
  <2> HIDE DEF q
  <2>3. CallFits(q, t) /\ q.at \notin ControlPoints /\ q.op \notin BufferOps /\ Makes(q)
    BY <2>2 DEF CallFits, PointsOf, ControlPoints, BufferOps, Makes
  <2>4. pc'[t] = q /\ \A w \in Threads : w # t => pc'[w] = pc[w]
    BY <1>3, <2>1
  <2>5. conns'["buf"] = conns["buf"] /\ conns'["ctl"] = d /\ ctx' = ctx
    BY <1>1, <1>3, <1>12 DEF Creating, d
  <2>6. ControlSide(t)
    BY <1>1, <1>3, <2>3, <2>4, <2>5 DEF ControlSide
  <2>7. ContextFits(ctx, pc', dev, cancelling)
    <3>1. p.op # "none" /\ Makes(p)
      BY <1>12 DEF Makes
    <3>2. pc'[BufferUser].op \in BufferOps => pc[BufferUser].op \in BufferOps
      BY <2>3, <2>4, ClientAssumption
    <3> QED
      BY <1>4, <2>3, <2>4, <3>1, <3>2, ContextStays
  <2>8. Still(d)
    <3>1. ~ValueFollows(p, u)
      BY <1>7, <1>8, <1>12, <1>3, <1>6 DEF ValueFollows
    <3> QED
      BY <1>7, <1>8, <1>12, <3>1
  <2>9. LimitsFollow'
    <3>1. \A w \in Threads : w # t => (Accepted(conns'["ctl"], w) <=> Accepted(c, w))
      BY <1>3, <2>5, OthersWait
    <3>2. p.op # "TIMEOUT" /\ q.op # "TIMEOUT" /\ limits' = limits /\ (mixed => mixed')
      BY <1>10, <1>12, <2>2
    <3> QED
      BY <1>1, <1>3, <1>4, <2>1, <2>5, <3>1, <3>2, LimitsStay
  <2>10. /\ conns' = [j \in {"ctl", "buf"} |-> conns'[j]] /\ ConnectionFits("ctl", conns'["ctl"])
         /\ conns'["ctl"].lock = NoThread /\ ("ctl" \notin broken => Still(conns'["ctl"]))
         /\ ContextFits(ctx', pc', dev, cancelling)
         /\ (q.op # "none" /\ "ctl" \notin broken => q.own)
    BY <1>3, <1>4, <1>12, <2>2, <2>5, <2>7, <2>8
  <2>11. last' \in [ret : {"none", "ok", "error", "cancelled"}, own : BOOLEAN]
    <3>1. last' = NoResult
      BY <1>12
    <3> QED
      BY <3>1 DEF NoResult
  <2> QED
    BY <1>1, <1>9, <1>11, <2>1, <2>2, <2>3, <2>6, <2>9, <2>10, <2>11, ControlSideKeeps
<1>13. CASE /\ ends(v) /\ conns' = Done
            /\ \E ret \in {"ok", "error"} : Return(t, ret, own)
  <2>1. /\ pc' = [pc EXCEPT ![t] = Idle]
        /\ last' \in [ret : {"none", "ok", "error", "cancelled"}, own : BOOLEAN]
    <3>1. \E ret \in {"ok", "error"} : Return(t, ret, own)
      BY <1>13
    <3> QED
      BY <1>3, <3>1 DEF Return
  <2>2. "ctl" \notin broken => ~ValueFollows(p, u)
    BY <1>3, <1>6, <1>7, <1>13 DEF ValueFollows, Follows
  <2>3. p.op # "PRINT"
    BY <1>3, <1>6, <1>7, <1>8, <1>13, <2>2 DEF Follows
  <2>4. "ctl" \notin broken => Still(d)
    BY <1>7, <2>2
  <2>5. ctx' = (IF Makes(p) THEN "made" ELSE ctx)
    BY <1>1, <2>3 DEF Makes, Creating
  <2>6. conns'["ctl"] = d
    BY <1>13 DEF d
  <2>7. LimitsFollow'
    <3>1. CASE p.op # "TIMEOUT"
      <4>1. \A w \in Threads : w # t => (Accepted(conns'["ctl"], w) <=> Accepted(c, w))
        BY <1>3, <2>6, OthersWait
      <4>2. ctx' = ctx
        BY <1>1, <3>1 DEF Creating
      <4>3. Idle.op # "TIMEOUT" /\ limits' = limits /\ (mixed => mixed')
        BY <1>10, <3>1, IdleIs
      <4> QED
        BY <1>1, <1>3, <1>4, <2>1, <3>1, <4>1, <4>2, <4>3, LimitsStay
    <3>2. CASE p.op = "TIMEOUT"
      <4>1. ASSUME "ctl" \notin broken, ~mixed' PROVE LimitsFit(ctx', conns'["ctl"], pc', limits')
        <5>1. LimitsFit(ctx, c, pc, limits)
          BY <1>2, <1>4, <4>1 DEF LimitsFollow
        <5>2. Value(0).v = 0 /\ Value(-1).v = -1
          BY DEF Value
        <5>3. v = u.v /\ u \in {Value(-1), Value(0)}
          BY <1>7, <3>2, <4>1
        <5>4. \/ /\ u = Value(0) /\ limits'.client = p.val /\ limits'.remote = limits.remote
                 /\ limits'.socket = limits.socket
              \/ /\ u # Value(0) /\ ~p.first /\ limits'.client = limits.client
                 /\ limits'.remote = limits.remote /\ limits'.refused
          <6>0. limits' = [limits EXCEPT !.client = IF v >= 0 THEN p.val ELSE @,
                                         !.refused = ~(v >= 0)]
            BY <1>2, <3>2 DEF Noted
          <6>1. CASE u = Value(0)
            <7>1. v >= 0
              BY <5>2, <5>3, <6>1
            <7> QED
              BY <1>4, <6>0, <6>1, <7>1 DEF IsLimits
          <6>2. CASE u = Value(-1)
            <7>1. v < 0 /\ ~(v >= 0) /\ u # Value(0)
              BY <5>2, <5>3, <6>2
            <7>2. ~p.first
              BY <1>2, <3>2, <4>1, <7>1 DEF Creating
            <7> QED
              BY <1>4, <6>0, <7>1, <7>2 DEF IsLimits
          <6> QED
            BY <5>3, <6>1, <6>2
        <5>5. ctx' # "making"
          BY <1>1, <1>4, <3>2, IdleIs DEF ContextFits, Makes, Creating
        <5> QED
          BY <1>1, <1>3, <2>1, <3>2, <5>1, <5>4, <5>5, TimeoutAnswered DEF u
      <4> QED
        BY <1>1, <4>1 DEF LimitsFollow
    <3> QED
      BY <3>1, <3>2
  <2> QED
    BY <1>1, <1>9, <1>13, <2>1, <2>4, <2>5, <2>7, ControlReturns DEF d
<1>14. CASE /\ goes(v) /\ conns' = Taken("ctl")
            /\ \E at \in {"value", "discard"} :
                 pc' = [pc EXCEPT ![t].at = at, ![t].own = own]
            /\ last' = NoResult
  <2>1. PICK at \in {"value", "discard"} : pc' = [pc EXCEPT ![t].at = at, ![t].own = own]
    BY <1>14
  <2> DEFINE q == [p EXCEPT !.at = at, !.own = own]
  <2>2. pc' = [pc EXCEPT ![t] = q]
    BY <1>3, <2>1
  <2>3. p.op \in {"READ", "PRINT", "GETTRIG"} /\ p.op # "TIMEOUT" /\ p.op # "none"
    BY <1>14 DEF Follows
  <2>4. at \in ControlPoints
    BY <2>1 DEF ControlPoints
  <2>5. q \in Call /\ q.op = p.op /\ q.at = at /\ q.own = own /\ q.first = p.first
    BY <1>3, <2>4 DEF Call
  <2> HIDE DEF q
  <2>6. CallFits(q, t) /\ q.op \notin BufferOps /\ (Makes(q) <=> Makes(p))
    BY <1>3, <2>1, <2>3, <2>5 DEF CallFits, PointsOf, BufferOps, Makes
  <2>7. pc'[t] = q /\ \A w \in Threads : w # t => pc'[w] = pc[w]
    BY <1>3, <2>2
  <2>8. conns'["buf"] = conns["buf"] /\ conns'["ctl"] = e /\ ctx' = ctx
    BY <1>1, <1>4, <1>14, <2>3 DEF Creating, e
  <2>9. ControlSide(t)
    BY <1>1, <1>3, <2>6, <2>7, <2>8 DEF ControlSide
  <2>10. ContextFits(ctx, pc', dev, cancelling)
    <3>1. pc'[BufferUser].op \in BufferOps => pc[BufferUser].op \in BufferOps
      BY <2>6, <2>7, ClientAssumption
    <3> QED
      BY <1>4, <2>3, <2>6, <2>7, <3>1, ContextStays
  <2>11. ASSUME "ctl" \notin broken PROVE Exchange(e, q, t) /\ q.own
    <3>1. v = u.v /\ own
      BY <1>7, <2>11
    <3>2. ValueFollows(p, u)
      BY <1>14, <2>3, <3>1 DEF ValueFollows
    <3> HIDE DEF c
    <3>3. Exchange(e, q, t)
      BY <1>1, <1>3, <1>4, <2>1, <2>5, <2>11, <3>2, TakesInt DEF u
    <3> QED
      BY <2>5, <3>1, <3>3
  <2>12. LimitsFollow'
    <3>1. \A w \in Threads : w # t => (Accepted(conns'["ctl"], w) <=> Accepted(c, w))
      BY <1>3, <1>4, <2>8, OthersWait
    <3>2. q.op # "TIMEOUT" /\ limits' = limits /\ (mixed => mixed')
      BY <1>10, <2>3, <2>5
    <3> QED
      BY <1>1, <1>3, <1>4, <2>2, <2>3, <2>8, <3>1, <3>2, LimitsStay
  <2>13. /\ conns' = [j \in {"ctl", "buf"} |-> conns'[j]] /\ ConnectionFits("ctl", conns'["ctl"])
         /\ conns'["ctl"].lock = t /\ ("ctl" \notin broken => Exchange(conns'["ctl"], q, t))
         /\ ContextFits(ctx', pc', dev, cancelling)
         /\ (q.op # "none" /\ "ctl" \notin broken => q.own)
         /\ q.at \in ControlPoints
    BY <1>4, <1>14, <2>4, <2>5, <2>8, <2>10, <2>11
  <2>14. last' \in [ret : {"none", "ok", "error", "cancelled"}, own : BOOLEAN]
    <3>1. last' = NoResult
      BY <1>14
    <3> QED
      BY <3>1 DEF NoResult
  <2> QED
    BY <1>1, <1>9, <1>11, <2>2, <2>5, <2>6, <2>9, <2>12, <2>13, <2>14, ControlSideKeeps
<1> QED
  BY <1>2, <1>12, <1>13, <1>14

LEMMA BeginKeeps ==
  ASSUME ClientInv, NEW t \in Threads, NEW op \in ControlOps, Begin(t, op) PROVE ClientInv'
<1> DEFINE c == conns["ctl"]
<1>1. /\ ctx = "made" /\ pc[t] = Idle /\ op # "PRINT" /\ last' = NoResult
      /\ UNCHANGED <<ctx, conns, dev, cancelling, broken, breaks>>
  BY DEF Begin
<1>2. PICK v \in IF op = "TIMEOUT" THEN Timeouts ELSE {0}, fits \in {TRUE, op # "READ"} :
        \E room \in {TRUE, fits} :
        /\ pc' = [pc EXCEPT ![t] = [Idle EXCEPT !.op = op, !.at = "lock", !.val = v,
                                                !.fits = fits, !.room = room]]
        /\ limits' = IF op = "TIMEOUT" THEN [limits EXCEPT !.socket = v] ELSE limits
        /\ mixed' = (mixed \/ (op = "TIMEOUT" /\ \E u \in Threads : pc[u].op = "TIMEOUT"))
  BY DEF Begin
<1>0. PICK room \in {TRUE, fits} :
        /\ pc' = [pc EXCEPT ![t] = [Idle EXCEPT !.op = op, !.at = "lock", !.val = v,
                                                !.fits = fits, !.room = room]]
        /\ limits' = IF op = "TIMEOUT" THEN [limits EXCEPT !.socket = v] ELSE limits
        /\ mixed' = (mixed \/ (op = "TIMEOUT" /\ \E u \in Threads : pc[u].op = "TIMEOUT"))
  BY <1>2
<1> DEFINE q == [Idle EXCEPT !.op = op, !.at = "lock", !.val = v, !.fits = fits,
                          !.room = room]
<1>3. /\ pc \in [Threads -> Call] /\ breaks \in 0 .. Breaks /\ mixed \in BOOLEAN
      /\ IsLimits(limits)
      /\ conns = [j \in {"ctl", "buf"} |-> conns[j]] /\ ConnectionFits("ctl", c)
      /\ LockFits(pc, c.lock) /\ ContextFits("made", pc, dev, cancelling) /\ LimitsFollow
  BY <1>1 DEF ClientInv, ClientShape, Types
<1>4. v \in Val \cup Int /\ (op = "TIMEOUT" => v \in Val) /\ fits \in BOOLEAN /\ room \in BOOLEAN
  <2>1. (op = "TIMEOUT" /\ v \in Timeouts) \/ (op # "TIMEOUT" /\ v = 0)
    BY <1>2
  <2>2. (op # "READ") \in BOOLEAN /\ TRUE \in BOOLEAN
    OBVIOUS
  <2>3. fits \in BOOLEAN /\ room \in BOOLEAN
    BY <1>0, <1>2, <2>2
  <2> QED
    BY <2>1, <2>3 DEF Val
<1>5. /\ q.op = op /\ q.at = "lock" /\ q.val = v /\ ~q.first /\ q.own
  BY DEF Idle
<1>6. q \in Call
  <2>1. "lock" \in {"idle", "lock"} /\ Idle \in Call
    BY IdleIs
  <2> QED
    BY <1>4, <2>1 DEF Call
<1>7. pc' = [pc EXCEPT ![t] = q]
  BY <1>0
<1> HIDE DEF q
<1>8. /\ CallFits(q, t) /\ q.at \notin ControlPoints /\ q.op \notin BufferOps /\ ~Makes(q)
      /\ q.op # "none"
  BY <1>1, <1>4, <1>5 DEF CallFits, PointsOf, ControlPoints, BufferOps, ControlOps, Makes
<1>9. pc'[t] = q /\ \A u \in Threads : u # t => pc'[u] = pc[u]
  BY <1>3, <1>7
<1>10. /\ pc[t].op = "none" /\ pc[t].op \notin BufferOps /\ pc[t].at \notin ControlPoints
  BY <1>1, IdleIs DEF BufferOps
<1>11. ControlSide(t)
  BY <1>1, <1>8, <1>9, <1>10 DEF ControlSide
<1>12. ContextFits("made", pc', dev, cancelling)
  <2>1. pc'[BufferUser].op \in BufferOps => dev.open
    BY <1>3, <1>8, <1>9, ClientAssumption DEF ContextFits
  <2> QED
    BY <1>1, <1>3, <1>8, <1>9, <2>1, ContextUsed
<1>13. LimitsFollow'
  <2>1. CASE op # "TIMEOUT"
    <3>1. mixed => mixed'
      BY <1>0, <2>1
    <3>2. ctx' = ctx
      BY <1>1
    <3>3. \A u \in Threads : u # t => (Accepted(conns'["ctl"], u) <=> Accepted(c, u))
      BY <1>1
    <3>4. pc[t].op # "TIMEOUT" /\ q.op # "TIMEOUT" /\ limits' = limits /\ broken' = broken
      BY <1>0, <1>1, <1>5, <1>10, <2>1
    <3> QED
      BY <1>3, <1>7, <3>1, <3>2, <3>3, <3>4, LimitsStay
  <2>2. CASE op = "TIMEOUT"
    <3>1. ASSUME "ctl" \notin broken, ~mixed' PROVE LimitsFit("made", c, pc', limits')
      <4>1. ~mixed /\ \A u \in Threads : pc[u].op # "TIMEOUT"
        BY <1>0, <2>2, <3>1
      <4>2. Shared(limits, limits.client)
        BY <1>1, <1>3, <3>1, <4>1 DEF LimitsFollow, LimitsFit
      <4>3. c.lock # t
        BY <1>3, <1>10 DEF LockFits
      <4>4. ~Accepted(c, t)
        BY <4>3 DEF Accepted
      <4>5. \A u \in Threads : pc'[u].op = "TIMEOUT" => u = t
        BY <1>9, <4>1
      <4>6. pc'[t].op = "TIMEOUT" /\ pc'[t].val = v
        BY <1>5, <1>9, <2>2
      <4>7. limits'.socket = v /\ Shared(limits', limits'.client)
        BY <1>0, <1>3, <2>2, <4>2 DEF IsLimits, Shared
      <4> HIDE DEF c
      <4> QED
        BY <4>4, <4>5, <4>6, <4>7 DEF LimitsFit
    <3> QED
      BY <1>1, <3>1 DEF LimitsFollow
  <2> QED
    BY <2>1, <2>2
<1>14. /\ conns' = [j \in {"ctl", "buf"} |-> conns'[j]] /\ ConnectionFits("ctl", conns'["ctl"])
       /\ conns'["ctl"] = conns["ctl"] /\ breaks' \in 0 .. Breaks /\ mixed' \in BOOLEAN
       /\ ctx' \in {"none", "making", "made"} /\ (ctx' = "making" => ctx = "making")
       /\ IsLimits(limits')
       /\ ContextFits(ctx', pc', dev, cancelling)
  BY <1>0, <1>1, <1>3, <1>12 DEF IsLimits
<1>15. last' \in [ret : {"none", "ok", "error", "cancelled"}, own : BOOLEAN]
  BY <1>1 DEF NoResult
<1> QED
  BY <1>5, <1>6, <1>7, <1>8, <1>10, <1>11, <1>13, <1>14, <1>15, ControlSideKeeps

\* What is written for a command.
LEMMA CommandsFit ==
  ASSUME NEW p \in Call, NEW t \in Threads, CallFits(p, t), p.op \in ControlOps,
         NEW x, x = Requested(p, t)
  PROVE  /\ x \in Seq(Request) /\ Len(x) > 0 /\ x[Len(x)].cmd # "WRITE"
<1>1. CASE p.op = "WRITE"
  <2> DEFINE w == Req("WRITE", t, 0)
             d == Req("DATA", t, 0)
  <2>1. x = <<w, d>>
    BY <1>1 DEF Requested
  <2>2. w \in Request /\ d \in Request /\ d.cmd # "WRITE"
    BY DEF Req, Request, Asker, Cmds, ControlOps, BufferCmds, RemoteVal
  <2> HIDE DEF w, d
  <2>3. x \in Seq(Request) /\ Len(x) = 2 /\ x[2] = d
    BY <2>1, <2>2, TwoLong
  <2> QED
    BY <2>2, <2>3
<1>2. CASE p.op # "WRITE"
  <2>1. PICK w : /\ x = <<w>>
                 /\ \/ /\ w = Req("TIMEOUT", t, calculate_remote_timeout(p.val))
                       /\ p.op = "TIMEOUT"
                    \/ w = Req(Asked(p), t, 0) /\ p.op # "TIMEOUT"
    <3>1. CASE p.op = "TIMEOUT"
      BY <3>1 DEF Requested
    <3>2. CASE p.op # "TIMEOUT"
      BY <1>2, <3>2 DEF Requested
    <3> QED
      BY <3>1, <3>2
  <2>2. w \in Request /\ w.cmd # "WRITE"
    <3>1. CASE w = Req("TIMEOUT", t, calculate_remote_timeout(p.val)) /\ p.op = "TIMEOUT"
      <4>1. calculate_remote_timeout(p.val) \in RemoteVal
        BY <3>1 DEF CallFits, RemoteVal
      <4> QED
        BY <3>1, <4>1 DEF Req, Request, Asker, Cmds, ControlOps
    <3>2. CASE w = Req(Asked(p), t, 0) /\ p.op # "TIMEOUT"
      <4>1. Asked(p) \in Cmds /\ Asked(p) # "WRITE"
        BY <1>2, <3>2 DEF Asked, Cmds, ControlOps
      <4>2. 0 \in RemoteVal /\ t \in Asker
        BY DEF RemoteVal, Asker
      <4> QED
        BY <3>2, <4>1, <4>2 DEF Req, Request
    <3> QED
      BY <2>1, <3>1, <3>2
  <2>3. x \in Seq(Request) /\ Len(x) = 1 /\ x[1] = w
    BY <2>1, <2>2, OneLong
  <2> QED
    BY <2>2, <2>3
<1> QED
  BY <1>1, <1>2

LEMMA SendKeeps ==
  ASSUME ClientInv, NEW t \in Threads, Send(t) PROVE ClientInv'
<1> DEFINE p == pc[t]
           c == conns["ctl"]
           x == Requested(p, t)
           at == IF p.op = "VERSION" THEN "line" ELSE "int"
           q == [p EXCEPT !.at = at]
           y == c.up \o x
           d == [c EXCEPT !.up = y, !.lock = t]
<1>1. /\ p.at = "lock" /\ c.lock = NoThread /\ last' = NoResult
      /\ pc' = [pc EXCEPT ![t].at = at]
      /\ UNCHANGED <<ctx, dev, cancelling, limits, broken, mixed, breaks>>
  BY DEF Send, Go
<1>2. /\ p \in Call /\ CallFits(p, t) /\ pc \in [Threads -> Call] /\ breaks \in 0 .. Breaks
      /\ mixed \in BOOLEAN /\ ctx \in {"none", "making", "made"}
      /\ IsLimits(limits)
      /\ conns = [j \in {"ctl", "buf"} |-> conns[j]] /\ ConnectionFits("ctl", c)
      /\ LockFits(pc, c.lock) /\ ContextFits(ctx, pc, dev, cancelling) /\ LimitsFollow
      /\ ControlFits(c, pc, broken) /\ OwnFits(pc, broken)
  BY DEF ClientInv, ClientShape, Types, CallsFit, Exchanges
<1>3. p.op \in ControlOps /\ p.op \notin BufferOps /\ p.op # "none" /\ Conn(p.op) = "ctl"
  BY <1>1, <1>2 DEF CallFits, PointsOf, Call, BufferOps, ControlOps, Conn
<1>4. conns' = [Sent("ctl", x) EXCEPT !["ctl"].lock = t]
  <2>1. x = (CASE p.op = "WRITE" -> <<Req("WRITE", t, 0), Req("DATA", t, 0)>>
               [] p.op = "PRINT" -> <<Req(IF p.first THEN "ZPRINT" ELSE "PRINT", t, 0)>>
               [] p.op = "TIMEOUT" -> <<Req("TIMEOUT", t, calculate_remote_timeout(p.val))>>
               [] OTHER -> <<Req(p.op, t, 0)>>)
    BY <1>3 DEF Requested, Asked, BufferOps
  <2> HIDE DEF x
  <2> QED
    BY <2>1 DEF Send
<1>5. /\ conns' = [j \in {"ctl", "buf"} |-> conns'[j]]
      /\ conns'["buf"] = conns["buf"] /\ conns'["ctl"] = d
  <2> HIDE DEF x
  <2>1. Sent("ctl", x) = [conns EXCEPT !["ctl"] = [c EXCEPT !.up = y]]
    BY <1>2 DEF Sent
  <2>2. c \in Connection
    BY <1>2 DEF ConnectionFits
  <2>3. [[c EXCEPT !.up = y] EXCEPT !.lock = t] = d
    <3> HIDE DEF y
    <3> QED
      BY <2>2 DEF Connection
  <2>4. conns' = [conns EXCEPT !["ctl"] = d]
    <3> HIDE DEF y, d
    <3> QED
      BY <1>2, <1>4, <2>1, <2>3
  <2> HIDE DEF d
  <2> QED
    BY <1>2, <2>4
<1>6. x \in Seq(Request) /\ Len(x) > 0 /\ x[Len(x)].cmd # "WRITE"
  BY <1>2, <1>3, CommandsFit
<1>7. /\ c \in Connection /\ c.up \in Seq(Request)
      /\ \A n \in 1 .. Len(c.up) : c.up[n].cmd = "WRITE" => n < Len(c.up)
  BY <1>2 DEF ConnectionFits, Connection
<1> HIDE DEF x
<1>8. /\ y \in Seq(Request) /\ \A n \in 1 .. Len(y) : y[n].cmd = "WRITE" => n < Len(y)
  BY <1>6, <1>7, AskingFits
<1> HIDE DEF y
<1>9. d \in Connection /\ d.up = y /\ d.srv = c.srv /\ d.down = c.down /\ d.lock = t
  BY <1>7, <1>8 DEF Connection, Asker
<1> HIDE DEF d
<1>10. ConnectionFits("ctl", d)
  BY <1>8, <1>9 DEF ConnectionFits
<1>11. at \in {"line", "int"} /\ at \in ControlPoints
  BY DEF ControlPoints
<1>12. pc' = [pc EXCEPT ![t] = q]
  BY <1>1, <1>2
<1>13. CallFits(q, t)
  <2>1. q.op = p.op /\ q.at = at /\ q.val = p.val
    BY <1>2 DEF Call
  <2>2. at \in PointsOf(p.op)
    BY <1>3 DEF PointsOf, ControlOps, BufferOps
  <2> HIDE DEF q, at
  <2> QED
    BY <1>2, <1>3, <2>1, <2>2 DEF CallFits
<1> HIDE DEF at
<1>14. /\ q \in Call /\ q.op = p.op /\ q.at = at /\ q.val = p.val /\ q.first = p.first
       /\ q.own = p.own
  BY <1>2, <1>11 DEF Call
<1> HIDE DEF q
<1>15. pc'[t] = q /\ \A u \in Threads : u # t => pc'[u] = pc[u]
  BY <1>2, <1>12
<1>16. ControlSide(t)
  BY <1>1, <1>3, <1>5, <1>14, <1>15 DEF ControlSide
<1>17. ContextFits(ctx, pc', dev, cancelling)
  <2>1. Makes(q) <=> Makes(p)
    BY <1>14 DEF Makes
  <2>2. pc'[BufferUser].op \in BufferOps => pc[BufferUser].op \in BufferOps
    BY <1>14, <1>15, ClientAssumption
  <2> QED
    BY <1>2, <1>3, <1>15, <2>1, <2>2, ContextStays
<1>18. ASSUME "ctl" \notin broken
       PROVE  Exchange(d, q, t) /\ q.own /\ c.down = <<>>
  <2>1. Still(c) /\ p.own
    BY <1>1, <1>2, <1>3, <1>18 DEF ControlFits, OwnFits
  <2>2. <<>> \o x = x
    BY <1>6, ConcatEmptySeq
  <2>3. d.up = x /\ d.srv = NotServing /\ d.down = <<>>
    BY <1>9, <2>1, <2>2 DEF Still, y
  <2>4. Requested(q, t) = x
    BY <1>14 DEF Requested, Asked, x
  <2>5. Unasked(d, q, t)
    BY <2>3, <2>4 DEF Unasked
  <2> QED
    BY <1>11, <1>14, <2>1, <2>5 DEF Exchange, Still
<1>19. LimitsFollow'
  <2>1. \A u \in Threads : u # t => (Accepted(d, u) <=> Accepted(c, u))
    BY <1>1, <1>9, OthersWait
  <2>2. ASSUME "ctl" \notin broken, ~mixed PROVE LimitsFit(ctx, d, pc', limits)
    <3>1. LimitsFit(ctx, c, pc, limits)
      BY <1>2, <2>2 DEF LimitsFollow
    <3>2. ~Accepted(d, t) /\ ~Accepted(c, t)
      BY <1>9, <1>18, <2>2 DEF Accepted
    <3>3. \A u \in Threads : /\ Accepted(d, u) <=> Accepted(c, u)
                             /\ pc'[u].op = pc[u].op /\ pc'[u].val = pc[u].val
                             /\ pc'[u].first = pc[u].first
      BY <1>14, <1>15, <2>1, <3>2
    <3> HIDE DEF c, p
    <3> QED
      BY <3>1, <3>3 DEF LimitsFit
  <2> QED
    BY <1>1, <1>5, <2>2 DEF LimitsFollow
<1>20. /\ conns' = [j \in {"ctl", "buf"} |-> conns'[j]] /\ ConnectionFits("ctl", conns'["ctl"])
       /\ conns'["ctl"].lock = t /\ ("ctl" \notin broken => Exchange(conns'["ctl"], q, t))
       /\ breaks' \in 0 .. Breaks /\ mixed' \in BOOLEAN
       /\ ctx' \in {"none", "making", "made"} /\ (ctx' = "making" => ctx = "making")
       /\ IsLimits(limits')
       /\ ContextFits(ctx', pc', dev, cancelling)
       /\ (q.op # "none" /\ "ctl" \notin broken => q.own)
       /\ q.at \in ControlPoints
  BY <1>1, <1>2, <1>5, <1>9, <1>10, <1>11, <1>14, <1>17, <1>18
<1>21. last' \in [ret : {"none", "ok", "error", "cancelled"}, own : BOOLEAN]
  <2>1. last' = NoResult
    BY <1>1
  <2> QED
    BY <2>1 DEF NoResult
<1>22. q.op \notin BufferOps
  BY <1>3, <1>14
<1> QED
  BY <1>1, <1>12, <1>13, <1>14, <1>16, <1>19, <1>20, <1>21, <1>22, ControlSideKeeps

-----------------------------------------------------------------------------
(* The steps of the daemon. *)

LEMMA DaemonKeeps ==
  ASSUME ClientInv, NEW k \in {"ctl", "buf"}, NEW d, conns' = [conns EXCEPT ![k] = d],
         ConnectionFits(k, d), d.lock = conns[k].lock, ~Still(conns[k]),
         \A t \in Threads : pc[t].op # "none" /\ Exchange(conns[k], pc[t], t)
                              => Exchange(d, pc[t], t),
         UNCHANGED <<ctx, pc, dev, cancelling, broken, mixed, breaks>>, last' = NoResult,
         IsLimits(limits'), LimitsFollow'
  PROVE  ClientInv'
<1> DEFINE c == conns[k]
<1>1. Types /\ CallsFit /\ MakingFits /\ Exchanges /\ LockFits(pc, conns["ctl"].lock)
  BY DEF ClientInv, ClientShape
<1>2. /\ conns' = [j \in {"ctl", "buf"} |-> conns'[j]] /\ conns'[k] = d
      /\ \A j \in {"ctl", "buf"} : j # k => conns'[j] = conns[j]
  BY <1>1 DEF Types
<1>3. last' \in [ret : {"none", "ok", "error", "cancelled"}, own : BOOLEAN]
  BY DEF NoResult
<1>4. ConnectionFits("ctl", conns'["ctl"]) /\ ConnectionFits("buf", conns'["buf"])
  BY <1>1, <1>2 DEF Types
<1>5. Types'
  BY <1>1, <1>2, <1>3, <1>4 DEF Types
<1>6. conns'["ctl"].lock = conns["ctl"].lock
  BY <1>2
<1>7. ClientShape'
  BY <1>1, <1>5, <1>6 DEF ClientInv, ClientShape, CallsFit, MakingFits
<1>8. \A t \in Threads : conns["ctl"].lock = t => pc[t].op # "none"
  <2>1. ASSUME NEW t \in Threads, conns["ctl"].lock = t PROVE pc[t].op # "none"
    <3>1. pc[t].at \in ControlPoints /\ CallFits(pc[t], t)
      BY <1>1, <2>1 DEF LockFits, CallsFit
    <3> QED
      BY <3>1, IdleIs DEF CallFits
  <2> QED
    BY <2>1
<1> HIDE DEF c
<1>9. ControlFits(conns'["ctl"], pc, broken)
  <2>1. CASE k = "ctl"
    BY <1>1, <1>2, <1>8, <2>1 DEF Exchanges, ControlFits
  <2>2. CASE k # "ctl"
    BY <1>1, <1>2, <2>2 DEF Exchanges
  <2> QED
    BY <2>1, <2>2
<1>10. BufferFits(conns'["buf"], pc[BufferUser], broken)
  <2>1. CASE k = "buf"
    <3>1. pc[BufferUser].op \in BufferOps => pc[BufferUser].op # "none"
      BY DEF BufferOps
    <3>2. BufferFits(conns[k], pc[BufferUser], broken)
      BY <1>1, <2>1 DEF Exchanges
    <3> QED
      BY <1>2, <2>1, <3>1, <3>2, ClientAssumption DEF BufferFits
  <2>2. CASE k # "buf"
    BY <1>1, <1>2, <2>2 DEF Exchanges
  <2> QED
    BY <2>1, <2>2
<1>11. Exchanges'
  BY <1>1, <1>9, <1>10 DEF Exchanges
<1> QED
  BY <1>7, <1>11 DEF ClientInv

\* An answer to a command other than a timeout.
LEMMA OtherAnswered ==
  ASSUME NEW x, NEW c, NEW d, NEW f, NEW l, NEW t \in Threads, LimitsFit(x, c, f, l),
         c.lock = t, d.lock = t, f[t].op # "TIMEOUT"
  PROVE  LimitsFit(x, d, f, l)
<1>1. \A u \in Threads : f[u].op = "TIMEOUT" => ~Accepted(c, u) /\ ~Accepted(d, u)
  BY DEF Accepted
<1> QED
  BY <1>1 DEF LimitsFit

\* The answer to a timeout.
LEMMA TimeoutServed ==
  ASSUME NEW x, NEW c, NEW d, NEW f, NEW l, NEW m, NEW t \in Threads, LimitsFit(x, c, f, l),
         c.lock = t, d.lock = t, f[t].op = "TIMEOUT", c.down = <<>>, d.down # <<>>,
         NEW u, u = Head(d.down).unit,
         m.socket = l.socket,
         \/ u = Value(0) /\ m.remote = calculate_remote_timeout(f[t].val)
         \/ u # Value(0) /\ m = l
  PROVE  LimitsFit(x, d, f, m)
<1>1. \A w \in Threads : f[w].op = "TIMEOUT" => w = t
  BY DEF LimitsFit
<1>2. ~Accepted(c, t) /\ (Accepted(d, t) <=> u = Value(0))
  BY DEF Accepted
<1>3. ~f[t].first => Shared(l, l.client)
  BY <1>2 DEF LimitsFit
<1>4. /\ m.socket = f[t].val
      /\ IF Accepted(d, t) THEN Shared(m, f[t].val) ELSE ~f[t].first => Shared(m, m.client)
  BY <1>2, <1>3 DEF LimitsFit, Shared
<1> QED
  BY <1>1, <1>4 DEF LimitsFit

\* Who has the lock of a control connection on which there is something.
LEMMA ControlUsed ==
  ASSUME ClientInv, "ctl" \notin broken, ~Still(conns["ctl"])
  PROVE  \E t \in Threads : /\ conns["ctl"].lock = t /\ pc[t] \in Call /\ CallFits(pc[t], t)
                            /\ pc[t].op \in ControlOps /\ pc[t].op # "none"
                            /\ Exchange(conns["ctl"], pc[t], t)
<1> DEFINE c == conns["ctl"]
<1>1. Types /\ CallsFit /\ LockFits(pc, c.lock) /\ ControlFits(c, pc, broken)
  BY DEF ClientInv, ClientShape, Exchanges
<1>2. c.lock \in Threads
  BY <1>1 DEF Types, ConnectionFits, Connection, Asker, ControlFits
<1>3. PICK t \in Threads : c.lock = t
  BY <1>2
<1>4. Exchange(c, pc[t], t) /\ pc[t].at \in ControlPoints /\ pc[t] \in Call /\ CallFits(pc[t], t)
  BY <1>1, <1>3 DEF ControlFits, LockFits, Types, CallsFit
<1>5. pc[t].op \in ControlOps
  BY <1>4, PointsAre
<1>6. pc[t].op # "none"
  BY <1>5 DEF ControlOps
<1> QED
  BY <1>3, <1>4, <1>5, <1>6

LEMMA ServeKeeps ==
  ASSUME ClientInv, NEW k \in {"ctl", "buf"}, Serve(k) PROVE ClientInv'
<1> DEFINE c == conns[k]
           r == Head(c.up)
<1>1. /\ c.srv = NotServing /\ c.up # <<>> /\ last' = NoResult
      /\ UNCHANGED <<ctx, pc, dev, cancelling, broken, mixed, breaks>>
  BY DEF Serve
<1>2. PICK a \in Answers(r.cmd) :
       /\ conns' = [conns EXCEPT
            ![k].up = IF r.cmd = "WRITE" THEN Tail(Tail(@)) ELSE Tail(@),
            ![k].srv = Serving(r.by, r.cmd, Tail(a)),
            ![k].down = Append(@, [unit |-> Head(a), by |-> r.by])]
       /\ limits' = IF r.cmd = "TIMEOUT" /\ a = <<Value(0)>>
                    THEN [limits EXCEPT !.remote = r.val] ELSE limits
  BY DEF Serve
<1>3. /\ ConnectionFits(k, c) /\ IsLimits(limits)
      /\ conns = [j \in {"ctl", "buf"} |-> conns[j]] /\ LimitsFollow
  BY DEF ClientInv, ClientShape, Types
<1> DEFINE d == [c EXCEPT !.up = IF r.cmd = "WRITE" THEN Tail(Tail(@)) ELSE Tail(@),
                          !.srv = Serving(r.by, r.cmd, Tail(a)),
                          !.down = Append(@, [unit |-> Head(a), by |-> r.by])]
<1>4. c \in Connection
  BY <1>3 DEF ConnectionFits
<1>5. conns' = [conns EXCEPT ![k] = d]
  BY <1>2, <1>3
<1>6. /\ ConnectionFits(k, d) /\ d.lock = c.lock
      /\ d.up = IF r.cmd = "WRITE" THEN Tail(Tail(c.up)) ELSE Tail(c.up)
      /\ d.srv = Serving(r.by, r.cmd, Tail(a))
      /\ d.down = Append(c.down, [unit |-> Head(a), by |-> r.by])
      /\ k = "buf" => r.cmd \in BufferCmds
  <2>1. a \in Answers(r.cmd) /\ ConnectionFits(k, c) /\ c.up # <<>>
    BY <1>1, <1>2, <1>3
  <2> HIDE DEF c
  <2> QED
    BY <2>1, ServingFits
<1> HIDE DEF d
<1>7. d \in Connection
  BY <1>6 DEF ConnectionFits
<1>8. ASSUME NEW t \in Threads, pc[t].op # "none", Exchange(c, pc[t], t)
      PROVE  /\ Unasked(c, pc[t], t) /\ r.cmd = Asked(pc[t]) /\ Exchange(d, pc[t], t)
  <2>1. pc[t] \in Call /\ CallFits(pc[t], t)
    BY DEF ClientInv, ClientShape, Types, CallsFit
  <2> HIDE DEF c
  <2> QED
    BY <1>1, <1>2, <1>4, <1>6, <1>7, <1>8, <2>1, ServeExchange
<1>9. ~Still(c)
  BY <1>1 DEF Still
<1>10. IsLimits(limits') /\ limits'.socket = limits.socket
  BY <1>2, <1>3 DEF IsLimits
<1>11. LimitsFollow'
  <2>1. CASE k = "buf"
    <3>1. r.cmd # "TIMEOUT"
      BY <1>6, <2>1 DEF BufferCmds
    <3>2. conns'["ctl"] = conns["ctl"] /\ limits' = limits
      BY <1>2, <1>3, <1>5, <2>1, <3>1
    <3> QED
      BY <1>1, <1>3, <3>2 DEF LimitsFollow
  <2>2. CASE k = "ctl"
    <3>1. ASSUME "ctl" \notin broken, ~mixed PROVE LimitsFit(ctx, d, pc, limits')
      <4>1. LimitsFit(ctx, c, pc, limits)
        BY <1>3, <2>2, <3>1 DEF LimitsFollow
      <4>2. PICK t \in Threads : c.lock = t /\ pc[t].op # "none" /\ Exchange(c, pc[t], t)
        BY <1>9, <2>2, <3>1, ControlUsed
      <4>3. Unasked(c, pc[t], t) /\ r.cmd = Asked(pc[t])
        BY <1>8, <4>2
      <4>4. CASE pc[t].op # "TIMEOUT"
        <5>1. r.cmd # "TIMEOUT"
          BY <4>3, <4>4 DEF Asked
        <5>2. limits' = limits
          BY <1>2, <5>1
        <5> HIDE DEF c
        <5> QED
          BY <1>6, <4>1, <4>2, <4>4, <5>2, OtherAnswered
      <4>5. CASE pc[t].op = "TIMEOUT"
        <5>1. r.cmd = "TIMEOUT" /\ r.val = calculate_remote_timeout(pc[t].val) /\ c.down = <<>>
          <6>1. c.up = <<Req("TIMEOUT", t, calculate_remote_timeout(pc[t].val))>> /\ c.down = <<>>
            BY <4>3, <4>5 DEF Unasked, Requested
          <6> QED
            BY <6>1 DEF Req
        <5>2. a = Refused \/ a = Accepting
          BY <1>2, <5>1 DEF Answers, Refused, Accepting
        <5> DEFINE n == [unit |-> Head(a), by |-> r.by]
        <5>3. Head(Append(<<>>, n)) = n /\ Append(<<>>, n) # <<>>
          <6> HIDE DEF n
          <6> QED
            OBVIOUS
        <5>4. d.down # <<>> /\ Head(d.down).unit = Head(a)
          BY <1>6, <5>1, <5>3
        <5>5. \/ Head(a) = Value(0) /\ limits'.remote = calculate_remote_timeout(pc[t].val)
              \/ Head(a) # Value(0) /\ limits' = limits
          <6>1. CASE a = Accepting
            <7>1. Head(a) = Value(0) /\ a = <<Value(0)>>
              BY <6>1 DEF Accepting
            <7>2. limits' = [limits EXCEPT !.remote = r.val]
              BY <1>2, <5>1, <7>1
            <7> QED
              BY <1>3, <5>1, <7>1, <7>2 DEF IsLimits
          <6>2. CASE a = Refused
            <7>1. Head(a) = Value(-1) /\ Value(-1) # Value(0) /\ Head(a) # Value(0)
              BY <6>2 DEF Refused, Value
            <7>2. a # <<Value(0)>>
              <8>1. Head(<<Value(0)>>) = Value(0)
                OBVIOUS
              <8> QED
                BY <7>1, <8>1
            <7> QED
              BY <1>2, <7>1, <7>2
          <6> QED
            BY <5>2, <6>1, <6>2
        <5> HIDE DEF c
        <5> QED
          BY <1>6, <1>10, <4>1, <4>2, <4>5, <5>1, <5>4, <5>5, TimeoutServed
      <4> QED
        BY <4>4, <4>5
    <3>2. conns'["ctl"] = d
      BY <1>3, <1>5, <2>2
    <3> QED
      BY <1>1, <3>1, <3>2 DEF LimitsFollow
  <2> QED
    BY <2>1, <2>2
<1> QED
  BY <1>1, <1>5, <1>6, <1>8, <1>9, <1>10, <1>11, DaemonKeeps

LEMMA ReplyKeeps ==
  ASSUME ClientInv, NEW k \in {"ctl", "buf"}, Reply(k) PROVE ClientInv'
<1> DEFINE c == conns[k]
           d == [c EXCEPT !.up = IF c.srv.cmd = "WRITEBUF" THEN Tail(@) ELSE @,
                          !.srv = Serving(@.by, @.cmd, Tail(@.rest)),
                          !.down = Append(@, [unit |-> Head(c.srv.rest), by |-> c.srv.by])]
<1>1. /\ c.srv.rest # <<>> /\ (c.srv.cmd = "WRITEBUF" => c.up # <<>>) /\ last' = NoResult
      /\ UNCHANGED <<ctx, pc, dev, cancelling, limits, broken, mixed, breaks>>
  BY DEF Reply
<1>2. conns' = [conns EXCEPT
       ![k].up = IF c.srv.cmd = "WRITEBUF" THEN Tail(@) ELSE @,
       ![k].srv = Serving(@.by, @.cmd, Tail(@.rest)),
       ![k].down = Append(@, [unit |-> Head(c.srv.rest), by |-> c.srv.by])]
  BY DEF Reply
<1>3. /\ ConnectionFits(k, c) /\ IsLimits(limits)
      /\ conns = [j \in {"ctl", "buf"} |-> conns[j]] /\ LimitsFollow
  BY DEF ClientInv, ClientShape, Types
<1>4. c \in Connection
  BY <1>3 DEF ConnectionFits
<1>5. conns' = [conns EXCEPT ![k] = d]
  BY <1>2, <1>3
<1>6. /\ ConnectionFits(k, d) /\ d.lock = c.lock
      /\ d.up = IF c.srv.cmd = "WRITEBUF" THEN Tail(c.up) ELSE c.up
      /\ d.srv = Serving(c.srv.by, c.srv.cmd, Tail(c.srv.rest))
      /\ d.down = Append(c.down, [unit |-> Head(c.srv.rest), by |-> c.srv.by])
  BY <1>1, <1>3, ReplyingFits
<1> HIDE DEF d
<1>7. d \in Connection
  BY <1>6 DEF ConnectionFits
<1>8. ASSUME NEW t \in Threads, pc[t].op # "none", Exchange(c, pc[t], t)
      PROVE  Exchange(d, pc[t], t) /\ \E a \in Answers(Asked(pc[t])) : Len(a) > 1
  <2>1. pc[t] \in Call /\ CallFits(pc[t], t)
    BY DEF ClientInv, ClientShape, Types, CallsFit
  <2> HIDE DEF c
  <2> QED
    BY <1>1, <1>4, <1>6, <1>7, <1>8, <2>1, ReplyExchange
<1>9. ~Still(c)
  BY <1>1 DEF Still, NotServing
<1>10. IsLimits(limits')
  BY <1>1, <1>3
<1>11. LimitsFollow'
  <2>1. CASE k = "buf"
    <3>1. conns'["ctl"] = conns["ctl"]
      BY <1>3, <1>5, <2>1
    <3> QED
      BY <1>1, <1>3, <3>1 DEF LimitsFollow
  <2>2. CASE k = "ctl"
    <3>1. ASSUME "ctl" \notin broken, ~mixed PROVE LimitsFit(ctx, d, pc, limits)
      <4>1. LimitsFit(ctx, c, pc, limits)
        BY <1>3, <2>2, <3>1 DEF LimitsFollow
      <4>2. PICK t \in Threads : c.lock = t /\ pc[t].op # "none" /\ Exchange(c, pc[t], t)
        BY <1>9, <2>2, <3>1, ControlUsed
      <4>3. PICK a \in Answers(Asked(pc[t])) : Len(a) > 1
        BY <1>8, <4>2
      <4>4. pc[t].op # "TIMEOUT"
        <5>1. ASSUME pc[t].op = "TIMEOUT" PROVE FALSE
          <6>1. a = Refused \/ a = Accepting
            BY <5>1 DEF Asked, Answers, Refused, Accepting
          <6>2. Len(a) = 1
            BY <6>1 DEF Refused, Accepting
          <6> QED
            BY <4>3, <6>2
        <5> QED
          BY <5>1
      <4> HIDE DEF c
      <4> QED
        BY <1>6, <4>1, <4>2, <4>4, OtherAnswered
    <3>2. conns'["ctl"] = d
      BY <1>3, <1>5, <2>2
    <3> QED
      BY <1>1, <3>1, <3>2 DEF LimitsFollow
  <2> QED
    BY <2>1, <2>2
<1> QED
  BY <1>1, <1>5, <1>6, <1>8, <1>9, <1>10, <1>11, DaemonKeeps

\* What follows a command that is not carried out keeps its length and its commands.
LEMMA LeftOverIs ==
  ASSUME NEW s \in Seq(Request)
  PROVE  /\ LeftOver(s) \in Seq(Request) /\ Len(LeftOver(s)) = Len(s)
         /\ \A n \in 1 .. Len(s) : LeftOver(s)[n].cmd = s[n].cmd
<1> DEFINE x == [i \in 1 .. Len(s) |-> IF i = 1 /\ s[i].cmd = "DATA"
                                      THEN [s[i] EXCEPT !.by = NoThread] ELSE s[i]]
<1>1. Len(s) \in Nat /\ \A i \in 1 .. Len(s) : s[i] \in Request
  BY ElementOfSeq
<1>2. \A i \in 1 .. Len(s) : x[i] \in Request /\ x[i].cmd = s[i].cmd
  BY <1>1 DEF Request, Asker
<1>3. x \in [1 .. Len(s) -> Request]
  BY <1>2
<1>4. x \in Seq(Request) /\ Len(x) = Len(s)
  BY <1>1, <1>3, SeqDef, LenProperties
<1>5. LeftOver(s) = x
  BY DEF LeftOver
<1> QED
  BY <1>2, <1>4, <1>5

\* The requests behind the first m.
LEMMA OneBehind ==
  ASSUME NEW q \in Seq(Request), Len(q) >= 1
  PROVE  /\ Tail(q) \in Seq(Request) /\ Len(q) \in Nat /\ Len(Tail(q)) = Len(q) - 1
         /\ \A n \in 1 .. Len(Tail(q)) : Tail(q)[n] = q[n + 1]
<1>1. Len(q) \in Nat
  BY LenProperties
<1>2. q # <<>>
  BY <1>1, EmptySeq
<1> QED
  BY <1>1, <1>2, HeadTailProperties

LEMMA TwoBehind ==
  ASSUME NEW q \in Seq(Request), Len(q) >= 2, NEW s, s = Tail(Tail(q))
  PROVE  /\ s \in Seq(Request) /\ Len(q) \in Nat /\ Len(s) = Len(q) - 2
         /\ \A n \in 1 .. Len(s) : s[n] = q[n + 2]
<1>1. Len(q) \in Nat
  BY LenProperties
<1>2. Len(q) >= 1
  BY <1>1
<1>3. PICK w : w = Tail(q)
  OBVIOUS
<1>4. /\ w \in Seq(Request) /\ Len(w) = Len(q) - 1
      /\ \A n \in 1 .. Len(w) : w[n] = q[n + 1]
  BY <1>2, <1>3, OneBehind
<1>5. Len(w) >= 1
  BY <1>1, <1>4
<1>6. /\ s \in Seq(Request) /\ Len(s) = Len(w) - 1
      /\ \A n \in 1 .. Len(s) : s[n] = w[n + 1]
  BY <1>3, <1>4, <1>5, OneBehind
<1>7. ASSUME NEW n \in 1 .. Len(s) PROVE s[n] = q[n + 2]
  <2>1. n \in Int /\ n >= 1 /\ n <= Len(s)
    BY <1>6
  <2>2. Len(w) \in Int /\ Len(s) \in Int
    BY <1>1, <1>4, <1>6
  <2>3. n + 1 \in 1 .. Len(w)
    BY <1>6, <2>1, <2>2
  <2>4. s[n] = w[n + 1] /\ w[n + 1] = q[(n + 1) + 1]
    BY <1>4, <1>6, <2>3
  <2>5. (n + 1) + 1 = n + 2
    BY <2>1
  <2> QED
    BY <2>4, <2>5
<1>8. Len(s) = Len(q) - 2
  BY <1>1, <1>4, <1>6
<1> QED
  BY <1>1, <1>6, <1>7, <1>8

\* What is left of the requests when the first or the first two are read.
Behind(s, q) ==
  \/ Len(q) >= 1 /\ s = Tail(q)
  \/ Len(q) >= 2 /\ s = Tail(Tail(q))

\* The daemon refuses b what it has read, and reads nothing behind it.
Dropping(c, s, b) ==
  [c EXCEPT !.up = LeftOver(s), !.down = Append(c.down, [unit |-> Value(-1), by |-> b])]

LEMMA DroppingFits ==
  ASSUME NEW k \in {"ctl", "buf"}, NEW c, ConnectionFits(k, c), NEW b \in Asker,
         NEW s, Behind(s, c.up)
  PROVE  ConnectionFits(k, Dropping(c, s, b)) /\ Dropping(c, s, b).lock = c.lock
<1> DEFINE up == c.up
           x == LeftOver(s)
           z == Append(c.down, [unit |-> Value(-1), by |-> b])
           d == [c EXCEPT !.up = x, !.down = z]
<1>1. c \in Connection /\ up \in Seq(Request) /\ c.down \in Seq(Arrival) /\ Len(up) \in Nat
  BY DEF ConnectionFits, Connection
<1>2. PICK m \in {1, 2} : /\ s \in Seq(Request) /\ Len(s) = Len(up) - m
                          /\ \A n \in 1 .. Len(s) : s[n] = up[n + m]
  <2> HIDE DEF up
  <2>1. up = c.up
    BY DEF up
  <2>2. CASE Len(up) >= 1 /\ s = Tail(up)
    BY <1>1, <2>2, OneBehind
  <2>3. CASE Len(up) >= 2 /\ s = Tail(Tail(up))
    BY <1>1, <2>3, TwoBehind
  <2> QED
    BY <2>1, <2>2, <2>3 DEF Behind
<1>3. /\ x \in Seq(Request) /\ Len(x) = Len(up) - m
      /\ \A n \in 1 .. Len(x) : x[n].cmd = up[n + m].cmd
  <2> HIDE DEF x, up
  <2>1. /\ x \in Seq(Request) /\ Len(x) = Len(s)
        /\ \A n \in 1 .. Len(s) : x[n].cmd = s[n].cmd
    BY <1>2, LeftOverIs DEF x
  <2> QED
    BY <1>2, <2>1
<1>4. z \in Seq(Arrival)
  <2>1. [unit |-> Value(-1), by |-> b] \in Arrival
    BY Units DEF Arrival
  <2> QED
    BY <1>1, <2>1, AppendProperties
<1> HIDE DEF x, z
<1>5. d.up = x /\ d.lock = c.lock /\ d \in Connection
  BY <1>1, <1>3, <1>4 DEF Connection
<1> HIDE DEF d
<1>6. ASSUME NEW n \in 1 .. Len(x)
      PROVE  /\ x[n].cmd = "WRITE" => n < Len(x)
             /\ k = "buf" => x[n].cmd \in BufferCmds
  <2> HIDE DEF up
  <2>0. Len(up) \in Int /\ Len(x) \in Int /\ m \in Int /\ m >= 1 /\ n \in Int
    BY <1>1, <1>3
  <2>1. n + m \in 1 .. Len(up) /\ x[n].cmd = up[n + m].cmd
    BY <1>3, <2>0
  <2>2. up[n + m].cmd = "WRITE" => n + m < Len(up)
    BY <2>1 DEF ConnectionFits, up
  <2>3. n + m < Len(up) => n < Len(x)
    BY <1>1, <1>3
  <2>4. k = "buf" => up[n + m].cmd \in BufferCmds
    BY <2>1 DEF ConnectionFits, up
  <2> QED
    BY <2>1, <2>2, <2>3, <2>4
<1>7. ConnectionFits(k, d)
  BY <1>5, <1>6 DEF ConnectionFits
<1>8. Dropping(c, s, b) = d
  BY DEF d, x, z, Dropping
<1> QED
  BY <1>5, <1>7, <1>8

\* A connection gets out of step, with no context in the making on it.
LEMMA DisorderKeeps ==
  ASSUME ClientInv, NEW k \in {"ctl", "buf"}, NEW d, conns' = [conns EXCEPT ![k] = d],
         ConnectionFits(k, d), d.lock = conns[k].lock, k = "ctl" => ctx # "making",
         broken' = broken \cup {k}, breaks' \in 0 .. Breaks, last' = NoResult,
         UNCHANGED <<ctx, pc, dev, cancelling, limits, mixed>>
  PROVE  ClientInv'
<1>1. Types /\ CallsFit /\ MakingFits /\ Exchanges /\ LockFits(pc, conns["ctl"].lock)
  BY DEF ClientInv, ClientShape
<1>2. /\ conns' = [j \in {"ctl", "buf"} |-> conns'[j]] /\ conns'[k] = d
      /\ \A j \in {"ctl", "buf"} : j # k => conns'[j] = conns[j]
  BY <1>1 DEF Types
<1>3. last' \in [ret : {"none", "ok", "error", "cancelled"}, own : BOOLEAN]
  BY DEF NoResult
<1>4. ConnectionFits("ctl", conns'["ctl"]) /\ ConnectionFits("buf", conns'["buf"])
  BY <1>1, <1>2 DEF Types
<1>5. Types'
  BY <1>1, <1>2, <1>3, <1>4 DEF Types
<1>6. conns'["ctl"].lock = conns["ctl"].lock
  BY <1>2
<1>7. MakingFits'
  BY <1>1 DEF MakingFits
<1>8. ClientShape'
  BY <1>1, <1>5, <1>6, <1>7 DEF ClientInv, ClientShape, CallsFit
<1>9. ControlFits(conns'["ctl"], pc, broken')
  BY <1>1, <1>2 DEF Exchanges, ControlFits
<1>10. BufferFits(conns'["buf"], pc[BufferUser], broken')
  BY <1>1, <1>2 DEF Exchanges, BufferFits
<1>11. Exchanges'
  BY <1>1, <1>9, <1>10 DEF Exchanges, OwnFits
<1>12. LimitsFollow'
  <2>1. CASE k = "ctl"
    BY <2>1 DEF LimitsFollow
  <2>2. CASE k = "buf"
    BY <1>2, <2>2 DEF ClientInv, LimitsFollow
  <2> QED
    BY <2>1, <2>2
<1> QED
  BY <1>8, <1>11, <1>12 DEF ClientInv

\* While a context is made its connection carries commands without values, one at a time.
LEMMA MakingAsks ==
  ASSUME ClientInv, ctx = "making", conns["ctl"].up # <<>>
  PROVE  Len(conns["ctl"].up) = 1 /\ Head(conns["ctl"].up).cmd \notin {"WRITE", "DATA"}
<1> DEFINE c == conns["ctl"]
<1>1. "ctl" \notin broken /\ ContextFits("making", pc, dev, cancelling) /\ ~Still(c)
  BY DEF ClientInv, ClientShape, MakingFits, Still
<1>2. PICK t \in Threads : /\ c.lock = t /\ pc[t] \in Call /\ CallFits(pc[t], t)
                           /\ pc[t].op \in ControlOps /\ pc[t].op # "none"
                           /\ Exchange(c, pc[t], t)
  BY <1>1, ControlUsed
<1>3. pc[t].op \in {"PRINT", "TIMEOUT"} /\ pc[t].at # "result"
  BY <1>1, <1>2, IdleIs DEF ContextFits, Makes, CallFits, PointsOf
<1>4. Unasked(c, pc[t], t)
  <2>1. \A a, i, j : ~Answered(c, pc[t], t, a, i, j)
    BY <1>3 DEF Answered, DataUp
  <2> QED
    BY <1>2, <2>1 DEF Exchange
<1> DEFINE r == c.up[1]
<1>5. PICK w : c.up = <<w>> /\ w.cmd \in {"ZPRINT", "PRINT", "TIMEOUT"}
  <2>1. CASE pc[t].op = "TIMEOUT"
    BY <1>4, <2>1 DEF Unasked, Requested, Req
  <2>2. CASE pc[t].op = "PRINT"
    BY <1>4, <2>2 DEF Unasked, Requested, Req, Asked
  <2> QED
    BY <1>3, <2>1, <2>2
<1> QED
  BY <1>5

LEMMA RefuseKeeps ==
  ASSUME ClientInv, NEW k \in {"ctl", "buf"}, Refuse(k) \/ Misread(k) PROVE ClientInv'
<1> DEFINE c == conns[k]
<1>1. /\ ConnectionFits(k, c) /\ conns = [j \in {"ctl", "buf"} |-> conns[j]]
      /\ breaks \in 0 .. Breaks /\ Breaks \in Nat
  BY ClientAssumption DEF ClientInv, ClientShape, Types
<1>2. c \in Connection /\ c.up \in Seq(Request) /\ Len(c.up) \in Nat
  BY <1>1 DEF ConnectionFits, Connection
<1>3. PICK b, s :
        /\ b \in Asker /\ Behind(s, c.up)
        /\ conns' = [conns EXCEPT ![k].up = LeftOver(s),
                                 ![k].down = Append(@, [unit |-> Value(-1), by |-> b])]
        /\ c.up # <<>> /\ (Head(c.up).cmd = "WRITE" \/ Head(c.up).cmd = "DATA")
        /\ breaks' \in 0 .. Breaks
  <2>1. CASE Refuse(k)
    <3>1. /\ c.up # <<>> /\ Head(c.up).cmd = "WRITE" /\ breaks < Breaks
          /\ breaks' = breaks + 1
          /\ conns' = [conns EXCEPT
               ![k].up = LeftOver(Tail(@)),
               ![k].down = Append(@, [unit |-> Value(-1), by |-> Head(c.up).by])]
      BY <2>1 DEF Refuse
    <3>2. Len(c.up) >= 1 /\ Head(c.up).by \in Asker
      <4> HIDE DEF c
      <4>1. Len(c.up) >= 1
        BY <1>2, <3>1, EmptySeq
      <4>2. Head(c.up) \in Request
        BY <1>2, <3>1, HeadTailProperties
      <4> QED
        BY <4>1, <4>2 DEF Request
    <3>3. breaks' \in 0 .. Breaks
      BY <1>1, <3>1
    <3>4. conns' = [conns EXCEPT
               ![k].up = LeftOver(Tail(c.up)),
               ![k].down = Append(@, [unit |-> Value(-1), by |-> Head(c.up).by])]
      BY <1>1, <3>1
    <3>5. Behind(Tail(c.up), c.up)
      BY <3>2 DEF Behind
    <3> HIDE DEF c
    <3> QED
      BY <3>1, <3>2, <3>3, <3>4, <3>5
  <2>2. CASE Misread(k)
    <3>1. /\ Len(c.up) > 1 /\ Head(c.up).cmd = "DATA" /\ breaks' = breaks
          /\ conns' = [conns EXCEPT
               ![k].up = LeftOver(Tail(Tail(@))),
               ![k].down = Append(@, [unit |-> Value(-1), by |-> c.up[2].by])]
      BY <2>2 DEF Misread
    <3>2. Len(c.up) >= 2 /\ c.up[2].by \in Asker /\ c.up # <<>>
      <4> HIDE DEF c
      <4>1. Len(c.up) >= 2 /\ c.up # <<>>
        BY <1>2, <3>1, EmptySeq
      <4>2. 2 \in 1 .. Len(c.up)
        BY <1>2, <4>1
      <4>3. c.up[2] \in Request
        BY <1>2, <4>2, ElementOfSeq
      <4> QED
        BY <4>1, <4>3 DEF Request
    <3>3. conns' = [conns EXCEPT
               ![k].up = LeftOver(Tail(Tail(c.up))),
               ![k].down = Append(@, [unit |-> Value(-1), by |-> c.up[2].by])]
      BY <1>1, <3>1
    <3>4. PICK s : s = Tail(Tail(c.up))
      OBVIOUS
    <3>5. PICK b \in Asker : b = c.up[2].by
      BY <3>2
    <3>6. Behind(s, c.up)
      BY <3>2, <3>4 DEF Behind
    <3>7. conns' = [conns EXCEPT ![k].up = LeftOver(s),
                                 ![k].down = Append(@, [unit |-> Value(-1), by |-> b])]
      BY <3>3, <3>4, <3>5
    <3>8. breaks' \in 0 .. Breaks /\ Head(c.up).cmd = "DATA"
      BY <1>1, <3>1
    <3> HIDE DEF c
    <3> QED
      BY <3>2, <3>6, <3>7, <3>8
  <2> QED
    BY <2>1, <2>2
<1> DEFINE d == Dropping(c, s, b)
<1>4. conns' = [conns EXCEPT ![k] = d]
  BY <1>1, <1>3 DEF Dropping
<1>5. ConnectionFits(k, d) /\ d.lock = c.lock
  <2> HIDE DEF c
  <2>1. ConnectionFits(k, c) /\ b \in Asker /\ Behind(s, c.up)
    BY <1>1, <1>3
  <2> QED
    BY <2>1, DroppingFits
<1>6. k = "ctl" => ctx # "making"
  BY <1>3, MakingAsks
<1>7. /\ broken' = broken \cup {k} /\ last' = NoResult
      /\ UNCHANGED <<ctx, pc, dev, cancelling, limits, mixed>>
  BY DEF Refuse, Misread
<1> HIDE DEF d
<1> QED
  BY <1>3, <1>4, <1>5, <1>6, <1>7, DisorderKeeps

LEMMA OtherClientKeeps ==
  ASSUME ClientInv, OtherClient PROVE ClientInv'
<1>1. /\ limits' = [limits EXCEPT !.remote = OthersTimeout] /\ last' = NoResult
      /\ UNCHANGED <<ctx, conns, pc, dev, cancelling, broken, mixed, breaks>>
  BY DEF OtherClient
<1>2. Types /\ IsLimits(limits) /\ LimitsFollow
  BY DEF ClientInv, ClientShape, Types
<1>3. /\ IsLimits(limits') /\ limits'.socket = limits.socket /\ limits'.client = limits.client
      /\ limits'.refused = limits.refused /\ limits'.remote = OthersTimeout
  BY <1>1, <1>2 DEF IsLimits
<1>4. \A v : Shared(limits', v)
  BY <1>3 DEF Shared
<1>5. LimitsFollow'
  <2>1. ASSUME LimitsFit(ctx, conns["ctl"], pc, limits)
        PROVE  LimitsFit(ctx, conns["ctl"], pc, limits')
    BY <1>3, <1>4, <2>1 DEF LimitsFit
  <2> QED
    BY <1>1, <1>2, <2>1 DEF LimitsFollow
<1>6. last' \in [ret : {"none", "ok", "error", "cancelled"}, own : BOOLEAN]
  BY <1>1 DEF NoResult
<1>7. Types'
  BY <1>1, <1>2, <1>3, <1>6 DEF Types
<1>8. ClientShape' /\ Exchanges'
  BY <1>1, <1>7 DEF ClientInv, ClientShape, CallsFit, MakingFits, Exchanges
<1> QED
  BY <1>5, <1>8 DEF ClientInv

-----------------------------------------------------------------------------
(* The life of the context, cancelling, and timeouts. *)

LEMMA InitialFits ==
  Init => ClientInv
<1> SUFFICES ASSUME Init PROVE ClientInv
  OBVIOUS
<1>1. /\ ctx = "none" /\ conns = [k \in {"ctl", "buf"} |-> Fresh] /\ last = NoResult
      /\ pc = [t \in Threads |-> Idle] /\ dev = Closed /\ cancelling = FALSE
      /\ limits = NoLimits
      /\ broken = {} /\ mixed = FALSE /\ breaks = 0
  BY DEF Init
<1>2. conns["ctl"] = Fresh /\ conns["buf"] = Fresh /\ \A t \in Threads : pc[t] = Idle
  BY <1>1
<1>3. pc \in [Threads -> Call] /\ CallsFit
  BY <1>1, <1>2, IdleIs DEF CallsFit
<1>4. last \in [ret : {"none", "ok", "error", "cancelled"}, own : BOOLEAN]
  BY <1>1 DEF NoResult
<1>5. Types
  <2>1. 0 \in 0 .. Breaks
    BY ClientAssumption
  <2>2. conns = [k \in {"ctl", "buf"} |-> conns[k]]
    BY <1>1
  <2>3. IsLimits(limits)
    BY <1>1 DEF IsLimits, NoLimits
  <2>4. ConnectionFits("ctl", conns["ctl"]) /\ ConnectionFits("buf", conns["buf"])
    BY <1>2, FreshFits
  <2> QED
    BY <1>1, <1>3, <1>4, <2>1, <2>2, <2>3, <2>4, ClosedIs DEF Types
<1>6. LockFits(pc, conns["ctl"].lock)
  BY <1>2, IdleIs, FreshFits, ClientAssumption DEF LockFits
<1>7. ContextFits(ctx, pc, dev, cancelling)
  <2>1. Idle.op \notin BufferOps
    BY IdleIs DEF BufferOps
  <2> QED
    BY <1>1, <1>2, <2>1, IdleIs, ClosedIs, ClientAssumption DEF ContextFits
<1>8. Exchanges
  <2>1. ControlFits(conns["ctl"], pc, broken)
    BY <1>2, FreshFits, ClientAssumption DEF ControlFits
  <2>2. BufferFits(conns["buf"], pc[BufferUser], broken)
    BY <1>2, FreshFits, IdleIs, ClientAssumption DEF BufferFits, BufferOps
  <2>3. OwnFits(pc, broken)
    BY <1>2, IdleIs DEF OwnFits
  <2> QED
    BY <2>1, <2>2, <2>3 DEF Exchanges
<1>9. LimitsFollow
  BY <1>1, <1>2, IdleIs DEF LimitsFollow, LimitsFit
<1> QED
  BY <1>1, <1>3, <1>5, <1>6, <1>7, <1>8, <1>9 DEF ClientInv, ClientShape, MakingFits

LEMMA CreateContextKeeps ==
  ASSUME ClientInv, NEW t \in Threads, CreateContext(t) PROVE ClientInv'
<1> DEFINE q == [Idle EXCEPT !.op = "PRINT", !.at = "lock", !.first = TRUE]
<1>1. /\ ctx = "none" /\ ctx' = "making" /\ conns' = [k \in {"ctl", "buf"} |-> Fresh]
      /\ limits' = NoLimits
      /\ pc' = [pc EXCEPT ![t] = q] /\ last' = NoResult /\ broken' = {} /\ mixed' = FALSE
      /\ UNCHANGED <<dev, cancelling, breaks>>
  BY DEF CreateContext
<1>2. /\ Types /\ CallsFit /\ ContextFits("none", pc, dev, cancelling) /\ dev \in Device
      /\ pc \in [Threads -> Call] /\ breaks \in 0 .. Breaks /\ cancelling \in BOOLEAN
  BY <1>1 DEF ClientInv, ClientShape, Types
<1>3. \A u \in Threads : pc[u] = Idle
  BY <1>2 DEF ContextFits
<1>4. /\ q.op = "PRINT" /\ q.at = "lock" /\ q.first = TRUE /\ q.own
  BY DEF Idle
<1>5. q \in Call
  <2>1. "PRINT" \in ControlOps /\ "lock" \in {"idle", "lock"} /\ TRUE \in BOOLEAN /\ Idle \in Call
    BY IdleIs DEF ControlOps
  <2> HIDE DEF ControlOps
  <2> QED
    BY <2>1 DEF Call
<1> HIDE DEF q
<1>6. CallFits(q, t) /\ q.at \notin ControlPoints /\ q.op \notin BufferOps /\ Makes(q)
  BY <1>4 DEF CallFits, PointsOf, ControlPoints, BufferOps, Makes
<1>7. /\ pc' \in [Threads -> Call] /\ pc'[t] = q
      /\ \A u \in Threads : u # t => pc'[u] = Idle
      /\ \A u \in Threads : CallFits(pc'[u], u)
  BY <1>1, <1>2, <1>3, <1>5, <1>6, IdleIs
<1>8. conns'["ctl"] = Fresh /\ conns'["buf"] = Fresh
  BY <1>1
<1>9. last' \in [ret : {"none", "ok", "error", "cancelled"}, own : BOOLEAN]
  BY <1>1 DEF NoResult
<1>10. Types'
  BY <1>1, <1>2, <1>7, <1>8, <1>9, FreshFits DEF Types, IsLimits, NoLimits
<1>11. LockFits(pc', conns'["ctl"].lock)
  BY <1>6, <1>7, <1>8, IdleIs, FreshFits, ClientAssumption DEF LockFits
<1>12. Idle.op \notin BufferOps
  BY IdleIs DEF BufferOps
<1>13. ContextFits("making", pc', dev, cancelling)
  <2>1. ~dev.open /\ ~cancelling /\ ~dev.ready /\ ~dev.event
    BY <1>2 DEF ContextFits
  <2>2. pc'[BufferUser].op \notin BufferOps
    BY <1>6, <1>7, <1>12, ClientAssumption
  <2>3. \E w \in Threads : Makes(pc'[w]) /\ \A u \in Threads \ {w} : pc'[u] = Idle
    BY <1>6, <1>7
  <2> QED
    BY <2>1, <2>2, <2>3 DEF ContextFits
<1>14. Exchanges'
  <2>1. ControlFits(conns'["ctl"], pc', broken')
    BY <1>8, FreshFits, ClientAssumption DEF ControlFits
  <2>2. BufferFits(conns'["buf"], pc'[BufferUser], broken')
    BY <1>6, <1>7, <1>8, <1>12, FreshFits, ClientAssumption DEF BufferFits
  <2>3. OwnFits(pc', broken')
    BY <1>4, <1>7, IdleIs DEF OwnFits
  <2> QED
    BY <2>1, <2>2, <2>3 DEF Exchanges
<1>15. LimitsFollow'
  <2>1. \A u \in Threads : pc'[u].op # "TIMEOUT"
    BY <1>4, <1>7, IdleIs
  <2> QED
    BY <1>1, <2>1 DEF LimitsFollow, LimitsFit, NoLimits
<1>16. ContextFits(ctx, pc, dev, cancelling)'
  BY <1>1, <1>13
<1> QED
  BY <1>1, <1>7, <1>10, <1>11, <1>14, <1>15, <1>16
  DEF ClientInv, ClientShape, MakingFits, CallsFit

LEMMA ShutdownKeeps ==
  ASSUME ClientInv, Shutdown PROVE ClientInv'
<1>1. /\ ~dev.open /\ ~cancelling /\ (\A t \in Threads : pc[t] = Idle)
      /\ ctx' = "none" /\ conns' = [k \in {"ctl", "buf"} |-> Fresh] /\ last' = NoResult
      /\ UNCHANGED <<pc, dev, cancelling, limits, broken, mixed, breaks>>
  BY DEF Shutdown
<1>2. Types /\ CallsFit /\ ContextFits(ctx, pc, dev, cancelling)
  BY DEF ClientInv, ClientShape
<1>3. conns'["ctl"] = Fresh /\ conns'["buf"] = Fresh
  BY <1>1
<1>4. last' \in [ret : {"none", "ok", "error", "cancelled"}, own : BOOLEAN]
  BY <1>1 DEF NoResult
<1>5. Types'
  BY <1>1, <1>2, <1>3, <1>4, FreshFits DEF Types
<1>6. LockFits(pc', conns'["ctl"].lock)
  BY <1>1, <1>3, IdleIs, FreshFits, ClientAssumption DEF LockFits
<1>7. Idle.op \notin BufferOps
  BY IdleIs DEF BufferOps
<1>8. ContextFits("none", pc, dev, cancelling)
  <2>1. \A u \in Threads : ~Makes(pc[u])
    BY <1>1, IdleIs
  <2>2. ~(dev.ready \/ dev.event \/ pc[BufferUser].op \in BufferOps)
    BY <1>1, <1>2 DEF ContextFits
  <2> QED
    BY <1>1, <2>1, <2>2 DEF ContextFits
<1>9. Exchanges'
  <2>1. ControlFits(conns'["ctl"], pc', broken')
    BY <1>3, FreshFits, ClientAssumption DEF ControlFits
  <2>2. BufferFits(conns'["buf"], pc'[BufferUser], broken')
    BY <1>1, <1>3, <1>7, FreshFits, ClientAssumption DEF BufferFits
  <2>3. OwnFits(pc', broken')
    BY <1>1, IdleIs DEF OwnFits
  <2> QED
    BY <2>1, <2>2, <2>3 DEF Exchanges
<1>10. LimitsFollow'
  <2>1. \A u \in Threads : pc'[u].op # "TIMEOUT"
    BY <1>1, IdleIs
  <2> QED
    BY <1>1, <2>1 DEF LimitsFollow, LimitsFit
<1>11. ContextFits(ctx, pc, dev, cancelling)'
  BY <1>1, <1>8
<1> QED
  BY <1>1, <1>2, <1>5, <1>6, <1>9, <1>10, <1>11
  DEF ClientInv, ClientShape, MakingFits, CallsFit

\* Nothing but the device, and the note about it, changes.
LEMMA DeviceKeeps ==
  ASSUME ClientInv, UNCHANGED <<ctx, conns, pc, limits, broken, mixed, breaks>>,
         last' = NoResult, dev' \in Device, cancelling' \in BOOLEAN, dev'.open <=> dev.open,
         dev'.ready \/ dev'.event => dev.open, cancelling' => ctx = "made"
  PROVE  ClientInv'
<1>1. last' \in [ret : {"none", "ok", "error", "cancelled"}, own : BOOLEAN]
  BY DEF NoResult
<1>2. Types'
  BY <1>1 DEF ClientInv, ClientShape, Types
<1>3. ContextFits(ctx, pc, dev', cancelling')
  BY DEF ClientInv, ClientShape, ContextFits
<1>4. ContextFits(ctx, pc, dev, cancelling)'
  BY <1>3
<1>5. Exchanges' /\ LimitsFollow'
  BY DEF ClientInv, Exchanges, LimitsFollow
<1> QED
  BY <1>2, <1>4, <1>5 DEF ClientInv, ClientShape, MakingFits, CallsFit

LEMMA CancelKeeps ==
  ASSUME ClientInv, Cancel \/ NoteCancel PROVE ClientInv'
<1>1. dev \in Device /\ ContextFits(ctx, pc, dev, cancelling)
  BY DEF ClientInv, ClientShape, Types
<1>2. CASE Cancel
  <2>1. /\ dev.ready /\ dev' = [dev EXCEPT !.event = TRUE] /\ cancelling' = TRUE
        /\ last' = NoResult /\ UNCHANGED <<ctx, conns, pc, limits, broken, mixed, breaks>>
    BY <1>2 DEF Cancel, BufferExists
  <2>2. dev.open /\ ctx = "made"
    BY <1>1, <2>1 DEF ContextFits
  <2>3. dev' \in Device /\ dev'.open = dev.open
    BY <1>1, <2>1 DEF Device
  <2> QED
    BY <2>1, <2>2, <2>3, DeviceKeeps
<1>3. CASE NoteCancel
  <2>1. /\ dev' = (IF dev.open THEN [dev EXCEPT !.cancelled = TRUE] ELSE dev)
        /\ cancelling' = FALSE /\ last' = NoResult
        /\ UNCHANGED <<ctx, conns, pc, limits, broken, mixed, breaks>>
    BY <1>3 DEF NoteCancel
  <2>2. /\ dev' \in Device /\ dev'.open = dev.open /\ dev'.ready = dev.ready
        /\ dev'.event = dev.event
    BY <1>1, <2>1 DEF Device
  <2>3. dev.ready \/ dev.event => dev.open
    BY <1>1 DEF ContextFits
  <2> QED
    BY <2>1, <2>2, <2>3, DeviceKeeps
<1> QED
  BY <1>2, <1>3

\* A call on the control connection gives up: whose lock it was does not matter any more.
LEMMA ControlGivesUp ==
  ASSUME ClientInv, NEW t \in Threads, pc[t].at \in ControlPoints, pc[t].op # "PRINT",
         pc' = [pc EXCEPT ![t] = Idle], conns' = [conns EXCEPT !["ctl"] = Orphaned(@, t)],
         last' \in [ret : {"none", "ok", "error", "cancelled"}, own : BOOLEAN],
         broken' = broken \cup {"ctl"}, ctx' = IF Creating(t) THEN "made" ELSE ctx,
         breaks' \in 0 .. Breaks, UNCHANGED <<dev, cancelling, limits, mixed>>
  PROVE  ClientInv'
<1> DEFINE c == conns["ctl"]
           d == Orphaned(c, t)
<1>1. /\ Types /\ CallsFit /\ MakingFits /\ Exchanges /\ LockFits(pc, c.lock)
      /\ ContextFits(ctx, pc, dev, cancelling) /\ pc \in [Threads -> Call]
      /\ pc[t] \in Call /\ CallFits(pc[t], t) /\ ConnectionFits("ctl", c)
      /\ ctx \in {"none", "making", "made"} /\ broken \in SUBSET {"ctl", "buf"}
      /\ conns = [j \in {"ctl", "buf"} |-> conns[j]]
  BY DEF ClientInv, ClientShape, Types, CallsFit
<1>2. pc[t].op \in ControlOps /\ pc[t].op \notin BufferOps /\ pc[t].op # "none"
  BY <1>1, PointsAre DEF ControlOps
<1>3. /\ Idle \in Call /\ CallFits(Idle, t) /\ Idle.op = "none" /\ Idle.op \notin BufferOps
      /\ ~Makes(Idle) /\ Idle.at \notin ControlPoints
  BY IdleIs DEF BufferOps
<1>4. /\ pc' \in [Threads -> Call] /\ pc'[t] = Idle
      /\ \A u \in Threads : u # t => pc'[u] = pc[u]
      /\ \A u \in Threads : CallFits(pc'[u], u)
  BY <1>1, <1>3, CallsChange
<1>5. c.lock = t
  BY <1>1 DEF LockFits
<1>6. ConnectionFits("ctl", d) /\ d.lock = NoThread
  BY <1>1, <1>5, OrphanedFits
<1> HIDE DEF d
<1>7. /\ conns' = [j \in {"ctl", "buf"} |-> conns'[j]]
      /\ conns'["buf"] = conns["buf"] /\ conns'["ctl"] = d
  BY <1>1 DEF d
<1>8. Makes(pc[t]) <=> Creating(t)
  BY DEF Makes, Creating
<1>9. broken' \in SUBSET {"ctl", "buf"} /\ ctx' \in {"none", "making", "made"}
  BY <1>1
<1>10. Types'
  BY <1>1, <1>4, <1>6, <1>7, <1>9 DEF Types
<1>11. LockFits(pc', conns'["ctl"].lock)
  <2>1. LockFits(pc', NoThread)
    BY <1>1, <1>3, <1>4, <1>5, ClientAssumption DEF LockFits
  <2> QED
    BY <1>6, <1>7, <2>1
<1>12. ContextFits(ctx', pc', dev, cancelling) /\ ctx' # "making"
  <2>1. CASE Makes(pc[t])
    <3>1. ContextFits(ctx, pc, dev, cancelling)
      BY <1>1
    <3>2. PICK g : g = pc'
      OBVIOUS
    <3>3. g[t] = Idle /\ \A u \in Threads : u # t => g[u] = pc[u]
      BY <1>4, <3>2
    <3>4. ContextFits("made", g, dev, cancelling)
      BY <2>1, <3>1, <3>3, ContextEnds
    <3> QED
      BY <1>8, <2>1, <3>2, <3>4
  <2>2. CASE ~Makes(pc[t])
    <3>1. pc'[BufferUser].op \in BufferOps => pc[BufferUser].op \in BufferOps
      BY <1>3, <1>4, ClientAssumption
    <3>2. ContextFits(ctx, pc', dev, cancelling)
      BY <1>1, <1>2, <1>3, <1>4, <2>2, <3>1, ContextStays
    <3>3. ctx # "making"
      BY <1>1, <1>2, <2>2, IdleIs DEF ContextFits
    <3> QED
      BY <1>8, <2>2, <3>2, <3>3
  <2> QED
    BY <2>1, <2>2
<1>13. Exchanges'
  <2>1. ControlFits(conns'["ctl"], pc', broken')
    BY DEF ControlFits
  <2>2. BufferFits(conns'["buf"], pc'[BufferUser], broken')
    <3>1. BufferFits(conns["buf"], pc[BufferUser], broken)
      BY <1>1 DEF Exchanges
    <3>2. CASE t = BufferUser
      BY <1>2, <1>3, <1>4, <1>7, <3>1, <3>2 DEF BufferFits
    <3>3. CASE t # BufferUser
      <4>1. pc'[BufferUser] = pc[BufferUser]
        BY <1>4, <3>3, ClientAssumption
      <4> QED
        BY <1>7, <3>1, <4>1 DEF BufferFits
    <3> QED
      BY <3>2, <3>3
  <2>3. OwnFits(pc', broken')
    BY <1>1, <1>3, <1>4 DEF Exchanges, OwnFits
  <2> QED
    BY <2>1, <2>2, <2>3 DEF Exchanges
<1>14. LimitsFollow'
  BY DEF LimitsFollow
<1>15. ContextFits(ctx, pc, dev, cancelling)'
  BY <1>12
<1> QED
  BY <1>4, <1>10, <1>11, <1>12, <1>13, <1>14, <1>15
  DEF ClientInv, ClientShape, MakingFits, CallsFit

LEMMA TimeOutKeeps ==
  ASSUME ClientInv, NEW t \in Threads, TimeOut(t) PROVE ClientInv'
<1> DEFINE p == pc[t]
           k == Conn(p.op)
<1>1. /\ breaks < Breaks /\ p.op # "none" /\ p.at # "lock" /\ breaks' = breaks + 1
      /\ Return(t, "error", TRUE) /\ UNCHANGED <<cancelling, limits, mixed>>
  BY DEF TimeOut
<1>2. /\ p.op \in {"open", "close"} => CloseSocket /\ dev' = Closed /\ UNCHANGED <<broken, ctx>>
      /\ p.op \notin {"open", "close"} =>
           /\ conns' = IF p.op = "PRINT" THEN [conns EXCEPT !["ctl"] = Fresh]
                       ELSE [conns EXCEPT ![k] = Orphaned(@, t)]
           /\ broken' = IF p.op = "PRINT" THEN broken ELSE broken \cup {k}
           /\ ctx' = CASE p.op = "PRINT" -> "none" [] Creating(t) -> "made" [] OTHER -> ctx
           /\ UNCHANGED dev
  BY DEF TimeOut
<1>3. /\ p \in Call /\ CallFits(p, t) /\ pc \in [Threads -> Call] /\ breaks \in 0 .. Breaks
      /\ conns = [j \in {"ctl", "buf"} |-> conns[j]] /\ ConnectionFits("buf", conns["buf"])
      /\ broken \in SUBSET {"ctl", "buf"} /\ ContextFits(ctx, pc, dev, cancelling)
      /\ IsLimits(limits) /\ mixed \in BOOLEAN
  BY DEF ClientInv, ClientShape, Types, CallsFit
<1>4. /\ pc' = [pc EXCEPT ![t] = Idle]
      /\ last' \in [ret : {"none", "ok", "error", "cancelled"}, own : BOOLEAN]
  BY <1>1 DEF Return
<1>5. breaks' \in 0 .. Breaks
  BY <1>1, <1>3, ClientAssumption
<1>6. p.op \in BufferOps \/ (p.op \in ControlOps /\ p.at \in ControlPoints)
  BY <1>1, <1>3, PointsAre DEF Call
<1>7. CASE p.op \in {"open", "close"}
  <2>1. p.op \in BufferOps
    BY <1>7 DEF BufferOps
  <2> QED
    BY <1>1, <1>2, <1>3, <1>4, <1>5, <1>7, <2>1, SocketCloses, ClosedIs, BufferReturns
<1>8. CASE p.op \in BufferOps \ {"open", "close"}
  <2>1. k = "buf" /\ p.op # "PRINT" /\ ~Creating(t) /\ p.op \notin {"open", "close"}
    BY <1>8 DEF Conn, BufferOps, Creating
  <2>2. /\ conns' = [conns EXCEPT !["buf"] = Orphaned(@, t)] /\ broken' = broken \cup {"buf"}
        /\ UNCHANGED <<ctx, dev>>
    BY <1>2, <2>1
  <2>3. ConnectionFits("buf", Orphaned(conns["buf"], t))
    BY <1>3, OrphanedFits
  <2>4. /\ conns' = [j \in {"ctl", "buf"} |-> conns'[j]] /\ conns'["ctl"] = conns["ctl"]
        /\ ConnectionFits("buf", conns'["buf"])
    BY <1>3, <2>2, <2>3
  <2>5. dev \in Device /\ dev.open
    BY <1>8, BufferCall
  <2> QED
    BY <1>1, <1>3, <1>4, <1>5, <1>8, <2>2, <2>4, <2>5, BufferReturns
<1>9. CASE p.op \in ControlOps /\ p.op # "PRINT" /\ p.at \in ControlPoints
  <2>1. k = "ctl" /\ p.op \notin {"open", "close"}
    BY <1>9 DEF Conn, BufferOps, ControlOps
  <2>2. /\ conns' = [conns EXCEPT !["ctl"] = Orphaned(@, t)] /\ broken' = broken \cup {"ctl"}
        /\ UNCHANGED dev /\ ctx' = IF Creating(t) THEN "made" ELSE ctx
    BY <1>2, <1>9, <2>1
  <2> QED
    BY <1>1, <1>4, <1>5, <1>9, <2>2, ControlGivesUp
<1>10. CASE p.op = "PRINT" /\ p.at \in ControlPoints
  <2>1. /\ conns' = [conns EXCEPT !["ctl"] = Fresh] /\ broken' = broken /\ ctx' = "none"
        /\ UNCHANGED dev
    <3>1. p.op \notin {"open", "close"}
      BY <1>10
    <3>2. /\ conns' = IF p.op = "PRINT" THEN [conns EXCEPT !["ctl"] = Fresh]
                      ELSE [conns EXCEPT ![k] = Orphaned(@, t)]
          /\ broken' = IF p.op = "PRINT" THEN broken ELSE broken \cup {k}
          /\ ctx' = CASE p.op = "PRINT" -> "none" [] Creating(t) -> "made" [] OTHER -> ctx
          /\ UNCHANGED dev
      BY <1>2, <3>1
    <3>3. ctx' = "none"
      <4>1. ~Creating(t)
        BY <1>10 DEF Creating
      <4>2. ctx' = CASE p.op = "PRINT" -> "none" [] Creating(t) -> "made" [] OTHER -> ctx
        BY <3>2
      <4> QED
        BY <1>10, <4>1, <4>2
    <3> QED
      BY <1>10, <3>2, <3>3
  <2>2. pc'[t] = Idle /\ \A u \in Threads : u # t => pc'[u] = pc[u]
    BY <1>3, <1>4
  <2>3. /\ conns' = [j \in {"ctl", "buf"} |-> conns'[j]]
        /\ conns'["buf"] = conns["buf"] /\ conns'["ctl"] = Fresh
    BY <1>3, <2>1
  <2>4. /\ Idle \in Call /\ CallFits(Idle, t) /\ Idle.op = "none" /\ Idle.op \notin BufferOps
        /\ Idle.at \notin ControlPoints
    BY IdleIs DEF BufferOps
  <2>5. ControlSide(t)
    BY <1>1, <1>10, <2>1, <2>2, <2>3, <2>4 DEF ControlSide, BufferOps
  <2>6. Makes(p) /\ \A u \in Threads : u # t => pc[u] = Idle
    <3>1. Makes(p)
      BY <1>10 DEF Makes
    <3> QED
      BY <1>3, <3>1, IdleIs DEF ContextFits
  <2>7. ContextFits("none", pc', dev, cancelling)
    BY <1>3, <2>2, <2>6, ContextEnds
  <2>8. LimitsFollow'
    <3>1. \A u \in Threads : pc'[u].op # "TIMEOUT"
      BY <2>2, <2>6, IdleIs
    <3>2. LimitsFit("none", conns'["ctl"], pc', limits')
      BY <3>1 DEF LimitsFit
    <3> QED
      BY <2>1, <3>2 DEF LimitsFollow
  <2>9. /\ ConnectionFits("ctl", conns'["ctl"])
        /\ conns'["ctl"].lock = NoThread /\ Still(conns'["ctl"])
        /\ ctx' \in {"none", "making", "made"} /\ ctx' # "making"
        /\ ContextFits(ctx', pc', dev, cancelling) /\ mixed' \in BOOLEAN
        /\ IsLimits(limits')
    BY <1>1, <1>3, <2>1, <2>3, <2>7, FreshFits
  <2> QED
    BY <1>4, <1>5, <1>10, <2>3, <2>4, <2>5, <2>8, <2>9, ControlSideKeeps
<1> QED
  BY <1>6, <1>7, <1>8, <1>9, <1>10

-----------------------------------------------------------------------------
(* All the steps. *)

LEMMA ControlStepsFit ==
  ASSUME ClientInv, NEW t \in Threads, ControlStep(t) PROVE ClientInv'
<1>1. CASE Send(t)
  BY <1>1, SendKeeps
<1>2. CASE TakeLine(t)
  BY <1>2, TakeLineKeeps
<1>3. CASE TakeInt(t)
  BY <1>3, TakeIntKeeps
<1>4. CASE TakeValue(t)
  BY <1>4, TakeValueKeeps
<1>5. CASE \E ok \in BOOLEAN : TakeContext(t, ok)
  BY <1>5, TakeContextKeeps
<1> QED
  BY <1>1, <1>2, <1>3, <1>4, <1>5 DEF ControlStep

LEMMA BufferStepsFit ==
  ASSUME ClientInv, NEW t \in Threads, BufferStep(t) PROVE ClientInv'
<1>1. CASE \E ok \in BOOLEAN : Opened(t, ok)
  BY <1>1, OpenedKeeps
<1>2. CASE StopWaiting(t)
  BY <1>2, StopWaitingKeeps
<1>3. CASE TakeCount(t)
  BY <1>3, TakeCountKeeps
<1>4. CASE TakeMask(t)
  BY <1>4, TakeMaskKeeps
<1>5. CASE TakeSamples(t)
  BY <1>5, TakeSamplesKeeps
<1>6. CASE TakeStatus(t)
  BY <1>6, TakeStatusKeeps
<1>7. CASE TakeResult(t)
  BY <1>7, TakeResultKeeps
<1>8. CASE EndClose(t)
  BY <1>8, EndCloseKeeps
<1> QED
  BY <1>1, <1>2, <1>3, <1>4, <1>5, <1>6, <1>7, <1>8 DEF BufferStep

LEMMA StepsFit ==
  ASSUME ClientInv, [Next]_vars PROVE ClientInv'
<1>1. CASE UNCHANGED vars
  BY <1>1 DEF vars, ClientInv, ClientShape, Types, CallsFit, MakingFits, Exchanges, LimitsFollow
<1>2. ASSUME NEW k \in {"ctl", "buf"}, Serve(k) \/ Reply(k) \/ Refuse(k) \/ Misread(k)
      PROVE  ClientInv'
  BY <1>2, ServeKeeps, ReplyKeeps, RefuseKeeps
<1>3. ASSUME NEW t \in Threads, \E op \in ControlOps : Begin(t, op) PROVE ClientInv'
  BY <1>3, BeginKeeps
<1>4. ASSUME NEW t \in Threads, ControlStep(t) \/ BufferStep(t) PROVE ClientInv'
  BY <1>4, ControlStepsFit, BufferStepsFit
<1>5. ASSUME NEW t \in Threads,
             CreateContext(t) \/ Open(t) \/ ReadBuffer(t) \/ WriteBuffer(t) \/ Close(t)
               \/ TimeOut(t)
      PROVE  ClientInv'
  BY <1>5, CreateContextKeeps, OpenKeeps, ReadBufferKeeps, WriteBufferKeeps, CloseKeeps,
     TimeOutKeeps
<1>6. CASE Shutdown \/ Cancel \/ NoteCancel \/ OtherClient
  BY <1>6, ShutdownKeeps, CancelKeeps, OtherClientKeeps
<1> QED
  BY <1>1, <1>2, <1>3, <1>4, <1>5, <1>6, Zenon DEF Next

LEMMA ClientKept == Spec => []ClientInv
<1>1. Init => ClientInv
  BY InitialFits
<1>2. ClientInv /\ [Next]_vars => ClientInv'
  BY StepsFit
<1> QED
  BY <1>1, <1>2, PTL DEF Spec

-----------------------------------------------------------------------------
(* The theorems. *)

\* Every variable keeps its type, and the file of the event exists while there is an
\* io_ctx for it (network_open makes it, network_close ends it).
THEOREM ClientTypes == Spec => []TypeOK
<1>1. ClientInv => TypeOK
  <2> SUFFICES ASSUME ClientInv PROVE TypeOK
    OBVIOUS
  <2>1. Types /\ ContextFits(ctx, pc, dev, cancelling)
    BY DEF ClientInv, ClientShape
  <2>2. conns["ctl"].lock \in Asker /\ conns["buf"].lock \in Asker
    BY <2>1 DEF Types, ConnectionFits, Connection
  <2>3. \A k \in DOMAIN conns : conns[k].lock \in Threads \cup {NoThread}
    BY <2>1, <2>2 DEF Types, Asker
  <2>4. \A t \in Threads : pc[t].op \in BufferOps \cup ControlOps \cup {"none"}
    BY <2>1 DEF Types, Call
  <2>5. last.ret \in {"none", "ok", "error", "cancelled"}
    BY <2>1 DEF Types
  <2>6. dev.open \/ ~dev.event
    BY <2>1 DEF Types, ContextFits, Device
  <2> QED
    BY <2>1, <2>3, <2>4, <2>5, <2>6 DEF Types, TypeOK
<1> QED
  BY <1>1, ClientKept, PTL

\* Between two calls nothing is left on a connection on which no exchange was given up
\* and no write refused before its value was read, whatever the answers were: what
\* iiod-client.c reads is what ops.c has sent.
THEOREM ConnectionsAreClean == Spec => []NothingIsLeft
<1>1. ClientInv => NothingIsLeft
  BY DEF ClientInv, Exchanges, ControlFits, BufferFits, Still, NothingIsLeft, Quiet
<1> QED
  BY <1>1, ClientKept, PTL

\* The daemon's timeout is half the one in io_ctx, also after one that it refused, or is
\* another client's, and the socket's is the one in io_ctx unless the last was refused:
\* the ends of network_set_timeout never part but by that and by what mixed and broken
\* say.
THEOREM TimeoutsStayTogether == Spec => []TimeoutsAgree
<1>1. ClientInv => TimeoutsAgree
  BY DEF ClientInv, LimitsFollow, LimitsFit, TimeoutsAgree, Shared
<1> QED
  BY <1>1, ClientKept, PTL

\* What a step of one thread leaves of the others.
LEMMA OthersStay ==
  ASSUME pc \in [Threads -> Call], NEW u \in Threads, NEW t \in Threads \ {u},
         \/ \E op \in ControlOps : Begin(u, op)
         \/ ControlStep(u) \/ BufferStep(u) \/ CreateContext(u) \/ Open(u)
         \/ ReadBuffer(u) \/ WriteBuffer(u) \/ Close(u) \/ TimeOut(u)
  PROVE  pc'[t] = pc[t]
<1>1. CASE \E op \in ControlOps : Begin(u, op)
  BY <1>1 DEF Begin
<1>2. CASE Send(u) \/ TakeLine(u) \/ TakeValue(u)
  BY <1>2 DEF Send, TakeLine, TakeValue, Go, Return
<1>3. CASE TakeInt(u)
  BY <1>3 DEF TakeInt, Return
<1>4. CASE \E ok \in BOOLEAN : TakeContext(u, ok)
  BY <1>4 DEF TakeContext, Return
<1>5. CASE \E ok \in BOOLEAN : Opened(u, ok)
  BY <1>5 DEF Opened, Return
<1>6. CASE StopWaiting(u) \/ TakeCount(u) \/ TakeMask(u) \/ TakeSamples(u)
  BY <1>6 DEF StopWaiting, TakeCount, TakeMask, TakeSamples, Return
<1>7. CASE TakeStatus(u) \/ TakeResult(u) \/ EndClose(u)
  BY <1>7 DEF TakeStatus, TakeResult, EndClose, Return
<1>8. CASE CreateContext(u) \/ Open(u)
  BY <1>8 DEF CreateContext, Open
<1>9. CASE ReadBuffer(u) \/ WriteBuffer(u) \/ Close(u) \/ TimeOut(u)
  BY <1>9 DEF ReadBuffer, WriteBuffer, Close, TimeOut, Return
<1> QED
  BY <1>1, <1>2, <1>3, <1>4, <1>5, <1>6, <1>7, <1>8, <1>9 DEF ControlStep, BufferStep

\* A thread moves by its own steps only: the daemon, a cancel and the end of the
\* context leave it where it is.
LEMMA OwnSteps ==
  ASSUME ClientInv, [Next]_vars, NEW t \in Threads, pc'[t] # pc[t]
  PROVE  \/ \E op \in ControlOps : Begin(t, op)
         \/ ControlStep(t) \/ BufferStep(t) \/ CreateContext(t) \/ Open(t)
         \/ ReadBuffer(t) \/ WriteBuffer(t) \/ Close(t) \/ TimeOut(t)
<1>1. pc \in [Threads -> Call]
  BY DEF ClientInv, ClientShape, Types
<1>2. ~UNCHANGED vars
  BY DEF vars
<1>3. ASSUME NEW k \in {"ctl", "buf"} PROVE ~Serve(k) /\ ~Reply(k) /\ ~Refuse(k) /\ ~Misread(k)
  BY DEF Serve, Reply, Refuse, Misread
<1>4. ~Shutdown /\ ~Cancel /\ ~NoteCancel /\ ~OtherClient
  BY DEF Shutdown, Cancel, NoteCancel, OtherClient
<1>5. PICK u \in Threads :
        \/ \E op \in ControlOps : Begin(u, op)
        \/ ControlStep(u) \/ BufferStep(u) \/ CreateContext(u) \/ Open(u)
        \/ ReadBuffer(u) \/ WriteBuffer(u) \/ Close(u) \/ TimeOut(u)
  BY <1>2, <1>3, <1>4, Zenon DEF Next
<1>6. u = t
  BY <1>1, <1>5, OthersStay
<1> QED
  BY <1>5, <1>6

\* The integer of a command ends the call, or it goes on where it is.
LEMMA AfterInt ==
  ASSUME ClientInv, NEW t \in Threads, TakeInt(t)
  PROVE  \/ pc'[t].op = pc[t].op /\ pc'[t].at # "idle"
         \/ \E ret \in {"ok", "error"} : Return(t, ret, OwnNow(t, "ctl"))
<1>1. pc \in [Threads -> Call]
  BY DEF ClientInv, ClientShape, Types
<1>2. \/ pc' = [pc EXCEPT ![t].at = "lock", ![t].first = FALSE]
      \/ \E ret \in {"ok", "error"} : Return(t, ret, OwnNow(t, "ctl"))
      \/ pc' = [pc EXCEPT ![t].at = NextAt(t), ![t].own = OwnNow(t, "ctl")]
  BY DEF TakeInt
<1>3. CASE pc' = [pc EXCEPT ![t].at = "lock", ![t].first = FALSE]
  BY <1>1, <1>3 DEF Call
<1>4. CASE pc' = [pc EXCEPT ![t].at = NextAt(t), ![t].own = OwnNow(t, "ctl")]
  <2>1. NextAt(t) \in {"value", "discard"}
    BY DEF NextAt
  <2> QED
    BY <1>1, <1>4, <2>1 DEF Call
<1> QED
  BY <1>2, <1>3, <1>4

\* A call on the buffer's connection takes what has come only while there is no event.
LEMMA CancelStops ==
  ASSUME ClientInv, [Next]_vars, NEW t \in Threads, dev.event, pc'[t] # pc[t],
         BufferReads(t) \/ BufferReads(t)'
  PROVE  pc'[t] = Idle /\ last'.ret # "ok"
<1>1. /\ pc \in [Threads -> Call] /\ pc[t] \in Call /\ CallFits(pc[t], t)
      /\ Idle.op = "none" /\ (pc[t].at \in {"lock"} \cup ControlPoints => ~BufferReads(t))
      /\ (BufferReads(t) <=> pc[t].op \in {"read", "write"})
      /\ (BufferReads(t)' <=> pc'[t].op \in {"read", "write"})
  <2>1. pc \in [Threads -> Call] /\ pc[t] \in Call /\ CallFits(pc[t], t)
    BY DEF ClientInv, ClientShape, Types, CallsFit
  <2> QED
    BY <2>1, IdleIs DEF CallFits, PointsOf, ControlPoints, BufferReads, Call
<1>2. ASSUME \E op \in ControlOps : Begin(t, op) PROVE FALSE
  BY <1>1, <1>2 DEF Begin, ControlOps, Idle
<1>3. ASSUME Send(t) PROVE FALSE
  <2>1. pc'[t].op = pc[t].op /\ pc[t].at = "lock"
    BY <1>1, <1>3 DEF Send, Go
  <2> QED
    BY <1>1, <2>1
<1>4. ASSUME TakeLine(t) \/ TakeInt(t) \/ TakeValue(t) PROVE FALSE
  <2>1. pc[t].at \in ControlPoints
    BY <1>4 DEF TakeLine, TakeInt, TakeValue, ControlPoints
  <2>2. pc'[t].op \in {pc[t].op, "none"}
    <3>1. CASE TakeLine(t) \/ TakeValue(t)
      BY <1>1, <3>1 DEF TakeLine, TakeValue, Return
    <3>2. CASE TakeInt(t)
      BY <1>1, <3>2, AfterInt DEF Return
    <3> QED
      BY <1>4, <3>1, <3>2
  <2> QED
    BY <1>1, <2>1, <2>2
<1>5. ASSUME \E ok \in BOOLEAN : TakeContext(t, ok) PROVE FALSE
  <2>1. pc[t].op = "PRINT" /\ pc'[t].op \in {"none", "TIMEOUT"}
    <3>1. PICK ok \in BOOLEAN : TakeContext(t, ok)
      BY <1>5
    <3>2. [Idle EXCEPT !.op = "TIMEOUT", !.at = "lock", !.val = DEFAULT_TIMEOUT_MS,
                       !.first = TRUE].op = "TIMEOUT"
      BY DEF Idle
    <3>3. CASE ok
      BY <1>1, <3>1, <3>2, <3>3 DEF TakeContext
    <3>4. CASE ~ok
      BY <1>1, <3>1, <3>4 DEF TakeContext, Return
    <3> QED
      BY <3>3, <3>4
  <2> QED
    BY <1>1, <2>1
<1>6. ASSUME \E ok \in BOOLEAN : Opened(t, ok) PROVE FALSE
  <2>1. pc[t].at = "opened" /\ pc'[t] = Idle
    BY <1>1, <1>6 DEF Opened, Return
  <2> QED
    BY <1>1, <2>1 DEF CallFits, PointsOf, Call
<1>7. ASSUME TakeCount(t) \/ TakeMask(t) \/ TakeSamples(t) \/ TakeStatus(t) \/ TakeResult(t)
      PROVE  FALSE
  BY <1>7 DEF TakeCount, TakeMask, TakeSamples, TakeStatus, TakeResult, Ready, Cancelled
<1>8. ASSUME EndClose(t) PROVE FALSE
  <2>1. pc[t].at = "closed" /\ pc'[t] = Idle
    BY <1>1, <1>8 DEF EndClose, Return
  <2> QED
    BY <1>1, <2>1 DEF CallFits, PointsOf, Call
<1>9. ASSUME CreateContext(t) \/ Open(t) PROVE FALSE
  <2>1. pc[t] = Idle /\ pc'[t].op \in {"PRINT", "open"}
    <3>1. [Idle EXCEPT !.op = "PRINT", !.at = "lock", !.first = TRUE].op = "PRINT"
      BY DEF Idle
    <3>2. [Idle EXCEPT !.op = "open", !.at = "opened"].op = "open"
      BY DEF Idle
    <3>3. CASE CreateContext(t)
      BY <1>1, <3>1, <3>3 DEF CreateContext
    <3>4. CASE Open(t)
      BY <1>1, <3>2, <3>4 DEF Open
    <3> QED
      BY <1>9, <3>3, <3>4
  <2> QED
    BY <1>1, <2>1
<1>10. ASSUME Close(t) PROVE FALSE
  <2>1. pc[t] = Idle /\ pc'[t].op \in {"none", "close"}
    BY <1>1, <1>10 DEF Close, Return, Idle
  <2> QED
    BY <1>1, <2>1
<1>11. CASE StopWaiting(t) \/ TimeOut(t)
  BY <1>1, <1>11 DEF StopWaiting, TimeOut, Return
<1>12. CASE ReadBuffer(t) \/ WriteBuffer(t)
  BY <1>1, <1>12 DEF ReadBuffer, WriteBuffer, Return, Cancelled
<1> QED
  BY <1>2, <1>3, <1>4, <1>5, <1>6, <1>7, <1>8, <1>9, <1>10, <1>11, <1>12, OwnSteps
  DEF ControlStep, BufferStep

\* A refill or a push that finds the event of network_cancel ends there, without
\* success, and none is begun after it.
THEOREM CancelledCallsFail == Spec => CancelIsFinal
<1>1. ClientInv /\ [Next]_vars
        => [\A t \in Threads : dev.event /\ pc'[t] # pc[t] /\ (BufferReads(t) \/ BufferReads(t)')
              => pc'[t] = Idle /\ last'.ret # "ok"]_vars
  BY CancelStops
<1> QED
  BY <1>1, ClientKept, PTL DEF Spec, CancelIsFinal

\* The unit that a call finds on a connection that is in step was sent to it.
LEMMA UnitIsOwn ==
  ASSUME ClientInv, NEW t \in Threads, NEW k \in {"ctl", "buf"}, k \notin broken,
         pc[t].op # "none", Conn(pc[t].op) = k, k = "ctl" => pc[t].at \in ControlPoints,
         conns[k].down # <<>>
  PROVE  OwnNow(t, k)
<1>1. /\ pc[t] \in Call /\ CallFits(pc[t], t) /\ conns[k] \in Connection
      /\ LockFits(pc, conns["ctl"].lock) /\ Exchanges
  BY DEF ClientInv, ClientShape, Types, CallsFit, ConnectionFits
<1>2. pc[t].own
  BY <1>1 DEF Exchanges, OwnFits
<1>3. Exchange(conns[k], pc[t], t)
  <2>1. CASE k = "ctl"
    BY <1>1, <2>1 DEF LockFits, Exchanges, ControlFits
  <2>2. CASE k = "buf"
    <3>1. pc[t].op \in BufferOps /\ t = BufferUser
      BY <1>1, <2>2 DEF Conn, CallFits
    <3> QED
      BY <1>1, <2>2, <3>1 DEF Exchanges, BufferFits
  <2> QED
    BY <2>1, <2>2
<1>4. Head(conns[k].down).by = t
  <2>1. PICK a, i, j : Sending(conns[k], pc[t], t, a, i, j)
    BY <1>3 DEF Exchange, Unasked, Answered
  <2>2. /\ conns[k].down \in Seq(Arrival)
        /\ \A n \in 1 .. Len(conns[k].down) : conns[k].down[n] = [unit |-> a[i + n], by |-> t]
    BY <1>1, <2>1 DEF Sending, Connection
  <2>3. /\ Head(conns[k].down) = conns[k].down[1]
        /\ Len(conns[k].down) \in Nat /\ Len(conns[k].down) # 0
    BY <2>2, HeadTailProperties, EmptySeq
  <2>4. conns[k].down[1] = [unit |-> a[i + 1], by |-> t]
    BY <2>2, <2>3
  <2> QED
    BY <2>3, <2>4
<1> QED
  BY <1>2, <1>4 DEF OwnNow

\* What a call returns was sent in answer to its own command, on a connection on which
\* no exchange was given up and no write refused before its value was read.
AnswersAreOwn ==
  [][\A t \in Threads : pc[t].op # "none" /\ Conn(pc[t].op) \notin broken /\ pc'[t] = Idle
                          => last'.own]_vars

LEMMA ReturnsOwn ==
  ASSUME ClientInv, [Next]_vars, NEW t \in Threads, pc[t].op # "none",
         Conn(pc[t].op) \notin broken, pc'[t] = Idle
  PROVE  last'.own
<1>1. /\ pc \in [Threads -> Call] /\ pc[t] \in Call /\ CallFits(pc[t], t)
      /\ Idle.op = "none" /\ Idle.at = "idle" /\ pc'[t] # pc[t] /\ pc[t] # Idle
  BY IdleIs DEF ClientInv, ClientShape, Types, CallsFit
<1>2. ASSUME pc[t].at \in ControlPoints, conns["ctl"].down # <<>> PROVE OwnNow(t, "ctl")
  BY <1>1, <1>2, UnitIsOwn, PointsAre
<1>3. ASSUME pc[t].at \in BufferPoints, conns["buf"].down # <<>> PROVE OwnNow(t, "buf")
  <2>1. pc[t].op \in BufferOps
    BY <1>1, <1>3, PointsAre
  <2>2. Conn(pc[t].op) = "buf"
    BY <2>1 DEF Conn
  <2> QED
    <3>1. "buf" \in {"ctl", "buf"} /\ "buf" \notin broken /\ "buf" # "ctl"
      BY <2>2
    <3> QED
      BY <1>3, <2>2, <3>1, UnitIsOwn, Zenon
<1>4. ASSUME Send(t) PROVE FALSE
  <2>1. /\ pc' = [pc EXCEPT ![t].at = IF pc[t].op = "VERSION" THEN "line" ELSE "int"]
        /\ pc[t].at = "lock"
    BY <1>4 DEF Send, Go
  <2>2. pc'[t].at \in {"line", "int"}
    BY <1>1, <2>1 DEF Call
  <2> QED
    BY <1>1, <2>2
<1>5. CASE TakeLine(t) \/ TakeInt(t) \/ TakeValue(t)
  <2>1. pc[t].at \in ControlPoints /\ conns["ctl"].down # <<>>
    BY <1>5 DEF TakeLine, TakeInt, TakeValue, ControlPoints
  <2>2. OwnNow(t, "ctl")
    BY <1>2, <2>1
  <2>3. CASE TakeLine(t) \/ TakeValue(t)
    BY <2>2, <2>3 DEF TakeLine, TakeValue, Return
  <2>4. CASE TakeInt(t)
    <3>1. PICK ret \in {"ok", "error"} : Return(t, ret, OwnNow(t, "ctl"))
      BY <1>1, <2>4, AfterInt
    <3> QED
      BY <2>2, <3>1 DEF Return
  <2> QED
    BY <1>5, <2>3, <2>4
<1>6. CASE \E ok \in BOOLEAN : TakeContext(t, ok)
  <2>1. pc[t].at \in ControlPoints /\ conns["ctl"].down # <<>>
    BY <1>6 DEF TakeContext, ControlPoints
  <2>2. OwnNow(t, "ctl")
    BY <1>2, <2>1
  <2> QED
    <3>1. PICK ok \in BOOLEAN : TakeContext(t, ok)
      BY <1>6
    <3>2. CASE ok
      <4>1. [Idle EXCEPT !.op = "TIMEOUT", !.at = "lock", !.val = DEFAULT_TIMEOUT_MS,
                         !.first = TRUE].op = "TIMEOUT"
        BY DEF Idle
      <4>2. pc'[t].op = "TIMEOUT"
        BY <1>1, <3>1, <3>2, <4>1 DEF TakeContext
      <4> QED
        BY <1>1, <4>2
    <3>3. CASE ~ok
      <4>1. Return(t, "error", OwnNow(t, "ctl"))
        BY <3>1, <3>3 DEF TakeContext
      <4> QED
        BY <2>2, <4>1 DEF Return
    <3> QED
      BY <3>2, <3>3
<1>7. CASE (\E ok \in BOOLEAN : Opened(t, ok)) \/ StopWaiting(t) \/ TimeOut(t)
  BY <1>1, <1>7 DEF Opened, StopWaiting, TimeOut, Return
<1>8. CASE TakeCount(t) \/ TakeMask(t) \/ TakeSamples(t) \/ TakeStatus(t) \/ TakeResult(t)
  <2>1. pc[t].at \in BufferPoints /\ conns["buf"].down # <<>>
    BY <1>8 DEF TakeCount, TakeMask, TakeSamples, TakeStatus, TakeResult, Ready, BufferPoints
  <2>2. OwnNow(t, "buf")
    BY <1>3, <2>1
  <2> QED
    <3>1. \/ pc'[t].at \in {"mask", "copy", "samples", "result"}
          \/ \E ret \in {"ok", "error"} : Return(t, ret, OwnNow(t, "buf"))
      <4>1. CASE TakeCount(t)
        BY <1>1, <4>1 DEF TakeCount, Call
      <4>2. CASE TakeMask(t)
        BY <1>1, <4>2 DEF TakeMask, Call
      <4>3. CASE TakeSamples(t)
        BY <1>1, <4>3 DEF TakeSamples, Call
      <4>4. CASE TakeStatus(t)
        BY <1>1, <4>4 DEF TakeStatus, Call
      <4>5. CASE TakeResult(t)
        BY <4>5 DEF TakeResult
      <4> QED
        BY <1>8, <4>1, <4>2, <4>3, <4>4, <4>5
    <3>2. PICK ret \in {"ok", "error"} : Return(t, ret, OwnNow(t, "buf"))
      BY <1>1, <3>1
    <3> QED
      BY <2>2, <3>2 DEF Return
<1>9. CASE EndClose(t)
  <2>1. ~Cancelled("buf") => OwnNow(t, "buf")
    BY <1>3, <1>9 DEF EndClose, BufferPoints
  <2> QED
    BY <1>9, <2>1 DEF EndClose, Return
<1>10. ASSUME \/ \E op \in ControlOps : Begin(t, op)
              \/ CreateContext(t) \/ Open(t) \/ ReadBuffer(t) \/ WriteBuffer(t) \/ Close(t)
       PROVE  FALSE
  BY <1>1, <1>10 DEF Begin, CreateContext, Open, ReadBuffer, WriteBuffer, MayUse, Close
<1> QED
  BY <1>1, <1>4, <1>5, <1>6, <1>7, <1>8, <1>9, <1>10, OwnSteps DEF ControlStep, BufferStep

\* The counterpart of what a timeout does to iio_device_attr_read: unless an exchange on
\* its connection was given up before, or the value of a refused write left on it, a call
\* returns what answers its own command.
THEOREM CallsGetTheirAnswers == Spec => AnswersAreOwn
<1>1. ClientInv /\ [Next]_vars
        => [\A t \in Threads : pc[t].op # "none" /\ Conn(pc[t].op) \notin broken
                                 /\ pc'[t] = Idle
                                   => last'.own]_vars
  BY ReturnsOwn
<1> QED
  BY <1>1, ClientKept, PTL DEF Spec, AnswersAreOwn
=============================================================================
