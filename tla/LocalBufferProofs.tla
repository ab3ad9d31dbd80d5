--------------------------- MODULE LocalBufferProofs ---------------------------
(* Theorems about LocalBuffer, for any lengths, numbers of blocks, timeouts and channels. *)
EXTENDS LocalBuffer, FiniteSetTheorems, TLAPS

\* The records of the state.
Holders == {"none", "queued", "done", "app"}

Kern ==
  [enabled : BOOLEAN, chans : SUBSET Channels, holder : [BlockIds -> Holders],
   fifo : 0 .. Fifo, fds : {0, 2}, maps : 0 .. MaxBlocks]

Pdata ==
  [open : BOOLEAN, cancel : {"none", "quiet", "signalled", "stale"}, blocking : BOOLEAN,
   cyclic : BOOLEAN, enqueued : BOOLEAN, is_hs : BOOLEAN, max : 1 .. MaxBlocks,
   blocks : 0 .. MaxBlocks, last : BlockIds \cup {-1}, mask : SUBSET Channels]

Buffer ==
  [made : BOOLEAN, ptr : BlockIds \cup {-1}, data_length : 1 .. Length, owed : {0, 1}]

Call ==
  [op : {"none", "create", "refill"} \cup Output,
   at : {"idle", "enqueue", "check", "poll", "move"}, left : 0 .. Length,
   moved : 0 .. Length, whole : 0 .. Length, spent : Nat, budget : Nat \cup {-1},
   late : BOOLEAN, gave : BOOLEAN]

\* A device that is closed: nothing of the driver is left, not even when an open failed.
Shut(d, k) ==
  /\ ~d.open /\ d.blocks = 0 /\ k.fds = 0 /\ k.maps = 0
  /\ \A b \in BlockIds : k.holder[b] = "none"

\* A device that is open: set up as asked for, and the blocks granted are the first ones.
Set(d, k) ==
  /\ d.open /\ d.is_hs = hw.hs /\ k.enabled /\ k.chans = d.mask /\ k.fds = 2
  /\ k.maps = d.blocks /\ (~d.is_hs => d.blocks = 0)
  /\ \A b \in BlockIds : k.holder[b] # "none" <=> b < d.blocks

\* The device is open while there is a buffer and while one waits for its first block.
DeviceSet == IF buf.made \/ call.op = "create" THEN Set(dev, kern) ELSE Shut(dev, kern)

\* Where a thread in a call may be.
CallFits ==
  /\ call.at = "idle" => call = NoCall
  /\ call.op = "none" => call.at = "idle"
  /\ call.op = "create" => ~buf.made /\ dev.is_hs /\ ~hw.input /\ ~call.late
  /\ call.op = "refill" => buf.made /\ hw.input
  /\ call.op \in Output => buf.made /\ ~hw.input
  /\ call.at = "enqueue" => dev.is_hs /\ call.op # "create"

\* Who holds the blocks.  Past the enqueueing the thread has none of them.
BlocksHeld ==
  (dev.open /\ dev.is_hs) =>
    /\ dev.cyclic /\ dev.enqueued => dev.last >= 0
    /\ ~(dev.cyclic /\ dev.enqueued) =>
         /\ \A b \in BlockIds : kern.holder[b] = "app" <=> b = dev.last
         /\ dev.last >= 0 => buf.ptr = dev.last
    /\ call.at \in {"check", "poll", "move"} => dev.last = -1

\* A block is owed for a push from when it is enqueued until another is had.
OwedIsOne ==
  IF buf.made
  THEN buf.owed = IF dev.is_hs /\ ~hw.input /\ dev.last < 0 THEN 1 ELSE 0
  ELSE buf = NoBuffer

\* What a call has moved and what is left are what it was asked for.
MovedAndLeft ==
  /\ call.op = "refill" => call.left + call.moved = Length /\ call.whole = 0
  /\ call.op \in Output => call.left + call.moved + call.whole = buf.data_length
  /\ call.op # "push_partial" => buf.data_length = Length

\* A call that began after the cancellation, of a buffer that blocks, moves nothing.
LateMovesNothing ==
  call.late =>
    /\ dev.cancel = "signalled"
    /\ dev.blocking => call.at # "move" /\ call.moved = 0 /\ call.whole = 0

LocalInv ==
  /\ TypeOK /\ DeviceSet /\ CallFits /\ BlocksHeld /\ OwedIsOne /\ MovedAndLeft
  /\ LateMovesNothing

-----------------------------------------------------------------------------
(* The types of what is written. *)

LEMMA Types ==
  TypeOK <=> /\ hw \in [input : BOOLEAN, hs : BOOLEAN] /\ kern \in Kern /\ dev \in Pdata
             /\ buf \in Buffer /\ call \in Call /\ limit \in Timeouts
  BY DEF TypeOK, Kern, Pdata, Buffer, Call, Holders

LEMMA Constants ==
  /\ Length \in Nat /\ Length >= 1 /\ MaxBlocks \in Nat /\ MaxBlocks >= 1
  /\ Fifo \in Nat /\ Fifo = Length + 1 /\ 0 \in BlockIds /\ BlockIds \subseteq Nat
  /\ \A b \in BlockIds : b < MaxBlocks
  /\ \A t \in Timeouts : t \in Nat
  BY LocalAssumption DEF Fifo, BlockIds

LEMMA NoneAreTyped == NoCall \in Call /\ NoBuffer \in Buffer
<1>1. NoCall \in Call
  BY Constants DEF NoCall, Call, Output
<1>2. NoBuffer \in Buffer
  BY Constants DEF NoBuffer, Buffer
<1> QED
  BY <1>1, <1>2

\* The call goes on, and has moved nothing more.
Goes(c, e) ==
  /\ e \in Call /\ e.op = c.op /\ e.left = c.left /\ e.moved = c.moved
  /\ e.whole = c.whole /\ e.late = c.late

LEMMA CallGoes ==
  ASSUME NEW c \in Call
  PROVE  /\ \A a \in {"check", "poll", "move"} :
              Goes(c, [c EXCEPT !.at = a]) /\ [c EXCEPT !.at = a].at = a
         /\ \A n \in Nat \cup {-1} :
              Goes(c, [c EXCEPT !.budget = n]) /\ [c EXCEPT !.budget = n].at = c.at
         /\ \A n \in Nat :
              Goes(c, [c EXCEPT !.spent = n]) /\ [c EXCEPT !.spent = n].at = c.at
<1>1. \A a \in {"check", "poll", "move"} :
        Goes(c, [c EXCEPT !.at = a]) /\ [c EXCEPT !.at = a].at = a
  BY DEF Call, Goes
<1>2. \A n \in Nat \cup {-1} :
        Goes(c, [c EXCEPT !.budget = n]) /\ [c EXCEPT !.budget = n].at = c.at
  BY DEF Call, Goes
<1>3. \A n \in Nat : Goes(c, [c EXCEPT !.spent = n]) /\ [c EXCEPT !.spent = n].at = c.at
  BY DEF Call, Goes
<1> QED
  BY <1>1, <1>2, <1>3

LEMMA AfterCallIsTyped ==
  ASSUME NEW b \in Buffer
  PROVE  /\ AfterCall(b) \in Buffer /\ AfterCall(b).made = b.made
         /\ AfterCall(b).ptr = b.ptr /\ AfterCall(b).owed = b.owed
         /\ call.op \in Output => AfterCall(b).data_length = Length
         /\ call.op \notin Output => AfterCall(b) = b
<1>1. Length \in 1 .. Length
  BY Constants
<1>2. CASE call.op \in Output
  BY <1>1, <1>2 DEF AfterCall, Buffer
<1>3. CASE call.op \notin Output
  BY <1>3 DEF AfterCall
<1> QED
  BY <1>2, <1>3

-----------------------------------------------------------------------------
(* Closing, and opening. *)

\* What can be closed: mapped as many blocks as it has, and none if it has no blocks.
Closable(d, k) ==
  /\ d \in Pdata /\ k \in Kern
  /\ IF d.is_hs THEN k.maps = d.blocks
     ELSE k.maps = 0 /\ d.blocks = 0 /\ \A b \in BlockIds : k.holder[b] = "none"

LEMMA ClosedIsShut ==
  ASSUME NEW d, NEW k, Closable(d, k), NEW fails
  PROVE  LET c == Closed(d, k, fails)
         IN c.d \in Pdata /\ c.k \in Kern /\ Shut(c.d, c.k) /\ c.d.last = d.last
<1> DEFINE c == Closed(d, k, fails)
           none == [b \in BlockIds |-> "none"]
<1>1. c.d \in Pdata /\ ~c.d.open /\ c.d.blocks = 0 /\ c.d.last = d.last
  <2>1. c.d = [d EXCEPT !.open = FALSE, !.cancel = "none",
                        !.blocks = IF d.is_hs THEN 0 ELSE @]
    BY DEF Closed
  <2>2. 0 \in 0 .. MaxBlocks
    BY Constants
  <2>3. CASE d.is_hs
    BY <2>1, <2>2, <2>3 DEF Closable, Pdata
  <2>4. CASE ~d.is_hs
    BY <2>1, <2>4 DEF Closable, Pdata
  <2> QED
    BY <2>3, <2>4
<1>2. c.k \in Kern /\ c.k.fds = 0 /\ c.k.maps = 0 /\ \A b \in BlockIds : c.k.holder[b] = "none"
  <2> DEFINE e == IF "disable" \in fails THEN k.enabled ELSE FALSE
             h == IF "channels" \in fails THEN k.chans ELSE {}
             m == IF d.is_hs THEN k.maps - d.blocks ELSE k.maps
             w == IF d.is_hs THEN none ELSE k.holder
  <2>1. c.k = [k EXCEPT !.fds = 0, !.fifo = 0, !.maps = m, !.holder = w, !.enabled = e,
                        !.chans = h]
    BY DEF Closed, Closable, Kern
  <2>2. e \in BOOLEAN /\ h \in SUBSET Channels
    BY DEF Closable, Kern
  <2>3. m = 0
    BY DEF Closable, Pdata, Kern
  <2>4. w \in [BlockIds -> Holders] /\ \A b \in BlockIds : w[b] = "none"
    BY DEF Closable, Kern, Holders
  <2>5. 0 \in 0 .. Fifo /\ 0 \in 0 .. MaxBlocks
    BY Constants
  <2> HIDE DEF e, h, m, w, none, c
  <2> QED
    BY <2>1, <2>2, <2>3, <2>4, <2>5 DEF Closable, Kern
<1> QED
  BY <1>1, <1>2 DEF Shut

LEMMA HalfOpenFields ==
  ASSUME dev \in Pdata, kern \in Kern, Shut(dev, kern)
  PROVE  LET d == HalfOpen.d
             k == HalfOpen.k
         IN /\ d \in Pdata /\ d.open /\ d.blocks = 0 /\ d.last = dev.last
            /\ d.is_hs = dev.is_hs /\ d.mask = dev.mask
            /\ k \in Kern /\ k.fds = 2 /\ k.maps = 0 /\ k.chans = kern.chans
            /\ \A b \in BlockIds : k.holder[b] = "none"
<1>1. HalfOpen.d = [dev EXCEPT !.open = TRUE, !.cancel = "quiet"]
  BY DEF HalfOpen
<1>2. HalfOpen.k = [kern EXCEPT !.enabled = FALSE, !.fds = 2, !.fifo = 0]
  BY DEF HalfOpen
<1>3. 0 \in 0 .. Fifo
  BY Constants
<1>4. /\ HalfOpen.d \in Pdata /\ HalfOpen.d.open /\ HalfOpen.d.blocks = 0
      /\ HalfOpen.d.last = dev.last /\ HalfOpen.d.is_hs = dev.is_hs
      /\ HalfOpen.d.mask = dev.mask
  BY <1>1 DEF Pdata, Shut
<1>5. /\ HalfOpen.k \in Kern /\ HalfOpen.k.fds = 2 /\ HalfOpen.k.maps = 0
      /\ HalfOpen.k.chans = kern.chans
      /\ \A b \in BlockIds : HalfOpen.k.holder[b] = "none"
  BY <1>2, <1>3 DEF Kern, Shut
<1> QED
  BY <1>4, <1>5

LEMMA WithChannels ==
  ASSUME NEW k \in Kern, NEW c \in SUBSET Channels
  PROVE  LET e == [k EXCEPT !.chans = c]
         IN /\ e \in Kern /\ e.chans = c /\ e.enabled = k.enabled /\ e.fds = k.fds
            /\ e.maps = k.maps /\ e.holder = k.holder
  BY DEF Kern

LEMMA MappedFields ==
  ASSUME NEW k \in Kern, NEW n \in 0 .. MaxBlocks
  PROVE  LET m == Mapped(k, n)
         IN /\ m \in Kern /\ m.chans = k.chans /\ m.fds = k.fds /\ m.maps = n
            /\ \A b \in BlockIds : /\ m.holder[b] # "none" <=> b < n
                                   /\ m.holder[b] # "app"
<1> DEFINE h == [b \in BlockIds |-> IF b < n THEN "queued" ELSE "none"]
<1>1. Mapped(k, n) = [k EXCEPT !.maps = n, !.holder = h]
  BY DEF Mapped
<1>2. h \in [BlockIds -> Holders]
  BY DEF Holders
<1>3. \A b \in BlockIds : (h[b] # "none" <=> b < n) /\ h[b] # "app"
  OBVIOUS
<1> HIDE DEF h
<1> QED
  BY <1>1, <1>2, <1>3 DEF Kern

\* However many blocks were had, the unwinding leaves none.
LEMMA UnwoundIsClean ==
  ASSUME NEW k \in Kern, NEW i \in 0 .. MaxBlocks
  PROVE  LET u == Unwound(Mapped(k, i), i)
         IN /\ u \in Kern /\ u.maps = 0 /\ u.fds = k.fds
            /\ \A b \in BlockIds : u.holder[b] = "none"
<1> DEFINE none == [b \in BlockIds |-> "none"]
           m == Mapped(k, i)
<1>1. Cardinality(1 .. i) = i
  <2>1. 1 \in Int /\ i \in Int /\ MaxBlocks \in Nat
    BY Constants
  <2>2. Cardinality(1 .. i) = IF 1 > i THEN 0 ELSE i - 1 + 1
    BY <2>1, FS_Interval
  <2> QED
    BY <2>1, <2>2
<1>2. m \in Kern /\ m.maps = i /\ m.fds = k.fds
  BY MappedFields
<1>3. m.maps - Cardinality(1 .. i) = 0
  BY <1>1, <1>2, Constants
<1>4. Unwound(m, i) = [m EXCEPT !.maps = 0, !.holder = none]
  BY <1>2, <1>3 DEF Unwound, Kern
<1>5. none \in [BlockIds -> Holders] /\ \A b \in BlockIds : none[b] = "none"
  BY DEF Holders
<1>6. 0 \in 0 .. MaxBlocks
  BY Constants
<1> HIDE DEF none, m
<1>7. /\ Unwound(m, i) \in Kern /\ Unwound(m, i).maps = 0 /\ Unwound(m, i).fds = k.fds
      /\ \A b \in BlockIds : Unwound(m, i).holder[b] = "none"
  BY <1>2, <1>4, <1>5, <1>6 DEF Kern
<1> QED
  BY <1>7 DEF m

\* A device that is set up, but perhaps not enabled yet.
SetUp(d, k) ==
  /\ d \in Pdata /\ k \in Kern /\ d.open /\ d.is_hs = hw.hs /\ k.chans = d.mask /\ k.fds = 2
  /\ k.maps = d.blocks /\ (~d.is_hs => d.blocks = 0) /\ ~d.enqueued
  /\ \A b \in BlockIds : (k.holder[b] # "none" <=> b < d.blocks) /\ k.holder[b] # "app"
  /\ d.is_hs => d.last = -1

LEMMA PreparedFields ==
  ASSUME dev \in Pdata, kern \in Kern, Shut(dev, kern), hw.hs \in BOOLEAN,
         NEW cyclic \in BOOLEAN, NEW n \in 1 .. MaxBlocks
  PROVE  SetUp(Prepared(cyclic, n).d, Prepared(cyclic, n).k)
<1> DEFINE h == HalfOpen.d
           k == [HalfOpen.k EXCEPT !.chans = dev.mask]
           p == Prepared(cyclic, n)
<1>1. /\ h \in Pdata /\ h.open /\ h.blocks = 0 /\ h.mask = dev.mask
  BY HalfOpenFields
<1>2. dev.mask \in SUBSET Channels
  BY DEF Pdata
<1>3. /\ k \in Kern /\ k.fds = 2 /\ k.maps = 0 /\ k.chans = dev.mask
      /\ \A b \in BlockIds : k.holder[b] = "none"
  BY <1>2, HalfOpenFields, WithChannels
<1>4. p.d = [h EXCEPT !.cyclic = cyclic, !.enqueued = FALSE, !.is_hs = hw.hs,
                      !.blocks = IF hw.hs THEN n ELSE @, !.last = IF hw.hs THEN -1 ELSE @]
  BY DEF Prepared
<1>5. p.k = IF hw.hs THEN Mapped(k, n) ELSE k
  BY DEF Prepared
<1>6. n \in 0 .. MaxBlocks
  BY Constants
<1> HIDE DEF h, k, p
<1>7. p.d = [open |-> h.open, cancel |-> h.cancel, blocking |-> h.blocking, cyclic |-> cyclic,
             enqueued |-> FALSE, is_hs |-> hw.hs, max |-> h.max,
             blocks |-> IF hw.hs THEN n ELSE h.blocks,
             last |-> IF hw.hs THEN -1 ELSE h.last, mask |-> h.mask]
  <2>1. h = [open |-> h.open, cancel |-> h.cancel, blocking |-> h.blocking,
             cyclic |-> h.cyclic, enqueued |-> h.enqueued, is_hs |-> h.is_hs, max |-> h.max,
             blocks |-> h.blocks, last |-> h.last, mask |-> h.mask]
    BY <1>1 DEF Pdata
  <2> QED
    BY <1>4, <2>1
<1>8. CASE hw.hs
  <2>1. /\ p.d \in Pdata /\ p.d.open /\ p.d.is_hs = hw.hs /\ p.d.blocks = n
        /\ p.d.mask = dev.mask /\ ~p.d.enqueued /\ p.d.last = -1
    BY <1>1, <1>6, <1>7, <1>8, Constants DEF Pdata
  <2>2. /\ p.k \in Kern /\ p.k.chans = dev.mask /\ p.k.fds = 2 /\ p.k.maps = n
        /\ \A b \in BlockIds : (p.k.holder[b] # "none" <=> b < n) /\ p.k.holder[b] # "app"
    BY <1>3, <1>5, <1>6, <1>8, MappedFields
  <2> QED
    BY <2>1, <2>2, <1>8 DEF SetUp, p
<1>9. CASE ~hw.hs
  <2>1. /\ p.d \in Pdata /\ p.d.open /\ p.d.is_hs = hw.hs /\ p.d.blocks = 0
        /\ p.d.mask = dev.mask /\ ~p.d.enqueued
    BY <1>1, <1>7, <1>9, Constants DEF Pdata
  <2>2. p.k = k
    BY <1>5, <1>9
  <2>3. \A b \in BlockIds : ~(b < 0)
    BY Constants
  <2> QED
    BY <2>1, <2>2, <2>3, <1>3, <1>9 DEF SetUp, p
<1> QED
  BY <1>8, <1>9

LEMMA GrantedBlocks ==
  ASSUME dev \in Pdata, NEW cyclic
  PROVE  Granted(cyclic) \subseteq 1 .. MaxBlocks
  BY Constants DEF Granted, Pdata

LEMMA OpenedIsSet ==
  ASSUME dev \in Pdata, kern \in Kern, Shut(dev, kern), hw.hs \in BOOLEAN,
         NEW cyclic \in BOOLEAN, NEW o \in Opened(cyclic)
  PROVE  SetUp(o.d, o.k) /\ Set(o.d, o.k)
<1>1. PICK n \in Granted(cyclic) :
        o = [d |-> Prepared(cyclic, n).d, k |-> [Prepared(cyclic, n).k EXCEPT !.enabled = TRUE]]
  BY DEF Opened
<1> DEFINE p == Prepared(cyclic, n)
<1>2. SetUp(p.d, p.k)
  BY PreparedFields, GrantedBlocks
<1>3. o.d = p.d /\ o.k = [p.k EXCEPT !.enabled = TRUE]
  BY <1>1
<1> HIDE DEF p
<1>4. /\ o.k \in Kern /\ o.k.enabled /\ o.k.chans = p.k.chans /\ o.k.fds = p.k.fds
      /\ o.k.maps = p.k.maps /\ o.k.holder = p.k.holder
  BY <1>2, <1>3 DEF SetUp, Kern
<1>5. SetUp(o.d, o.k)
  BY <1>2, <1>3, <1>4 DEF SetUp
<1> QED
  BY <1>4, <1>5 DEF SetUp, Set

\* At whichever step local_open gives up, what it leaves can be closed.
LEMMA BrokenIsClosable ==
  ASSUME dev \in Pdata, kern \in Kern, Shut(dev, kern), hw.hs \in BOOLEAN,
         NEW cyclic \in BOOLEAN, NEW o \in OpenBroken(cyclic)
  PROVE  Closable(o.d, o.k)
<1> DEFINE tried == [HalfOpen.d EXCEPT !.cyclic = cyclic, !.enqueued = FALSE]
           set == [HalfOpen.k EXCEPT !.chans = dev.mask]
<1>1. dev.mask \in SUBSET Channels /\ kern.chans \in SUBSET Channels
  BY DEF Pdata, Kern
<1>2. HalfOpen.d \in Pdata /\ HalfOpen.d.blocks = 0
  BY HalfOpenFields
<1>3. tried \in Pdata /\ tried.blocks = 0
  BY <1>2 DEF Pdata
<1>4. CASE \E c \in SUBSET (kern.chans \cup dev.mask) :
             o = [d |-> HalfOpen.d, k |-> [HalfOpen.k EXCEPT !.chans = c]]
  <2>1. PICK c \in SUBSET (kern.chans \cup dev.mask) :
          o = [d |-> HalfOpen.d, k |-> [HalfOpen.k EXCEPT !.chans = c]]
    BY <1>4
  <2>2. c \in SUBSET Channels
    BY <1>1
  <2>3. o.d = HalfOpen.d /\ o.k = [HalfOpen.k EXCEPT !.chans = c]
    BY <2>1
  <2>4. /\ o.k \in Kern /\ o.k.maps = 0 /\ \A b \in BlockIds : o.k.holder[b] = "none"
    BY <2>2, <2>3, HalfOpenFields, WithChannels
  <2> QED
    BY <1>2, <2>3, <2>4 DEF Closable
<1>5. CASE \E n \in Granted(cyclic) : o = Prepared(cyclic, n)
  <2>1. PICK n \in Granted(cyclic) : o = Prepared(cyclic, n)
    BY <1>5
  <2>2. SetUp(o.d, o.k)
    BY <2>1, PreparedFields, GrantedBlocks
  <2>3. \A b \in BlockIds : ~(b < 0)
    BY Constants
  <2> QED
    BY <2>2, <2>3 DEF SetUp, Closable
<1>6. CASE \E n \in Granted(cyclic) :
             o = [d |-> tried, k |-> Unwound(Mapped(set, n - 1), n - 1)]
  <2>1. PICK n \in Granted(cyclic) :
          o = [d |-> tried, k |-> Unwound(Mapped(set, n - 1), n - 1)]
    BY <1>6
  <2>2. n - 1 \in 0 .. MaxBlocks
    BY GrantedBlocks, Constants
  <2>3. set \in Kern
    BY <1>1, HalfOpenFields, WithChannels
  <2>4. o.d = tried /\ o.k = Unwound(Mapped(set, n - 1), n - 1)
    BY <2>1
  <2> HIDE DEF set, tried
  <2>5. o.k \in Kern /\ o.k.maps = 0 /\ \A b \in BlockIds : o.k.holder[b] = "none"
    BY <2>2, <2>3, <2>4, UnwoundIsClean
  <2> QED
    BY <1>3, <2>4, <2>5 DEF Closable
<1>7. \A i \in IF hw.hs THEN {n - 1 : n \in Granted(cyclic)} ELSE {} :
        \E n \in Granted(cyclic) : i = n - 1
  OBVIOUS
<1> QED
  BY <1>4, <1>5, <1>6, <1>7 DEF OpenBroken

\* An open that fails leaves the device closed.
LEMMA FailedIsShut ==
  ASSUME dev \in Pdata, kern \in Kern, Shut(dev, kern), hw.hs \in BOOLEAN,
         NEW cyclic \in BOOLEAN, NEW o \in OpenFailed(cyclic)
  PROVE  o.d \in Pdata /\ o.k \in Kern /\ Shut(o.d, o.k)
<1>1. CASE \E e \in {kern.enabled, FALSE} :
             o = [d |-> dev, k |-> [kern EXCEPT !.enabled = e]]
  <2>1. PICK e \in {kern.enabled, FALSE} : o = [d |-> dev, k |-> [kern EXCEPT !.enabled = e]]
    BY <1>1
  <2>2. o.d = dev /\ o.k = [kern EXCEPT !.enabled = e]
    BY <2>1
  <2>3. e \in BOOLEAN
    BY DEF Kern
  <2> QED
    BY <2>2, <2>3 DEF Kern, Shut
<1>2. CASE o = [d |-> [dev EXCEPT !.cancel = "stale"], k |-> [kern EXCEPT !.enabled = FALSE]]
  <2>1. o.d = [dev EXCEPT !.cancel = "stale"] /\ o.k = [kern EXCEPT !.enabled = FALSE]
    BY <1>2
  <2>2. o.d \in Pdata /\ o.d.open = dev.open /\ o.d.blocks = dev.blocks
    BY <2>1 DEF Pdata
  <2>3. /\ o.k \in Kern /\ o.k.fds = kern.fds /\ o.k.maps = kern.maps
        /\ o.k.holder = kern.holder
    BY <2>1 DEF Kern
  <2> QED
    BY <2>2, <2>3 DEF Shut
<1>3. CASE \E q \in OpenBroken(cyclic), f \in SUBSET {"disable", "channels"} :
             o = Closed(q.d, q.k, f)
  BY <1>3, BrokenIsClosable, ClosedIsShut
<1> QED
  BY <1>1, <1>2, <1>3 DEF OpenFailed

-----------------------------------------------------------------------------
(* What the steps of a call have in common. *)

\* A call that goes on without having moved anything.
LEMMA GoesOn ==
  ASSUME LocalInv, UNCHANGED <<hw, kern, dev, buf, limit>>, Goes(call, call'),
         call.at # "idle", call'.at \in {"check", "poll", "move"},
         dev.is_hs => dev.last = -1,
         call.late /\ dev.blocking => call'.at # "move"
  PROVE  LocalInv'
<1>1. TypeOK'
  <2>1. TypeOK /\ call' \in Call
    BY DEF LocalInv, Goes
  <2> QED
    BY <2>1 DEF TypeOK, Call
<1>2. /\ call'.op = call.op /\ call'.left = call.left /\ call'.moved = call.moved
      /\ call'.whole = call.whole /\ call'.late = call.late
  BY DEF Goes
<1>3. call.op # "none"
  BY DEF LocalInv, CallFits
<1>4. DeviceSet'
  BY <1>2 DEF LocalInv, DeviceSet, Set, Shut
<1>5. CallFits'
  BY <1>2, <1>3 DEF LocalInv, CallFits, Output
<1>6. BlocksHeld'
  BY <1>2 DEF LocalInv, BlocksHeld
<1>7. OwedIsOne'
  BY DEF LocalInv, OwedIsOne, NoBuffer
<1>8. MovedAndLeft'
  BY <1>2 DEF LocalInv, MovedAndLeft
<1>9. LateMovesNothing'
  BY <1>2 DEF LocalInv, LateMovesNothing
<1> QED
  BY <1>1, <1>4, <1>5, <1>6, <1>7, <1>8, <1>9 DEF LocalInv

\* A call that returns, and leaves the device as it was.
LEMMA Returns ==
  ASSUME LocalInv, UNCHANGED <<hw, kern, dev, limit>>, call.at # "idle",
         call.op # "create", call' = NoCall, buf' = AfterCall(buf)
  PROVE  LocalInv'
<1>1. /\ hw \in [input : BOOLEAN, hs : BOOLEAN] /\ kern \in Kern /\ dev \in Pdata
      /\ buf \in Buffer /\ limit \in Timeouts
  BY Types DEF LocalInv
<1>2. /\ buf' \in Buffer /\ buf'.made = buf.made /\ buf'.ptr = buf.ptr /\ buf'.owed = buf.owed
      /\ call.op \in Output => buf'.data_length = Length
      /\ call.op \notin Output => buf' = buf
  BY <1>1, AfterCallIsTyped
<1>3. call'.op = "none" /\ call'.at = "idle" /\ ~call'.late
  BY DEF NoCall
<1>4. call.op # "none" /\ buf.made
  BY Types DEF LocalInv, CallFits, Call
<1>5. TypeOK'
  <2>1. call' \in Call
    BY NoneAreTyped
  <2> QED
    BY <1>1, <1>2, <2>1, Types DEF TypeOK, Kern, Pdata, Buffer, Call, Holders
<1>6. DeviceSet'
  BY <1>2, <1>4 DEF LocalInv, DeviceSet, Set
<1>7. CallFits'
  BY <1>3 DEF CallFits, Output, NoCall
<1>8. BlocksHeld'
  BY <1>2, <1>3 DEF LocalInv, BlocksHeld
<1>9. OwedIsOne'
  BY <1>2, <1>4 DEF LocalInv, OwedIsOne
<1>10. MovedAndLeft'
  <2>1. buf'.data_length = Length
    BY <1>2 DEF LocalInv, MovedAndLeft, Output
  <2> QED
    BY <1>3, <2>1 DEF MovedAndLeft, Output
<1>11. LateMovesNothing'
  BY <1>3 DEF LateMovesNothing
<1> QED
  BY <1>5, <1>6, <1>7, <1>8, <1>9, <1>10, <1>11 DEF LocalInv

\* A device that is shut while there is neither a buffer nor a call.
LEMMA ShutIsInv ==
  ASSUME UNCHANGED <<hw, limit>>, hw \in [input : BOOLEAN, hs : BOOLEAN], limit \in Timeouts,
         dev' \in Pdata, kern' \in Kern, Shut(dev', kern'), buf' = NoBuffer, call' = NoCall
  PROVE  LocalInv'
<1>1. buf' \in Buffer /\ call' \in Call
  BY NoneAreTyped
<1>2. TypeOK'
  BY <1>1 DEF TypeOK, Kern, Pdata, Buffer, Call, Holders
<1>3. call'.op = "none" /\ call'.at = "idle" /\ ~call'.late
  BY DEF NoCall
<1>4. ~buf'.made /\ buf'.data_length = Length
  BY DEF NoBuffer
<1>5. DeviceSet'
  BY <1>3, <1>4 DEF DeviceSet, Shut
<1>6. CallFits'
  BY <1>3 DEF CallFits, Output, NoCall
<1>7. BlocksHeld' /\ OwedIsOne'
  BY <1>4 DEF BlocksHeld, OwedIsOne, Shut, NoBuffer
<1>8. MovedAndLeft' /\ LateMovesNothing'
  BY <1>3, <1>4 DEF MovedAndLeft, LateMovesNothing, Output
<1> QED
  BY <1>2, <1>5, <1>6, <1>7, <1>8 DEF LocalInv

\* A call that fails; one that was to make a buffer closes the device.
LEMMA CallFails ==
  ASSUME LocalInv, UNCHANGED <<hw, limit>>, call.at # "idle", NEW ret, Fail(ret)
  PROVE  LocalInv'
<1>1. call' = NoCall /\ buf' = AfterCall(buf)
  BY DEF Fail, Return
<1>2. CASE call.op = "create"
  <2>1. ~buf.made /\ buf' = NoBuffer
    BY <1>1, <1>2 DEF LocalInv, CallFits, OwedIsOne, AfterCall, Output
  <2>2. PICK f : dev' = Closed(dev, kern, f).d /\ kern' = Closed(dev, kern, f).k
    BY <1>2 DEF Fail
  <2>3. /\ hw \in [input : BOOLEAN, hs : BOOLEAN] /\ kern \in Kern /\ dev \in Pdata
        /\ limit \in Timeouts
    BY Types DEF LocalInv
  <2>4. Closable(dev, kern)
    BY <1>2, <2>3, Constants DEF LocalInv, DeviceSet, Set, CallFits, Closable
  <2>5. dev' \in Pdata /\ kern' \in Kern /\ Shut(dev', kern')
    BY <2>2, <2>4, ClosedIsShut
  <2> QED
    BY <1>1, <2>1, <2>3, <2>5, ShutIsInv
<1>3. CASE call.op # "create"
  BY <1>1, <1>3, Returns DEF Fail
<1> QED
  BY <1>2, <1>3

\* Nothing but the result changes.
LEMMA ResultOnly ==
  ASSUME LocalInv, UNCHANGED <<hw, kern, dev, buf, call, limit>>
  PROVE  LocalInv'
<1>1. TypeOK'
  BY DEF LocalInv, TypeOK
<1>2. DeviceSet' /\ CallFits' /\ OwedIsOne'
  BY DEF LocalInv, DeviceSet, Set, Shut, CallFits, OwedIsOne, NoBuffer, NoCall
<1>3. BlocksHeld' /\ MovedAndLeft' /\ LateMovesNothing'
  BY DEF LocalInv, BlocksHeld, MovedAndLeft, LateMovesNothing
<1> QED
  BY <1>1, <1>2, <1>3 DEF LocalInv

\* Where no call is under way.
LEMMA IdleState ==
  ASSUME LocalInv, Idle
  PROVE  /\ call = NoCall /\ call.op = "none" /\ ~call.late
         /\ buf.made => Set(dev, kern)
         /\ ~buf.made => Shut(dev, kern) /\ buf = NoBuffer
  BY DEF LocalInv, Idle, CallFits, DeviceSet, OwedIsOne, NoCall

-----------------------------------------------------------------------------
(* The steps. *)

LEMMA CreateInv == ASSUME LocalInv, NEW cyclic \in BOOLEAN, Create(cyclic) PROVE LocalInv'
<1>1. /\ hw \in [input : BOOLEAN, hs : BOOLEAN] /\ kern \in Kern /\ dev \in Pdata
      /\ limit \in Timeouts
  BY Types DEF LocalInv
<1>2. Idle /\ ~buf.made /\ UNCHANGED <<hw, limit>>
  BY DEF Create
<1>3. /\ call = NoCall /\ buf = NoBuffer /\ Shut(dev, kern)
  BY <1>2, IdleState
<1>4. CASE UNCHANGED <<kern, dev, buf, call>>
  BY <1>2, <1>4, ResultOnly
<1>5. CASE /\ \E o \in OpenFailed(cyclic) : dev' = o.d /\ kern' = o.k
           /\ UNCHANGED <<buf, call>>
  <2>1. dev' \in Pdata /\ kern' \in Kern /\ Shut(dev', kern')
    BY <1>1, <1>3, <1>5, FailedIsShut
  <2> QED
    BY <1>1, <1>2, <1>3, <1>5, <2>1, ShutIsInv
<1>6. CASE /\ \E o \in Opened(cyclic), f \in SUBSET {"disable", "channels"} :
                LET c == Closed(o.d, o.k, f) IN dev' = c.d /\ kern' = c.k
           /\ UNCHANGED <<buf, call>>
  <2>1. PICK o \in Opened(cyclic), f \in SUBSET {"disable", "channels"} :
          dev' = Closed(o.d, o.k, f).d /\ kern' = Closed(o.d, o.k, f).k
    BY <1>6
  <2>2. SetUp(o.d, o.k)
    BY <1>1, <1>3, OpenedIsSet
  <2>3. \A b \in BlockIds : ~(b < 0)
    BY Constants
  <2>4. Closable(o.d, o.k)
    BY <2>2, <2>3 DEF SetUp, Closable
  <2>5. dev' \in Pdata /\ kern' \in Kern /\ Shut(dev', kern')
    BY <2>1, <2>4, ClosedIsShut
  <2> QED
    BY <1>1, <1>2, <1>3, <1>6, <2>5, ShutIsInv
<1>7. CASE \E o \in Opened(cyclic) :
             /\ dev' = o.d /\ kern' = o.k
             /\ IF o.d.is_hs /\ ~hw.input
                THEN /\ call' = [NoCall EXCEPT !.op = "create", !.at = "check"]
                     /\ UNCHANGED buf
                ELSE buf' = [NoBuffer EXCEPT !.made = TRUE] /\ UNCHANGED call
  <2>1. SetUp(dev', kern') /\ Set(dev', kern') /\ dev'.is_hs = hw.hs
    BY <1>1, <1>3, <1>7, OpenedIsSet DEF SetUp
  <2>2. hw' = hw
    BY <1>2
  <2>3. \A b \in BlockIds : b # -1
    BY Constants
  <2>4. dev'.last \in BlockIds \cup {-1}
    BY <2>1 DEF SetUp, Pdata
  <2>5. CASE /\ call' = [NoCall EXCEPT !.op = "create", !.at = "check"]
             /\ buf' = buf /\ dev'.is_hs /\ ~hw.input
    <3>1. /\ call'.op = "create" /\ call'.at = "check" /\ ~call'.late /\ call' \in Call
      <4>1. call' = [op |-> "create", at |-> "check", left |-> 0, moved |-> 0, whole |-> 0,
                     spent |-> 0, budget |-> 0, late |-> FALSE, gave |-> FALSE]
        BY <2>5 DEF NoCall
      <4> QED
        BY <4>1, Constants DEF Call
    <3>2. TypeOK'
      BY <1>1, <1>2, <1>3, <2>1, <2>5, <3>1, NoneAreTyped, Types
         DEF SetUp, TypeOK, Kern, Pdata, Buffer, Call, Holders
    <3>3. DeviceSet'
      BY <2>1, <2>2, <3>1 DEF DeviceSet, Set
    <3>4. CallFits'
      BY <1>2, <2>2, <2>5, <3>1 DEF CallFits, Output
    <3>5. BlocksHeld'
      BY <2>1, <2>3, <2>5 DEF BlocksHeld, SetUp
    <3>6. OwedIsOne'
      BY <1>3, <2>5 DEF OwedIsOne, NoBuffer
    <3>7. MovedAndLeft' /\ LateMovesNothing'
      BY <1>3, <2>5, <3>1 DEF MovedAndLeft, LateMovesNothing, Output, NoBuffer
    <3> QED
      BY <3>2, <3>3, <3>4, <3>5, <3>6, <3>7 DEF LocalInv
  <2>6. CASE /\ call' = call /\ buf' = [NoBuffer EXCEPT !.made = TRUE]
             /\ ~(dev'.is_hs /\ ~hw.input)
    <3>1. /\ call' = NoCall /\ call'.op = "none" /\ call'.at = "idle" /\ ~call'.late
      BY <1>3, <2>6 DEF NoCall
    <3>2. buf' \in Buffer /\ buf'.made /\ buf'.owed = 0 /\ buf'.data_length = Length
      <4>1. buf' = [made |-> TRUE, ptr |-> -1, data_length |-> Length, owed |-> 0]
        BY <2>6 DEF NoBuffer
      <4> QED
        BY <4>1, Constants DEF Buffer
    <3>3. TypeOK'
      BY <1>1, <1>2, <2>1, <3>1, <3>2, NoneAreTyped, Types
         DEF SetUp, TypeOK, Kern, Pdata, Buffer, Call, Holders
    <3>4. DeviceSet'
      BY <2>1, <2>2, <3>2 DEF DeviceSet, Set
    <3>5. CallFits'
      BY <3>1 DEF CallFits, Output
    <3>6. BlocksHeld'
      BY <2>1, <2>3, <3>1 DEF BlocksHeld, SetUp
    <3>7. OwedIsOne'
      BY <2>2, <2>6, <3>2 DEF OwedIsOne
    <3>8. MovedAndLeft' /\ LateMovesNothing'
      BY <3>1, <3>2 DEF MovedAndLeft, LateMovesNothing, Output
    <3> QED
      BY <3>3, <3>4, <3>5, <3>6, <3>7, <3>8 DEF LocalInv
  <2> QED
    BY <1>7, <2>5, <2>6
<1> QED
  BY <1>4, <1>5, <1>6, <1>7 DEF Create

LEMMA DestroyInv == ASSUME LocalInv, Destroy PROVE LocalInv'
<1>1. /\ hw \in [input : BOOLEAN, hs : BOOLEAN] /\ kern \in Kern /\ dev \in Pdata
      /\ limit \in Timeouts
  BY Types DEF LocalInv
<1>2. call' = NoCall /\ buf' = NoBuffer /\ Set(dev, kern) /\ UNCHANGED <<hw, limit>>
  BY IdleState DEF Destroy
<1>3. Closable(dev, kern)
  <2>1. \A b \in BlockIds : ~(b < 0)
    BY Constants
  <2> QED
    BY <1>1, <1>2, <2>1 DEF Set, Closable
<1>4. dev' \in Pdata /\ kern' \in Kern /\ Shut(dev', kern')
  BY <1>3, ClosedIsShut DEF Destroy
<1> QED
  BY <1>1, <1>2, <1>4, ShutIsInv

LEMMA ChooseInv == ASSUME LocalInv, NEW mask \in SUBSET Channels, Choose(mask) PROVE LocalInv'
<1>1. /\ hw \in [input : BOOLEAN, hs : BOOLEAN] /\ kern \in Kern /\ dev \in Pdata
      /\ limit \in Timeouts
  BY Types DEF LocalInv
<1>2. /\ call' = NoCall /\ buf' = NoBuffer /\ kern' = kern /\ Shut(dev, kern)
      /\ UNCHANGED <<hw, limit>> /\ dev' = [dev EXCEPT !.mask = mask]
  BY IdleState DEF Choose
<1>3. dev' \in Pdata /\ Shut(dev', kern')
  BY <1>1, <1>2 DEF Pdata, Shut
<1> QED
  BY <1>1, <1>2, <1>3, ShutIsInv

LEMMA SetKernelBuffersInv ==
  ASSUME LocalInv, NEW n \in 1 .. MaxBlocks, SetKernelBuffers(n)
  PROVE  LocalInv'
<1>1. /\ hw \in [input : BOOLEAN, hs : BOOLEAN] /\ kern \in Kern /\ dev \in Pdata
      /\ limit \in Timeouts
  BY Types DEF LocalInv
<1>2. CASE dev.open
  BY <1>2, ResultOnly DEF SetKernelBuffers
<1>3. CASE ~dev.open
  <2>1. ~buf.made
    BY <1>3, IdleState DEF Set, SetKernelBuffers
  <2>2. /\ call' = NoCall /\ buf' = NoBuffer /\ kern' = kern /\ Shut(dev, kern)
        /\ UNCHANGED <<hw, limit>> /\ dev' = [dev EXCEPT !.max = n]
    BY <1>3, <2>1, IdleState DEF SetKernelBuffers
  <2>3. dev' \in Pdata /\ Shut(dev', kern')
    BY <1>1, <2>2 DEF Pdata, Shut
  <2> QED
    BY <1>1, <2>2, <2>3, ShutIsInv
<1> QED
  BY <1>2, <1>3

\* Another blocking mode, or a cancellation.
LEMMA ModeOnly ==
  ASSUME LocalInv, buf.made, UNCHANGED <<hw, kern, buf, call, limit>>,
         NEW c \in {"none", "quiet", "signalled", "stale"}, NEW b \in BOOLEAN,
         dev' = [dev EXCEPT !.cancel = c, !.blocking = b],
         call.late => c = "signalled" /\ b = dev.blocking
  PROVE  LocalInv'
<1>1. dev \in Pdata
  BY Types DEF LocalInv
<1>2. /\ dev' \in Pdata /\ dev'.open = dev.open /\ dev'.cyclic = dev.cyclic
      /\ dev'.enqueued = dev.enqueued /\ dev'.is_hs = dev.is_hs /\ dev'.blocks = dev.blocks
      /\ dev'.last = dev.last /\ dev'.mask = dev.mask /\ dev'.cancel = c
      /\ dev'.blocking = b
  BY <1>1 DEF Pdata
<1>3. TypeOK'
  BY <1>2 DEF LocalInv, TypeOK, Pdata
<1>4. DeviceSet'
  BY <1>2 DEF LocalInv, DeviceSet, Set
<1>5. CallFits'
  BY <1>2 DEF LocalInv, CallFits, NoCall
<1>6. BlocksHeld'
  BY <1>2 DEF LocalInv, BlocksHeld
<1>7. OwedIsOne'
  BY <1>2 DEF LocalInv, OwedIsOne
<1>8. MovedAndLeft' /\ LateMovesNothing'
  BY <1>2 DEF LocalInv, MovedAndLeft, LateMovesNothing
<1> QED
  BY <1>3, <1>4, <1>5, <1>6, <1>7, <1>8 DEF LocalInv

LEMMA SetBlockingInv ==
  ASSUME LocalInv, NEW blocking \in BOOLEAN, SetBlocking(blocking)
  PROVE  LocalInv'
<1>1. CASE UNCHANGED dev
  BY <1>1, ResultOnly DEF SetBlocking
<1>2. CASE dev' = [dev EXCEPT !.blocking = blocking]
  <2>1. dev \in Pdata
    BY Types DEF LocalInv
  <2>2. /\ dev.cancel \in {"none", "quiet", "signalled", "stale"}
        /\ dev' = [dev EXCEPT !.cancel = dev.cancel, !.blocking = blocking]
    BY <1>2, <2>1 DEF Pdata
  <2>3. ~call.late /\ buf.made /\ UNCHANGED <<hw, kern, buf, call, limit>>
    BY IdleState DEF SetBlocking
  <2> QED
    BY <2>2, <2>3, ModeOnly
<1> QED
  BY <1>1, <1>2 DEF SetBlocking

LEMMA CancelInv == ASSUME LocalInv, Cancel PROVE LocalInv'
<1>1. dev \in Pdata
  BY Types DEF LocalInv
<1>2. /\ dev.blocking \in BOOLEAN
      /\ dev' = [dev EXCEPT !.cancel = "signalled", !.blocking = dev.blocking]
  BY <1>1 DEF Cancel, Pdata
<1>3. buf.made /\ UNCHANGED <<hw, kern, buf, call, limit>>
  BY DEF Cancel
<1> QED
  BY <1>2, <1>3, ModeOnly

LEMMA SetTimeoutInv ==
  ASSUME LocalInv, NEW timeout \in Timeouts, SetTimeout(timeout)
  PROVE  LocalInv'
<1>1. limit' \in Timeouts /\ UNCHANGED <<hw, kern, dev, buf, call>>
  BY DEF SetTimeout
<1>2. TypeOK'
  BY <1>1 DEF LocalInv, TypeOK
<1>3. DeviceSet' /\ CallFits' /\ OwedIsOne'
  BY <1>1 DEF LocalInv, DeviceSet, Set, Shut, CallFits, OwedIsOne, NoBuffer, NoCall
<1>4. BlocksHeld' /\ MovedAndLeft' /\ LateMovesNothing'
  BY <1>1 DEF LocalInv, BlocksHeld, MovedAndLeft, LateMovesNothing
<1> QED
  BY <1>2, <1>3, <1>4 DEF LocalInv

\* A call that begins with the whole of what it is asked for left.
LEMMA BeginFields ==
  ASSUME LocalInv, NEW op \in {"refill", "push", "push_partial"}, NEW want \in 1 .. Length
  PROVE  LET c == Begin(op, want)
         IN /\ c \in Call /\ c.op = op /\ c.left = want /\ c.moved = 0 /\ c.whole = 0
            /\ c.at = (IF dev.is_hs THEN "enqueue" ELSE "check")
            /\ c.late => dev.cancel = "signalled"
<1> DEFINE late == dev.cancel = "signalled"
           at == IF dev.is_hs THEN "enqueue" ELSE "check"
<1>1. Begin(op, want) =
        [op |-> op, at |-> at, left |-> want, moved |-> 0, whole |-> 0, spent |-> 0,
         budget |-> 0, late |-> late, gave |-> FALSE]
  <2>1. Begin(op, want) = [NoCall EXCEPT !.op = op, !.at = at, !.left = want, !.late = late]
    BY DEF Begin
  <2> HIDE DEF late, at
  <2> QED
    BY <2>1 DEF NoCall
<1>2. late \in BOOLEAN /\ at \in {"enqueue", "check"} /\ (late => dev.cancel = "signalled")
  OBVIOUS
<1>3. at = IF dev.is_hs THEN "enqueue" ELSE "check"
  OBVIOUS
<1>4. want \in 0 .. Length /\ 0 \in 0 .. Length
  BY Constants
<1> HIDE DEF late, at
<1> QED
  BY <1>1, <1>2, <1>3, <1>4 DEF Call, Output

\* A refill or a push begins, of a buffer with data_length as it is for this call.
LEMMA Begins ==
  ASSUME LocalInv, Idle, buf.made, UNCHANGED <<hw, kern, dev, limit>>,
         NEW op \in {"refill", "push", "push_partial"}, NEW want \in 1 .. Length,
         call' = Begin(op, want), op = "refill" <=> hw.input,
         buf' \in Buffer, buf'.made, buf'.ptr = buf.ptr, buf'.owed = buf.owed,
         op # "refill" => buf'.data_length = want,
         op = "refill" => want = Length,
         op # "push_partial" => buf'.data_length = Length
  PROVE  LocalInv'
<1>1. /\ call' \in Call /\ call'.op = op /\ call'.left = want /\ call'.moved = 0
      /\ call'.whole = 0 /\ call'.at = (IF dev.is_hs THEN "enqueue" ELSE "check")
      /\ call'.late => dev.cancel = "signalled"
  BY BeginFields
<1>2. want \in Nat /\ Length \in Nat
  BY Constants
<1>3. TypeOK'
  BY <1>1, Types DEF LocalInv, TypeOK, Kern, Pdata, Buffer, Call, Holders
<1>4. DeviceSet'
  BY <1>1 DEF LocalInv, DeviceSet, Set
<1>5. CallFits'
  BY <1>1 DEF CallFits, Output
<1>6. BlocksHeld'
  BY <1>1 DEF LocalInv, BlocksHeld
<1>7. OwedIsOne'
  BY <1>1 DEF LocalInv, OwedIsOne
<1>8. MovedAndLeft'
  BY <1>1, <1>2 DEF MovedAndLeft, Output
<1>9. LateMovesNothing'
  BY <1>1 DEF LateMovesNothing
<1> QED
  BY <1>3, <1>4, <1>5, <1>6, <1>7, <1>8, <1>9 DEF LocalInv

LEMMA RefillInv == ASSUME LocalInv, Refill PROVE LocalInv'
<1>1. buf \in Buffer
  BY Types DEF LocalInv
<1>2. buf.data_length = Length
  BY IdleState DEF LocalInv, MovedAndLeft, Refill
<1>3. Length \in 1 .. Length
  BY Constants
<1>4. /\ Idle /\ buf.made /\ hw.input /\ call' = Begin("refill", Length)
      /\ UNCHANGED <<hw, kern, dev, buf, limit>>
  BY DEF Refill
<1> QED
  BY <1>1, <1>2, <1>3, <1>4, Begins

LEMMA PushInv == ASSUME LocalInv, Push PROVE LocalInv'
<1>1. buf \in Buffer
  BY Types DEF LocalInv
<1>2. buf.data_length = Length
  BY IdleState DEF LocalInv, MovedAndLeft, Push
<1>3. Length \in 1 .. Length
  BY Constants
<1>4. Idle /\ buf.made /\ ~hw.input /\ UNCHANGED <<hw, kern, dev, limit>>
  BY DEF Push
<1>5. CASE call' = Begin("push", buf.data_length) /\ UNCHANGED buf
  BY <1>1, <1>2, <1>3, <1>4, <1>5, Begins
<1>6. CASE \E n \in 1 .. Length : /\ call' = Begin("push_partial", n)
                                  /\ buf' = [buf EXCEPT !.data_length = n]
  <2>1. PICK n \in 1 .. Length : /\ call' = Begin("push_partial", n)
                                 /\ buf' = [buf EXCEPT !.data_length = n]
    BY <1>6
  <2>2. /\ buf' \in Buffer /\ buf'.made = buf.made /\ buf'.ptr = buf.ptr
        /\ buf'.owed = buf.owed /\ buf'.data_length = n
    BY <1>1, <2>1 DEF Buffer
  <2> QED
    BY <1>4, <2>1, <2>2, Begins
<1> QED
  BY <1>5, <1>6 DEF Push

\* Where a call is under way.
LEMMA CallState ==
  ASSUME LocalInv, call.at # "idle"
  PROVE  /\ Set(dev, kern) /\ call.op # "none"
         /\ call.at \in {"enqueue", "check", "poll", "move"}
         /\ call.op = "create" \/ buf.made
         /\ call.op \in {"create", "refill"} \cup Output
         /\ call.at = "enqueue" => dev.is_hs /\ call.op # "create" /\ buf.made
         /\ call.at # "enqueue" /\ dev.is_hs => dev.last = -1
<1>1. /\ call.op \in {"none", "create", "refill"} \cup Output
      /\ call.at \in {"enqueue", "check", "poll", "move"}
  BY Types DEF LocalInv, Call
<1>2. call.op # "none"
  BY DEF LocalInv, CallFits
<1>3. call.op = "create" \/ buf.made
  BY <1>1, <1>2 DEF LocalInv, CallFits
<1>4. Set(dev, kern)
  BY <1>3 DEF LocalInv, DeviceSet
<1>5. call.at = "enqueue" => dev.is_hs /\ call.op # "create" /\ buf.made
  BY <1>3 DEF LocalInv, CallFits
<1>6. call.at # "enqueue" /\ dev.is_hs => dev.last = -1
  BY <1>1, <1>4 DEF LocalInv, BlocksHeld, Set
<1> QED
  BY <1>1, <1>2, <1>3, <1>4, <1>5, <1>6

LEMMA RelTimeout ==
  ASSUME limit \in Timeouts, NEW spent \in Nat
  PROVE  get_rel_timeout(spent) \in Nat \cup {-1}
  BY Constants DEF get_rel_timeout

LEMMA NothingToEnqueueInv == ASSUME LocalInv, NothingToEnqueue PROVE LocalInv'
<1>1. /\ call.at = "enqueue" /\ dev.last < 0 /\ call' = [call EXCEPT !.at = "check"]
      /\ UNCHANGED <<hw, kern, dev, buf, limit>>
  BY DEF NothingToEnqueue
<1>2. dev.last = -1
  BY <1>1, Types, Constants DEF LocalInv, Pdata
<1>3. Goes(call, call') /\ call'.at = "check"
  BY <1>1, CallGoes, Types DEF LocalInv
<1> QED
  BY <1>1, <1>2, <1>3, GoesOn

LEMMA CheckReadyInv == ASSUME LocalInv, CheckReady PROVE LocalInv'
<1>1. call.at = "check" /\ UNCHANGED <<hw, kern, dev, buf, limit>>
  BY DEF CheckReady
<1>2. dev.is_hs => dev.last = -1
  BY <1>1, CallState
<1>3. call \in Call /\ limit \in Timeouts
  BY Types DEF LocalInv
<1>4. CASE dev.blocking
  <2> DEFINE n == get_rel_timeout(call.spent)
             c == [call EXCEPT !.at = "poll"]
  <2>1. n \in Nat \cup {-1}
    BY <1>3, RelTimeout DEF Call
  <2>2. call' = [c EXCEPT !.budget = n]
    BY <1>4 DEF CheckReady
  <2>3. Goes(call, c) /\ c.at = "poll" /\ c \in Call
    BY <1>3, CallGoes DEF Goes
  <2>4. Goes(c, call') /\ call'.at = "poll"
    BY <2>1, <2>2, <2>3, CallGoes
  <2>5. Goes(call, call')
    BY <2>3, <2>4 DEF Goes
  <2> QED
    BY <1>1, <1>2, <2>4, <2>5, GoesOn
<1>5. CASE ~dev.blocking
  <2>1. Goes(call, call') /\ call'.at = "move"
    BY <1>3, <1>5, CallGoes DEF CheckReady
  <2> QED
    BY <1>1, <1>2, <1>5, <2>1, GoesOn
<1> QED
  BY <1>4, <1>5

LEMMA InterruptedInv == ASSUME LocalInv, Interrupted PROVE LocalInv'
<1>1. /\ call.at = "poll" /\ UNCHANGED <<hw, kern, dev, buf, limit>>
      /\ call' = [call EXCEPT !.budget = get_rel_timeout(call.spent)]
  BY DEF Interrupted
<1>2. dev.is_hs => dev.last = -1
  BY <1>1, CallState
<1>3. call \in Call /\ get_rel_timeout(call.spent) \in Nat \cup {-1}
  BY Types, RelTimeout DEF LocalInv, Call
<1>4. Goes(call, call') /\ call'.at = "poll"
  BY <1>1, <1>3, CallGoes
<1> QED
  BY <1>1, <1>2, <1>4, GoesOn

LEMMA TickInv == ASSUME LocalInv, Tick PROVE LocalInv'
<1> DEFINE n == call.budget - 1
           m == IF call.spent < limit THEN call.spent + 1 ELSE call.spent
           c == [call EXCEPT !.budget = n]
<1>1. /\ call.at = "poll" /\ UNCHANGED <<hw, kern, dev, buf, limit>> /\ call.budget > 0
      /\ call' = [call EXCEPT !.budget = n, !.spent = m]
  BY DEF Tick
<1>2. dev.is_hs => dev.last = -1
  BY <1>1, CallState
<1>3. call \in Call /\ call.spent \in Nat /\ call.budget \in Nat \cup {-1}
  BY Types DEF LocalInv, Call
<1>4. n \in Nat \cup {-1} /\ m \in Nat
  BY <1>1, <1>3
<1>5. call' = [c EXCEPT !.spent = m]
  BY <1>1
<1> HIDE DEF n, m
<1>6. Goes(call, c) /\ c.at = "poll" /\ c \in Call
  <2>1. Goes(call, c) /\ c.at = call.at
    BY <1>3, <1>4, CallGoes
  <2> QED
    BY <1>1, <2>1 DEF Goes
<1>7. Goes(c, call') /\ call'.at = "poll"
  BY <1>4, <1>5, <1>6, CallGoes
<1>8. Goes(call, call')
  BY <1>6, <1>7 DEF Goes
<1> QED
  BY <1>1, <1>2, <1>7, <1>8, GoesOn

LEMMA PollInv == ASSUME LocalInv, Poll PROVE LocalInv'
<1>1. call.at = "poll" /\ UNCHANGED <<hw, limit>>
  BY DEF Poll
<1>2. CASE Fail("EBADF") \/ Fail("ETIMEDOUT")
  BY <1>1, <1>2, CallFails
<1>3. CASE /\ dev.cancel = "quiet" /\ call' = [call EXCEPT !.at = "move"]
           /\ UNCHANGED <<kern, dev, buf>>
  <2>1. dev.is_hs => dev.last = -1
    BY <1>1, CallState
  <2>2. Goes(call, call') /\ call'.at = "move"
    BY <1>3, CallGoes, Types DEF LocalInv
  <2>3. ~call.late
    BY <1>3 DEF LocalInv, LateMovesNothing
  <2> QED
    BY <1>1, <1>3, <2>1, <2>2, <2>3, GoesOn
<1> QED
  BY <1>2, <1>3 DEF Poll

LEMMA PollFailsInv == ASSUME LocalInv, PollFails PROVE LocalInv'
  BY CallFails DEF PollFails

LEMMA MoveFailsInv == ASSUME LocalInv, MoveFails PROVE LocalInv'
  BY CallFails DEF MoveFails

LEMMA DequeueNoneInv == ASSUME LocalInv, DequeueNone PROVE LocalInv'
<1>1. call.at = "move" /\ UNCHANGED <<hw, limit>>
  BY DEF DequeueNone
<1>2. CASE Fail("EAGAIN")
  BY <1>1, <1>2, CallFails
<1>3. CASE call' = [call EXCEPT !.at = "check"] /\ UNCHANGED <<kern, dev, buf>>
  <2>1. dev.is_hs => dev.last = -1
    BY <1>1, CallState
  <2>2. Goes(call, call') /\ call'.at = "check"
    BY <1>3, CallGoes, Types DEF LocalInv
  <2> QED
    BY <1>1, <1>3, <2>1, <2>2, GoesOn
<1> QED
  BY <1>2, <1>3 DEF DequeueNone

LEMMA EnqueueInv == ASSUME LocalInv, Enqueue PROVE LocalInv'
<1>1. /\ call.at = "enqueue" /\ dev.last >= 0 /\ ~dev.cyclic
      /\ kern.holder[dev.last] = "app" /\ kern' = [kern EXCEPT !.holder[dev.last] = "queued"]
      /\ dev' = [dev EXCEPT !.last = -1]
      /\ call' = [call EXCEPT !.at = "check", !.gave = TRUE] /\ UNCHANGED <<hw, limit>>
  BY DEF Enqueue
<1>2. kern \in Kern /\ dev \in Pdata /\ buf \in Buffer /\ call \in Call
  BY Types DEF LocalInv
<1>3. /\ Set(dev, kern) /\ buf.made /\ dev.is_hs
      /\ call.op \in {"refill"} \cup Output
  BY <1>1, CallState
<1>4. dev.last \in BlockIds
  BY <1>1, <1>2 DEF Pdata
<1>5. /\ kern' \in Kern /\ kern'.enabled = kern.enabled /\ kern'.chans = kern.chans
      /\ kern'.fds = kern.fds /\ kern'.maps = kern.maps
      /\ \A b \in BlockIds :
           kern'.holder[b] = IF b = dev.last THEN "queued" ELSE kern.holder[b]
  BY <1>1, <1>2, <1>4 DEF Kern, Holders
<1>6. /\ dev' \in Pdata /\ dev'.open = dev.open /\ dev'.is_hs = dev.is_hs
      /\ dev'.cyclic = dev.cyclic /\ dev'.enqueued = dev.enqueued /\ dev'.mask = dev.mask
      /\ dev'.blocks = dev.blocks /\ dev'.last = -1 /\ dev'.cancel = dev.cancel
      /\ dev'.blocking = dev.blocking
  BY <1>1, <1>2 DEF Pdata
<1>7. Goes(call, call') /\ call'.at = "check"
  BY <1>1, <1>2 DEF Call, Goes
<1>8. call.op \in Output <=> ~hw.input
  BY <1>3 DEF LocalInv, CallFits, Output
<1>9. buf.owed = 0
  BY <1>1, <1>3, <1>2 DEF LocalInv, OwedIsOne, Pdata, BlockIds
<1>10. /\ buf' \in Buffer /\ buf'.made /\ buf'.ptr = buf.ptr
       /\ buf'.data_length = buf.data_length
       /\ buf'.owed = IF hw.input THEN 0 ELSE 1
  <2>1. CASE call.op \in Output
    <3>1. buf' = [buf EXCEPT !.owed = @ + 1]
      BY <2>1 DEF Enqueue
    <3> QED
      BY <1>2, <1>3, <1>8, <1>9, <2>1, <3>1 DEF Buffer
  <2>2. CASE call.op \notin Output
    <3>1. buf' = buf
      BY <2>2 DEF Enqueue
    <3> QED
      BY <1>2, <1>3, <1>8, <1>9, <2>2, <3>1
  <2> QED
    BY <2>1, <2>2
<1>11. \A b \in BlockIds : b # -1
  BY Constants
<1>12. TypeOK'
  BY <1>1, <1>5, <1>6, <1>7, <1>10, Types
     DEF LocalInv, TypeOK, Kern, Pdata, Buffer, Call, Holders, Goes
<1>13. DeviceSet'
  BY <1>1, <1>3, <1>4, <1>5, <1>6, <1>10 DEF DeviceSet, Set
<1>14. CallFits'
  BY <1>1, <1>3, <1>6, <1>7, <1>8, <1>10 DEF CallFits, Goes, Output
<1>15. BlocksHeld'
  BY <1>1, <1>3, <1>4, <1>5, <1>6, <1>11 DEF LocalInv, BlocksHeld, Set
<1>16. OwedIsOne'
  BY <1>1, <1>3, <1>6, <1>10 DEF OwedIsOne
<1>17. MovedAndLeft'
  BY <1>7, <1>10 DEF LocalInv, MovedAndLeft, Goes
<1>18. LateMovesNothing'
  BY <1>6, <1>7 DEF LocalInv, LateMovesNothing, Goes
<1> QED
  BY <1>12, <1>13, <1>14, <1>15, <1>16, <1>17, <1>18 DEF LocalInv

LEMMA EnqueueFailsInv == ASSUME LocalInv, EnqueueFails PROVE LocalInv'
<1>1. /\ call.at = "enqueue" /\ dev.last >= 0 /\ ~(dev.cyclic /\ dev.enqueued)
      /\ dev' = [dev EXCEPT !.enqueued = dev.cyclic] /\ call' = NoCall
      /\ buf' = AfterCall(buf) /\ UNCHANGED <<hw, kern, limit>>
  BY DEF EnqueueFails, Return
<1>2. /\ hw \in [input : BOOLEAN, hs : BOOLEAN] /\ kern \in Kern /\ dev \in Pdata
      /\ buf \in Buffer /\ limit \in Timeouts
  BY Types DEF LocalInv
<1>3. Set(dev, kern) /\ buf.made /\ dev.is_hs /\ call.op # "create"
  BY <1>1, CallState
<1>4. /\ dev' \in Pdata /\ dev'.open = dev.open /\ dev'.is_hs = dev.is_hs
      /\ dev'.cyclic = dev.cyclic /\ dev'.enqueued = dev.cyclic /\ dev'.mask = dev.mask
      /\ dev'.blocks = dev.blocks /\ dev'.last = dev.last
  BY <1>1, <1>2 DEF Pdata
<1>5. /\ buf' \in Buffer /\ buf'.made /\ buf'.ptr = buf.ptr /\ buf'.owed = buf.owed
      /\ call.op \in Output => buf'.data_length = Length
      /\ call.op \notin Output => buf' = buf
  BY <1>1, <1>2, <1>3, AfterCallIsTyped
<1>6. call'.op = "none" /\ call'.at = "idle" /\ ~call'.late /\ call' \in Call
  BY <1>1, NoneAreTyped DEF NoCall
<1>7. TypeOK'
  BY <1>1, <1>2, <1>4, <1>5, <1>6, Types DEF TypeOK, Kern, Pdata, Buffer, Call, Holders
<1>8. DeviceSet'
  BY <1>1, <1>3, <1>4, <1>5 DEF DeviceSet, Set
<1>9. CallFits'
  BY <1>1, <1>6 DEF CallFits, Output
<1>10. BlocksHeld'
  BY <1>1, <1>3, <1>4, <1>5, <1>6 DEF LocalInv, BlocksHeld, Set
<1>11. OwedIsOne'
  BY <1>1, <1>3, <1>4, <1>5 DEF LocalInv, OwedIsOne
<1>12. MovedAndLeft' /\ LateMovesNothing'
  BY <1>5, <1>6 DEF LocalInv, MovedAndLeft, LateMovesNothing, Output
<1> QED
  BY <1>7, <1>8, <1>9, <1>10, <1>11, <1>12 DEF LocalInv

LEMMA EnqueueCyclicInv == ASSUME LocalInv, EnqueueCyclic PROVE LocalInv'
<1>1. /\ call.at = "enqueue" /\ dev.last >= 0 /\ dev.cyclic /\ call' = NoCall
      /\ buf' = AfterCall(buf) /\ UNCHANGED <<hw, limit>>
  BY DEF EnqueueCyclic, Return
<1>2. /\ hw \in [input : BOOLEAN, hs : BOOLEAN] /\ kern \in Kern /\ dev \in Pdata
      /\ buf \in Buffer /\ limit \in Timeouts
  BY Types DEF LocalInv
<1>3. Set(dev, kern) /\ buf.made /\ dev.is_hs /\ call.op # "create"
  BY <1>1, CallState
<1>4. CASE dev.enqueued
  BY <1>1, <1>3, <1>4, Returns DEF EnqueueCyclic
<1>5. CASE ~dev.enqueued
  <2>1. /\ kern' = [kern EXCEPT !.holder[dev.last] = "queued"]
        /\ dev' = [dev EXCEPT !.enqueued = TRUE]
    BY <1>5 DEF EnqueueCyclic
  <2>2. dev.last \in BlockIds /\ kern.holder[dev.last] = "app"
    BY <1>1, <1>2, <1>3, <1>5 DEF LocalInv, BlocksHeld, Set, Pdata
  <2>3. /\ kern' \in Kern /\ kern'.enabled = kern.enabled /\ kern'.chans = kern.chans
        /\ kern'.fds = kern.fds /\ kern'.maps = kern.maps
        /\ \A b \in BlockIds :
             kern'.holder[b] = IF b = dev.last THEN "queued" ELSE kern.holder[b]
    BY <1>2, <2>1, <2>2 DEF Kern, Holders
  <2>4. /\ dev' \in Pdata /\ dev'.open = dev.open /\ dev'.is_hs = dev.is_hs
        /\ dev'.cyclic = dev.cyclic /\ dev'.enqueued /\ dev'.mask = dev.mask
        /\ dev'.blocks = dev.blocks /\ dev'.last = dev.last
    BY <1>2, <2>1 DEF Pdata
  <2>5. /\ buf' \in Buffer /\ buf'.made /\ buf'.ptr = buf.ptr /\ buf'.owed = buf.owed
        /\ call.op \in Output => buf'.data_length = Length
        /\ call.op \notin Output => buf' = buf
    BY <1>1, <1>2, <1>3, AfterCallIsTyped
  <2>6. call'.op = "none" /\ call'.at = "idle" /\ ~call'.late /\ call' \in Call
    BY <1>1, NoneAreTyped DEF NoCall
  <2>7. TypeOK'
    BY <1>1, <1>2, <2>3, <2>4, <2>5, <2>6, Types
       DEF TypeOK, Kern, Pdata, Buffer, Call, Holders
  <2>8. DeviceSet'
    BY <1>1, <1>3, <2>2, <2>3, <2>4, <2>5 DEF DeviceSet, Set
  <2>9. CallFits'
    BY <1>1, <2>6 DEF CallFits, Output
  <2>10. BlocksHeld'
    BY <1>1, <2>4, <2>6 DEF BlocksHeld
  <2>11. OwedIsOne'
    BY <1>1, <1>3, <2>4, <2>5 DEF LocalInv, OwedIsOne
  <2>12. MovedAndLeft' /\ LateMovesNothing'
    BY <2>5, <2>6 DEF LocalInv, MovedAndLeft, LateMovesNothing, Output
  <2> QED
    BY <2>7, <2>8, <2>9, <2>10, <2>11, <2>12 DEF LocalInv
<1> QED
  BY <1>4, <1>5

LEMMA DequeueInv == ASSUME LocalInv, Dequeue PROVE LocalInv'
<1>1. call.at = "move" /\ dev.is_hs /\ call' = NoCall /\ UNCHANGED <<hw, limit>>
  BY DEF Dequeue, Return
<1>2. PICK b \in Held("done") :
        /\ kern' = [kern EXCEPT !.holder[b] = "app"]
        /\ dev' = [dev EXCEPT !.last = b]
        /\ buf' = AfterCall([buf EXCEPT !.made = TRUE, !.ptr = b,
                                        !.owed = IF call.op \in Output THEN @ - 1 ELSE @])
  BY DEF Dequeue
<1>3. /\ hw \in [input : BOOLEAN, hs : BOOLEAN] /\ kern \in Kern /\ dev \in Pdata
      /\ buf \in Buffer /\ limit \in Timeouts
  BY Types DEF LocalInv
<1>4. /\ Set(dev, kern) /\ dev.last = -1
      /\ call.op = "create" \/ buf.made
      /\ call.op \in {"create", "refill"} \cup Output
  BY <1>1, CallState
<1>5. b \in BlockIds /\ kern.holder[b] = "done"
  BY <1>2 DEF Held
<1>6. ~(dev.cyclic /\ dev.enqueued) /\ \A a \in BlockIds : kern.holder[a] # "app"
  <2>1. \A a \in BlockIds : a # -1
    BY Constants
  <2>2. dev.open /\ ~(dev.last >= 0)
    BY <1>4 DEF Set
  <2>3. ~(dev.cyclic /\ dev.enqueued)
    BY <1>1, <2>2 DEF LocalInv, BlocksHeld
  <2>4. \A a \in BlockIds : kern.holder[a] = "app" <=> a = dev.last
    BY <1>1, <2>2, <2>3 DEF LocalInv, BlocksHeld
  <2> QED
    BY <1>4, <2>1, <2>3, <2>4
<1>7. /\ kern' \in Kern /\ kern'.enabled = kern.enabled /\ kern'.chans = kern.chans
      /\ kern'.fds = kern.fds /\ kern'.maps = kern.maps
      /\ \A a \in BlockIds : kern'.holder[a] = IF a = b THEN "app" ELSE kern.holder[a]
  BY <1>2, <1>3, <1>5 DEF Kern, Holders
<1>8. /\ dev' \in Pdata /\ dev'.open = dev.open /\ dev'.is_hs = dev.is_hs
      /\ dev'.cyclic = dev.cyclic /\ dev'.enqueued = dev.enqueued /\ dev'.mask = dev.mask
      /\ dev'.blocks = dev.blocks /\ dev'.last = b
  BY <1>2, <1>3, <1>5 DEF Pdata
<1>9. buf.owed = IF call.op \in Output THEN 1 ELSE 0
  <2>1. CASE call.op = "create"
    BY <2>1 DEF LocalInv, OwedIsOne, CallFits, NoBuffer, Output
  <2>2. CASE call.op = "refill"
    BY <2>2 DEF LocalInv, OwedIsOne, CallFits, Output
  <2>3. CASE call.op \in Output
    <3>1. buf.made /\ ~hw.input /\ dev.last < 0
      BY <1>4, <2>3 DEF LocalInv, CallFits
    <3> QED
      BY <1>1, <2>3, <3>1 DEF LocalInv, OwedIsOne
  <2> QED
    BY <1>4, <2>1, <2>2, <2>3
<1> DEFINE n == IF call.op \in Output THEN buf.owed - 1 ELSE buf.owed
           f == [buf EXCEPT !.made = TRUE, !.ptr = b, !.owed = n]
<1>10. n = 0
  BY <1>9
<1>11. buf' = AfterCall(f)
  BY <1>2, <1>3 DEF Buffer
<1> HIDE DEF n
<1>12. f \in Buffer /\ f.made /\ f.ptr = b /\ f.owed = 0 /\ f.data_length = buf.data_length
  BY <1>3, <1>5, <1>10 DEF Buffer
<1> HIDE DEF f
<1>13. /\ buf' \in Buffer /\ buf'.made /\ buf'.ptr = b /\ buf'.owed = 0
       /\ call.op \in Output => buf'.data_length = Length
       /\ call.op \notin Output => buf'.data_length = buf.data_length
  BY <1>11, <1>12, AfterCallIsTyped
<1>14. call'.op = "none" /\ call'.at = "idle" /\ ~call'.late /\ call' \in Call
  BY <1>1, NoneAreTyped DEF NoCall
<1>15. TypeOK'
  BY <1>1, <1>3, <1>7, <1>8, <1>13, <1>14, Types
     DEF TypeOK, Kern, Pdata, Buffer, Call, Holders
<1>16. DeviceSet'
  <2>1. \A a \in BlockIds : kern'.holder[a] # "none" <=> a < dev'.blocks
    BY <1>4, <1>5, <1>7, <1>8 DEF Set
  <2>2. Set(dev', kern')
    BY <1>1, <1>4, <1>7, <1>8, <2>1 DEF Set
  <2> QED
    BY <1>1, <1>13, <2>2 DEF DeviceSet, Set
<1>17. CallFits'
  BY <1>1, <1>14 DEF CallFits, Output
<1>18. BlocksHeld'
  BY <1>5, <1>6, <1>7, <1>8, <1>13, <1>14 DEF BlocksHeld
<1>19. OwedIsOne'
  <2>1. ~(dev'.last < 0)
    BY <1>5, <1>8, Constants
  <2> QED
    BY <2>1, <1>13 DEF OwedIsOne
<1>20. MovedAndLeft' /\ LateMovesNothing'
  BY <1>13, <1>14 DEF LocalInv, MovedAndLeft, LateMovesNothing, Output
<1> QED
  BY <1>15, <1>16, <1>17, <1>18, <1>19, <1>20 DEF LocalInv

\* The driver's FIFO changes, and the device is as it was.
LEMMA FifoOnly ==
  ASSUME NEW k \in Kern, NEW n \in 0 .. Fifo
  PROVE  LET e == [k EXCEPT !.fifo = n]
         IN /\ e \in Kern /\ e.enabled = k.enabled /\ e.chans = k.chans /\ e.fds = k.fds
            /\ e.maps = k.maps /\ e.holder = k.holder
  BY DEF Kern

\* A call of a device without blocks, with its samples and those of the FIFO moved.
LEMMA MovesOn ==
  ASSUME LocalInv, call.at = "move", ~dev.is_hs, UNCHANGED <<hw, dev, buf, limit>>,
         kern' \in Kern, kern'.enabled = kern.enabled, kern'.chans = kern.chans,
         kern'.fds = kern.fds, kern'.maps = kern.maps, kern'.holder = kern.holder,
         call' \in Call, call'.at = "check", call'.op = call.op, call'.late = call.late,
         call.op \in {"refill"} \cup Output,
         call'.left + call'.moved + call'.whole = call.left + call.moved + call.whole,
         call.op = "refill" => call'.whole = call.whole
  PROVE  LocalInv'
<1>1. Set(dev, kern) /\ buf.made
  BY CallState DEF Output
<1>2. /\ call.left \in Nat /\ call.moved \in Nat /\ call.whole \in Nat
      /\ call'.left \in Nat /\ call'.moved \in Nat /\ call'.whole \in Nat
  BY Types, Constants DEF LocalInv, Call
<1>3. TypeOK'
  BY Types DEF LocalInv, TypeOK, Kern, Pdata, Buffer, Call, Holders
<1>4. DeviceSet'
  BY <1>1 DEF DeviceSet, Set
<1>5. CallFits'
  BY DEF LocalInv, CallFits, Output
<1>6. BlocksHeld' /\ OwedIsOne'
  BY <1>1 DEF LocalInv, BlocksHeld, OwedIsOne
<1>7. MovedAndLeft'
  BY <1>2 DEF LocalInv, MovedAndLeft, Output
<1>8. LateMovesNothing'
  <2>1. call.late => ~dev.blocking /\ dev.cancel = "signalled"
    BY DEF LocalInv, LateMovesNothing
  <2> QED
    BY <2>1 DEF LateMovesNothing
<1> QED
  BY <1>3, <1>4, <1>5, <1>6, <1>7, <1>8 DEF LocalInv

\* The same for one that returns.
LEMMA MovesAndReturns ==
  ASSUME LocalInv, call.at = "move", ~dev.is_hs, UNCHANGED <<hw, dev, limit>>,
         kern' \in Kern, kern'.enabled = kern.enabled, kern'.chans = kern.chans,
         kern'.fds = kern.fds, kern'.maps = kern.maps, kern'.holder = kern.holder,
         call.op \in {"refill"} \cup Output, call' = NoCall, buf' = AfterCall(buf)
  PROVE  LocalInv'
<1>1. Set(dev, kern) /\ buf.made
  BY CallState DEF Output
<1>2. hw \in [input : BOOLEAN, hs : BOOLEAN] /\ dev \in Pdata /\ buf \in Buffer
      /\ limit \in Timeouts
  BY Types DEF LocalInv
<1>3. /\ buf' \in Buffer /\ buf'.made /\ buf'.ptr = buf.ptr /\ buf'.owed = buf.owed
      /\ call.op \in Output => buf'.data_length = Length
      /\ call.op \notin Output => buf' = buf
  BY <1>1, <1>2, AfterCallIsTyped
<1>4. call'.op = "none" /\ call'.at = "idle" /\ ~call'.late /\ call' \in Call
  BY NoneAreTyped DEF NoCall
<1>5. TypeOK'
  BY <1>2, <1>3, <1>4, Types DEF TypeOK, Kern, Pdata, Buffer, Call, Holders
<1>6. DeviceSet'
  BY <1>1, <1>3 DEF DeviceSet, Set
<1>7. CallFits'
  BY <1>4 DEF CallFits, Output
<1>8. BlocksHeld' /\ OwedIsOne'
  BY <1>1, <1>3 DEF LocalInv, BlocksHeld, OwedIsOne
<1>9. MovedAndLeft' /\ LateMovesNothing'
  BY <1>3, <1>4 DEF LocalInv, MovedAndLeft, LateMovesNothing, Output
<1> QED
  BY <1>5, <1>6, <1>7, <1>8, <1>9 DEF LocalInv

LEMMA ReadInv == ASSUME LocalInv, Read PROVE LocalInv'
<1>1. /\ call.at = "move" /\ ~dev.is_hs /\ call.op = "refill"
      /\ UNCHANGED <<hw, dev, buf, limit>>
  BY DEF Read
<1>2. PICK k \in 1 .. call.left :
        LET c == [call EXCEPT !.left = @ - k, !.moved = @ + k]
        IN /\ k <= kern.fifo /\ kern' = [kern EXCEPT !.fifo = @ - k]
           /\ IF c.left > 0 THEN call' = [c EXCEPT !.at = "check"] ELSE call' = NoCall
  BY DEF Read
<1>3. kern \in Kern /\ call \in Call
  BY Types DEF LocalInv
<1>4. kern.fifo - k \in 0 .. Fifo
  BY <1>2, <1>3, Constants DEF Kern, Call
<1>5. /\ kern' \in Kern /\ kern'.enabled = kern.enabled /\ kern'.chans = kern.chans
      /\ kern'.fds = kern.fds /\ kern'.maps = kern.maps /\ kern'.holder = kern.holder
  BY <1>2, <1>3, <1>4, FifoOnly
<1> DEFINE l == call.left - k
           m == call.moved + k
<1>6. /\ call.left + call.moved = Length /\ call.whole = 0
  BY <1>1 DEF LocalInv, MovedAndLeft
<1>7. l \in 0 .. Length /\ m \in 0 .. Length /\ l + m = call.left + call.moved
  BY <1>2, <1>3, <1>6, Constants DEF Call
<1>8. CASE call' = [call EXCEPT !.left = l, !.moved = m, !.at = "check"]
  <2> HIDE DEF l, m
  <2>1. /\ call' \in Call /\ call'.at = "check" /\ call'.op = call.op
        /\ call'.late = call.late /\ call'.left = l /\ call'.moved = m
        /\ call'.whole = call.whole
    BY <1>3, <1>7, <1>8 DEF Call
  <2> QED
    BY <1>1, <1>5, <1>6, <1>7, <2>1, MovesOn
<1>9. CASE call' = NoCall
  <2>1. buf' = AfterCall(buf)
    BY <1>1 DEF AfterCall, Output
  <2> QED
    BY <1>1, <1>5, <1>9, <2>1, MovesAndReturns
<1> QED
  BY <1>2, <1>8, <1>9

\* A blocking call that is told that there was nothing goes round again.
LEMMA GoesRound ==
  ASSUME LocalInv, call.at = "move", ~dev.is_hs, UNCHANGED <<hw, kern, dev, buf, limit>>,
         call' = [call EXCEPT !.at = "check"]
  PROVE  LocalInv'
<1>1. call \in Call
  BY Types DEF LocalInv
<1>2. Goes(call, call') /\ call'.at = "check"
  BY <1>1, CallGoes
<1> QED
  BY <1>2, GoesOn

LEMMA ReadNoneInv == ASSUME LocalInv, ReadNone PROVE LocalInv'
<1>1. /\ call.at = "move" /\ call.op = "refill" /\ ~dev.is_hs
      /\ UNCHANGED <<hw, kern, dev, buf, limit>>
  BY DEF ReadNone
<1>2. CASE call' = [call EXCEPT !.at = "check"]
  BY <1>1, <1>2, GoesRound
<1>3. CASE call' = NoCall
  <2>1. buf' = AfterCall(buf)
    BY <1>1 DEF AfterCall, Output
  <2> QED
    BY <1>1, <1>3, <2>1, Returns
<1> QED
  BY <1>2, <1>3 DEF ReadNone, Return

LEMMA WriteInv == ASSUME LocalInv, Write PROVE LocalInv'
<1>1. /\ call.at = "move" /\ ~dev.is_hs /\ call.op \in Output /\ UNCHANGED <<hw, dev, limit>>
  BY DEF Write
<1>2. PICK k \in 1 .. call.left :
        LET c == [call EXCEPT !.left = @ - k, !.moved = @ + k]
        IN /\ k <= Fifo - kern.fifo /\ kern' = [kern EXCEPT !.fifo = @ + k]
           /\ IF c.left > 0 THEN call' = [c EXCEPT !.at = "check"] /\ UNCHANGED buf
              ELSE call' = NoCall /\ buf' = AfterCall(buf)
  BY DEF Write
<1>3. kern \in Kern /\ call \in Call /\ buf \in Buffer
  BY Types DEF LocalInv
<1>4. kern.fifo + k \in 0 .. Fifo
  BY <1>2, <1>3, Constants DEF Kern, Call
<1>5. /\ kern' \in Kern /\ kern'.enabled = kern.enabled /\ kern'.chans = kern.chans
      /\ kern'.fds = kern.fds /\ kern'.maps = kern.maps /\ kern'.holder = kern.holder
  BY <1>2, <1>3, <1>4, FifoOnly
<1> DEFINE l == call.left - k
           m == call.moved + k
<1>6. call.left + call.moved + call.whole = buf.data_length /\ buf.data_length <= Length
  BY <1>1, <1>3, Constants DEF LocalInv, MovedAndLeft, Buffer
<1>7. l \in 0 .. Length /\ m \in 0 .. Length /\ l + m = call.left + call.moved
  BY <1>2, <1>3, <1>6, Constants DEF Call
<1>8. CASE call' = [call EXCEPT !.left = l, !.moved = m, !.at = "check"] /\ UNCHANGED buf
  <2> HIDE DEF l, m
  <2>1. /\ call' \in Call /\ call'.at = "check" /\ call'.op = call.op
        /\ call'.late = call.late /\ call'.left = l /\ call'.moved = m
        /\ call'.whole = call.whole
    BY <1>3, <1>7, <1>8 DEF Call
  <2> QED
    BY <1>1, <1>5, <1>7, <1>8, <2>1, MovesOn
<1>9. CASE call' = NoCall /\ buf' = AfterCall(buf)
  BY <1>1, <1>5, <1>9, MovesAndReturns
<1> QED
  BY <1>2, <1>8, <1>9

LEMMA WriteNoneInv == ASSUME LocalInv, WriteNone PROVE LocalInv'
<1>1. /\ call.at = "move" /\ ~dev.is_hs /\ call.op \in Output
      /\ UNCHANGED <<hw, kern, dev, limit>>
  BY DEF WriteNone
<1>2. kern \in Kern /\ call \in Call /\ buf \in Buffer
  BY Types DEF LocalInv
<1>3. CASE ~dev.blocking /\ call.moved > 0
  <2> DEFINE w == call.whole + call.moved
  <2>1. /\ call' = [call EXCEPT !.at = "check", !.whole = w, !.moved = 0, !.spent = 0]
        /\ UNCHANGED buf
    BY <1>3 DEF WriteNone
  <2>2. call.left + call.moved + call.whole = buf.data_length /\ buf.data_length <= Length
    BY <1>1, <1>2, Constants DEF LocalInv, MovedAndLeft, Buffer
  <2>3. w \in 0 .. Length /\ 0 \in 0 .. Length /\ w = call.whole + call.moved
    BY <1>2, <2>2, Constants DEF Call
  <2>4. call.left \in Nat /\ call.moved \in Nat /\ call.whole \in Nat
    BY <1>2, Constants DEF Call
  <2> HIDE DEF w
  <2>5. /\ call' \in Call /\ call'.at = "check" /\ call'.op = call.op
        /\ call'.late = call.late /\ call'.left = call.left /\ call'.moved = 0
        /\ call'.whole = w
    BY <1>2, <2>1, <2>3 DEF Call
  <2>6. call'.left + call'.moved + call'.whole = call.left + call.moved + call.whole
    BY <2>3, <2>4, <2>5
  <2>7. call.op # "refill"
    BY <1>1 DEF Output
  <2> QED
    BY <1>1, <1>2, <2>1, <2>5, <2>6, <2>7, MovesOn
<1>4. CASE ~dev.blocking /\ ~(call.moved > 0)
  <2>1. call' = NoCall /\ buf' = AfterCall(buf)
    BY <1>4 DEF WriteNone, Return
  <2> QED
    BY <1>1, <1>2, <2>1, MovesAndReturns
<1>5. CASE dev.blocking
  BY <1>1, <1>5, GoesRound DEF WriteNone
<1> QED
  BY <1>3, <1>4, <1>5

LEMMA DeviceInv == ASSUME LocalInv, Device PROVE LocalInv'
<1>1. dev.open /\ UNCHANGED <<hw, dev, buf, call, limit>>
  BY DEF Device
<1>2. kern \in Kern /\ (buf.made \/ call.op = "create") /\ Set(dev, kern)
  BY <1>1, Types DEF LocalInv, DeviceSet, Shut
<1>3. /\ kern' \in Kern /\ kern'.enabled = kern.enabled /\ kern'.chans = kern.chans
      /\ kern'.fds = kern.fds /\ kern'.maps = kern.maps
      /\ \A b \in BlockIds : /\ kern'.holder[b] # "none" <=> kern.holder[b] # "none"
                             /\ kern'.holder[b] = "app" <=> kern.holder[b] = "app"
  <2>1. CASE dev.is_hs
    <3>1. PICK b \in Held("queued") : kern' = [kern EXCEPT !.holder[b] = "done"]
      BY <2>1 DEF Device
    <3>2. b \in BlockIds /\ kern.holder[b] = "queued"
      BY <3>1 DEF Held
    <3> QED
      BY <1>2, <3>1, <3>2 DEF Kern, Holders
  <2>2. CASE ~dev.is_hs
    <3>1. PICK n \in 0 .. Fifo : kern' = [kern EXCEPT !.fifo = n]
      BY <1>2, <2>2, Constants DEF Device, Kern
    <3> QED
      BY <1>2, <3>1, FifoOnly
  <2> QED
    BY <2>1, <2>2
<1>4. TypeOK'
  BY <1>1, <1>3, Types DEF LocalInv, TypeOK, Kern, Pdata, Buffer, Call, Holders
<1>5. DeviceSet'
  BY <1>1, <1>2, <1>3 DEF DeviceSet, Set
<1>6. CallFits' /\ OwedIsOne' /\ MovedAndLeft' /\ LateMovesNothing'
  BY <1>1 DEF LocalInv, CallFits, OwedIsOne, MovedAndLeft, LateMovesNothing, NoBuffer, NoCall
<1>7. BlocksHeld'
  BY <1>1, <1>3 DEF LocalInv, BlocksHeld
<1> QED
  BY <1>4, <1>5, <1>6, <1>7 DEF LocalInv

-----------------------------------------------------------------------------
(* What the calls return. *)

\* A call that has given its block has none left.
GaveLast ==
  call.gave => call.op # "create" /\ call.at \in {"check", "poll", "move"} /\ dev.last = -1

Told == ReturnsWhatWasMoved /\ CancelIsFinal

\* Of steps that end the call, or leave it as it was and the blocks alone.
LEMMA GaveEnds == ASSUME call' = NoCall PROVE GaveLast'
  BY DEF GaveLast, NoCall

LEMMA GaveStays ==
  ASSUME GaveLast, call'.gave = call.gave, call'.op = call.op, dev'.last = dev.last,
         call'.at \in {"check", "poll", "move"} \/ call'.at = call.at
  PROVE  GaveLast'
  BY DEF GaveLast

\* The call goes on from one stage to another.
LEMMA GaveGoes ==
  ASSUME LocalInv, GaveLast, dev' = dev,
         \/ \E a \in {"check", "poll", "move"} : call' = [call EXCEPT !.at = a]
         \/ \E n \in Nat \cup {-1} : call' = [call EXCEPT !.at = "poll", !.budget = n]
         \/ call.at = "poll" /\ \E n, m : call' = [call EXCEPT !.budget = n, !.spent = m]
  PROVE  GaveLast'
<1>1. call \in Call
  BY Types DEF LocalInv
<1>2. call'.gave = call.gave /\ call'.op = call.op /\ call'.at \in {"check", "poll", "move"}
  BY <1>1 DEF Call
<1> QED
  BY <1>2, GaveStays

LEMMA EnqueueGave ==
  ASSUME LocalInv, GaveLast, Enqueue \/ EnqueueFails \/ EnqueueCyclic \/ NothingToEnqueue
  PROVE  GaveLast'
<1>1. dev \in Pdata /\ call \in Call
  BY Types DEF LocalInv
<1>2. CASE Enqueue
  <2>1. /\ call.at = "enqueue" /\ dev' = [dev EXCEPT !.last = -1]
        /\ call' = [call EXCEPT !.at = "check", !.gave = TRUE]
    BY <1>2 DEF Enqueue
  <2>2. call.op # "create"
    BY <2>1 DEF LocalInv, CallFits
  <2> QED
    BY <1>1, <2>1, <2>2 DEF GaveLast, Pdata, Call
<1>3. CASE NothingToEnqueue
  BY <1>3, GaveGoes DEF NothingToEnqueue
<1>4. CASE EnqueueFails \/ EnqueueCyclic
  BY <1>4, GaveEnds DEF EnqueueFails, EnqueueCyclic, Return
<1> QED
  BY <1>2, <1>3, <1>4

LEMMA PollGave ==
  ASSUME LocalInv, GaveLast, CheckReady \/ Tick \/ PollFails \/ Poll \/ Interrupted
  PROVE  GaveLast'
<1>1. call \in Call /\ limit \in Nat
  BY Types, Constants DEF LocalInv
<1>2. CASE CheckReady
  <2>1. get_rel_timeout(call.spent) \in Nat \cup {-1}
    BY <1>1, Constants DEF get_rel_timeout, Call
  <2> QED
    BY <1>2, <2>1, GaveGoes DEF CheckReady
<1>3. CASE Interrupted
  <2>1. /\ call.at = "poll" /\ dev' = dev
        /\ \E n : call' = [call EXCEPT !.budget = n]
    BY <1>3 DEF Interrupted
  <2>2. call'.gave = call.gave /\ call'.op = call.op /\ call'.at = "poll"
    BY <1>1, <2>1 DEF Call
  <2> QED
    BY <2>1, <2>2, GaveStays
<1>4. CASE Tick
  <2>1. /\ call.at = "poll" /\ dev' = dev
        /\ \E n, m : call' = [call EXCEPT !.budget = n, !.spent = m]
    BY <1>4 DEF Tick
  <2> QED
    BY <2>1, GaveGoes
<1>5. CASE PollFails
  BY <1>5, GaveEnds DEF PollFails, Fail, Return
<1>6. CASE Poll
  <2>1. CASE Fail("EBADF") \/ Fail("ETIMEDOUT")
    BY <2>1, GaveEnds DEF Fail, Return
  <2>2. CASE call' = [call EXCEPT !.at = "move"] /\ dev' = dev
    BY <2>2, GaveGoes
  <2> QED
    BY <1>6, <2>1, <2>2 DEF Poll
<1> QED
  BY <1>2, <1>3, <1>4, <1>5, <1>6

LEMMA MoveGave ==
  ASSUME LocalInv, GaveLast,
         \/ Dequeue \/ DequeueNone \/ MoveFails
         \/ Read \/ ReadNone \/ Write \/ WriteNone
  PROVE  GaveLast'
<1>1. call \in Call
  BY Types DEF LocalInv
<1>2. CASE call' = NoCall
  BY <1>2, GaveEnds
<1>3. CASE call' = [call EXCEPT !.at = "check"] /\ dev' = dev
  BY <1>3, GaveGoes
<1>4. CASE Dequeue \/ DequeueNone \/ MoveFails
  BY <1>2, <1>3, <1>4 DEF Dequeue, DequeueNone, MoveFails, Fail, Return
<1>5. CASE ReadNone
  BY <1>2, <1>3, <1>5 DEF ReadNone, Return
<1>6. CASE Read \/ Write
  <2>1. PICK k : LET c == [call EXCEPT !.left = @ - k, !.moved = @ + k]
                 IN call' = [c EXCEPT !.at = "check"] \/ call' = NoCall
    BY <1>6 DEF Read, Write
  <2>2. CASE call' = [call EXCEPT !.left = @ - k, !.moved = @ + k, !.at = "check"]
    <3>1. call'.gave = call.gave /\ call'.op = call.op /\ call'.at = "check"
      BY <1>1, <2>2 DEF Call
    <3> QED
      BY <1>6, <3>1, GaveStays DEF Read, Write
  <2> QED
    BY <1>2, <2>1, <2>2
<1>7. CASE WriteNone
  <2>1. CASE \E w : call' = [call EXCEPT !.at = "check", !.whole = w, !.moved = 0, !.spent = 0]
    <3>1. call'.gave = call.gave /\ call'.op = call.op /\ call'.at = "check"
      BY <1>1, <2>1 DEF Call
    <3> QED
      BY <1>7, <3>1, GaveStays DEF WriteNone
  <2> QED
    BY <1>2, <1>3, <1>7, <2>1 DEF WriteNone, Return
<1> QED
  BY <1>4, <1>5, <1>6, <1>7

\* The steps of no call, and those of the device and of the thread that cancels.
LEMMA OthersGave ==
  ASSUME LocalInv, GaveLast,
         \/ \E cyclic \in BOOLEAN : Create(cyclic)
         \/ Destroy
         \/ \E mask \in SUBSET Channels : Choose(mask)
         \/ \E n \in 1 .. MaxBlocks : SetKernelBuffers(n)
         \/ \E blocking \in BOOLEAN : SetBlocking(blocking)
         \/ \E timeout \in Timeouts : SetTimeout(timeout)
         \/ Cancel \/ Refill \/ Push \/ Device \/ UNCHANGED vars
  PROVE  GaveLast'
<1>1. dev \in Pdata
  BY Types DEF LocalInv
<1>2. Idle => call = NoCall
  BY DEF LocalInv, CallFits, Idle
<1>3. CASE Cancel
  <2>1. dev' = [dev EXCEPT !.cancel = "signalled"] /\ call' = call
    BY <1>3 DEF Cancel
  <2> QED
    BY <1>1, <2>1, GaveStays DEF Pdata
<1>4. CASE Device \/ UNCHANGED vars
  BY <1>4, GaveStays DEF Device, vars
<1>5. CASE ~call'.gave
  BY <1>5 DEF GaveLast
<1>6. CASE Refill \/ Push
  <2>1. \E op, want : call' = Begin(op, want)
    BY <1>6 DEF Refill, Push
  <2> QED
    BY <1>5, <2>1 DEF Begin, NoCall
<1>7. ASSUME NEW cyclic \in BOOLEAN, Create(cyclic) PROVE GaveLast'
  <2>1. Idle /\ (call' = call \/ call' = [NoCall EXCEPT !.op = "create", !.at = "check"])
    BY <1>7 DEF Create
  <2>2. ~NoCall.gave /\ ~[NoCall EXCEPT !.op = "create", !.at = "check"].gave
    BY DEF NoCall
  <2> QED
    BY <1>2, <1>5, <2>1, <2>2
<1>8. CASE Idle /\ call' = call
  BY <1>2, <1>5, <1>8 DEF NoCall
<1> QED
  BY <1>3, <1>4, <1>6, <1>7, <1>8
     DEF Destroy, Choose, SetKernelBuffers, SetBlocking, SetTimeout

\* Of steps that end no refill and no push.
LEMMA ToldNothing ==
  ASSUME ~last'.late, last'.op \notin {"push", "refill"},
         last'.ret = "ok" => last'.n = last'.moved
  PROVE  Told'
  BY DEF Told, ReturnsWhatWasMoved, CancelIsFinal

LEMMA ToldNoResult == ASSUME last' = NoResult PROVE Told'
  BY ToldNothing DEF NoResult

\* A call that fails has not been told to have moved anything, if it was cancelled before.
LEMMA ToldFailure ==
  ASSUME LocalInv, GaveLast, call.at # "idle", NEW ret, NEW n, Return(ret, n), ret # "ok",
         call.op = "create" \/ (dev'.blocking = dev.blocking /\ dev'.last = dev.last),
         ret = "EAGAIN" /\ call.op = "refill" => dev'.is_hs \/ call.moved = 0
  PROVE  Told'
<1>1. /\ last'.op = call.op /\ last'.ret = ret /\ last'.late = call.late
      /\ last'.moved = call.moved + call.whole /\ last'.gave = call.gave
  BY DEF Return, Result
<1>2. /\ call.op = "create" => ~call.late
      /\ call.op = "refill" => call.whole = 0
      /\ call.late /\ dev.blocking => call.moved = 0 /\ call.whole = 0
  BY DEF LocalInv, CallFits, MovedAndLeft, LateMovesNothing
<1>3. ReturnsWhatWasMoved'
  BY <1>1, <1>2 DEF ReturnsWhatWasMoved
<1>4. CancelIsFinal'
  <2>1. call.late /\ dev'.blocking => call.late /\ dev.blocking
    BY <1>2
  <2>2. call.late /\ dev'.blocking => call.moved + call.whole = 0
    BY <1>2, <2>1
  <2>3. call.late /\ call.gave => dev'.last = -1
    BY <1>2 DEF GaveLast
  <2> QED
    BY <1>1, <2>2, <2>3 DEF CancelIsFinal
<1> QED
  BY <1>3, <1>4 DEF Told

LEMMA ToldFail ==
  ASSUME LocalInv, GaveLast, call.at # "idle", NEW ret, Fail(ret), ret # "ok",
         ret = "EAGAIN" => dev.is_hs
  PROVE  Told'
<1>1. Return(ret, 0)
  BY DEF Fail
<1>2. call.op = "create" \/ dev' = dev
  BY DEF Fail
<1>3. call.op = "create" \/ (dev'.blocking = dev.blocking /\ dev'.last = dev.last)
  BY <1>2
<1>4. ret = "EAGAIN" /\ call.op = "refill" => dev'.is_hs \/ call.moved = 0
  BY <1>2
<1> QED
  BY <1>1, <1>3, <1>4, ToldFailure

\* A call that moves samples was not cancelled before it began, or does not block.
LEMMA ToldMove ==
  ASSUME LocalInv, call.at = "move", last'.late = call.late, dev'.blocking = dev.blocking,
         ReturnsWhatWasMoved'
  PROVE  Told'
  BY DEF Told, LocalInv, LateMovesNothing, CancelIsFinal

LEMMA EnqueueTold ==
  ASSUME LocalInv, GaveLast, Enqueue \/ EnqueueFails \/ EnqueueCyclic \/ NothingToEnqueue
  PROVE  Told'
<1>1. dev \in Pdata
  BY Types DEF LocalInv
<1>2. CASE Enqueue \/ NothingToEnqueue
  BY <1>2, ToldNoResult DEF Enqueue, NothingToEnqueue
<1>3. CASE EnqueueFails
  <2>1. dev'.blocking = dev.blocking /\ dev'.last = dev.last
    BY <1>1, <1>3 DEF EnqueueFails, Pdata
  <2>2. Return("EIO", 0) /\ call.at # "idle"
    BY <1>3 DEF EnqueueFails
  <2> QED
    BY <2>1, <2>2, ToldFailure
<1>4. CASE EnqueueCyclic
  <2>1. call.at = "enqueue" /\ dev.cyclic
    BY <1>4 DEF EnqueueCyclic
  <2>2. dev.is_hs
    BY <2>1, CallState
  <2>3. dev'.is_hs /\ dev'.cyclic
    BY <1>1, <1>4, <2>1, <2>2 DEF EnqueueCyclic, Pdata
  <2> QED
    BY <2>3 DEF Told, ReturnsWhatWasMoved, CancelIsFinal
<1> QED
  BY <1>2, <1>3, <1>4

LEMMA PollTold ==
  ASSUME LocalInv, GaveLast, CheckReady \/ Tick \/ PollFails \/ Poll \/ Interrupted
  PROVE  Told'
<1>1. CASE CheckReady \/ Tick \/ Interrupted
  BY <1>1, ToldNoResult DEF CheckReady, Tick, Interrupted
<1>2. CASE PollFails
  BY <1>2, ToldFail DEF PollFails
<1>3. CASE Poll
  <2>1. CASE Fail("EBADF") \/ Fail("ETIMEDOUT")
    BY <1>3, <2>1, ToldFail DEF Poll
  <2>2. CASE last' = NoResult
    BY <2>2, ToldNoResult
  <2> QED
    BY <1>3, <2>1, <2>2 DEF Poll
<1> QED
  BY <1>1, <1>2, <1>3

LEMMA BlockTold ==
  ASSUME LocalInv, GaveLast, Dequeue \/ DequeueNone \/ MoveFails
  PROVE  Told'
<1>1. dev \in Pdata
  BY Types DEF LocalInv
<1>2. CASE Dequeue
  <2>1. dev.is_hs /\ call.at = "move" /\ Return("ok", call.left)
    BY <1>2 DEF Dequeue
  <2>2. PICK b \in Held("done") : dev' = [dev EXCEPT !.last = b]
    BY <1>2 DEF Dequeue
  <2>3. dev'.is_hs /\ dev'.blocking = dev.blocking
    BY <1>1, <2>1, <2>2 DEF Pdata
  <2>4. last'.late = call.late
    BY <2>1 DEF Return, Result
  <2> QED
    BY <2>1, <2>3, <2>4, ToldMove DEF ReturnsWhatWasMoved
<1>3. CASE DequeueNone
  <2>1. CASE last' = NoResult
    BY <2>1, ToldNoResult
  <2>2. CASE Fail("EAGAIN")
    BY <1>3, <2>2, ToldFail DEF DequeueNone
  <2> QED
    BY <1>3, <2>1, <2>2 DEF DequeueNone
<1>4. CASE MoveFails
  BY <1>4, ToldFail DEF MoveFails
<1> QED
  BY <1>2, <1>3, <1>4

LEMMA ReadTold == ASSUME LocalInv, GaveLast, Read \/ ReadNone PROVE Told'
<1>1. call.at = "move" /\ call.op = "refill" /\ dev' = dev
  BY DEF Read, ReadNone
<1>2. call.whole = 0 /\ call.moved \in Nat
  BY <1>1, Types, Constants DEF LocalInv, MovedAndLeft, Call
<1>3. CASE Read
  <2>1. CASE last' = NoResult
    BY <2>1, ToldNoResult
  <2>2. CASE \E n : last' = [op |-> call.op, ret |-> "ok", n |-> n, moved |-> n,
                             late |-> call.late, gave |-> call.gave]
    <3>1. /\ last'.op = "refill" /\ last'.ret = "ok" /\ last'.n = last'.moved
          /\ last'.late = call.late
      BY <1>1, <2>2
    <3> QED
      BY <1>1, <3>1, ToldMove DEF ReturnsWhatWasMoved
  <2>3. call \in Call
    BY Types DEF LocalInv
  <2>4. PICK k \in 1 .. call.left :
          LET c == [call EXCEPT !.left = @ - k, !.moved = @ + k]
          IN \/ last' = NoResult
             \/ last' = Result(c, "ok", c.moved)
    BY <1>3 DEF Read
  <2>5. \/ last' = NoResult
        \/ last' = [op |-> call.op, ret |-> "ok", n |-> call.moved + k,
                    moved |-> call.moved + k, late |-> call.late, gave |-> call.gave]
    <3> DEFINE m == call.moved + k
    <3>1. m + call.whole = m
      BY <1>2, <2>3 DEF Call
    <3> QED
      BY <1>2, <2>3, <2>4, <3>1 DEF Call, Result
  <2> QED
    BY <2>1, <2>2, <2>5
<1>4. CASE ReadNone
  <2>1. CASE Return("ok", call.moved)
    <3>1. /\ last'.op = "refill" /\ last'.ret = "ok" /\ last'.n = last'.moved
          /\ last'.late = call.late
      BY <1>1, <1>2, <2>1 DEF Return, Result
    <3> QED
      BY <1>1, <3>1, ToldMove DEF ReturnsWhatWasMoved
  <2>2. CASE Return("EAGAIN", 0) /\ ~(call.moved > 0)
    BY <1>1, <1>2, <2>2, ToldFailure
  <2>3. CASE last' = NoResult
    BY <2>3, ToldNoResult
  <2> QED
    BY <1>4, <2>1, <2>2, <2>3 DEF ReadNone
<1> QED
  BY <1>3, <1>4

LEMMA WriteTold == ASSUME LocalInv, GaveLast, Write \/ WriteNone PROVE Told'
<1>1. call.at = "move" /\ call.op \in Output /\ dev' = dev
  BY DEF Write, WriteNone
<1>2. /\ call \in Call /\ call.left \in Nat /\ call.moved \in Nat /\ call.whole \in Nat
      /\ call.left + call.moved + call.whole = buf.data_length
      /\ call.op = "push" => buf.data_length = Length
  BY <1>1, Types, Constants DEF LocalInv, MovedAndLeft, Call
<1>3. CASE Write
  <2>1. CASE last' = NoResult
    BY <2>1, ToldNoResult
  <2>2. CASE last' = [op |-> call.op, ret |-> "ok", n |-> buf.data_length,
                      moved |-> buf.data_length, late |-> call.late,
                      gave |-> call.gave]
    <3>1. /\ last'.op = call.op /\ last'.n = last'.moved /\ last'.late = call.late
          /\ last'.n = buf.data_length
      BY <2>2
    <3>2. last'.op # "refill"
      BY <1>1, <3>1 DEF Output
    <3>3. ReturnsWhatWasMoved'
      BY <1>2, <3>1, <3>2 DEF ReturnsWhatWasMoved
    <3> QED
      BY <1>1, <3>1, <3>3, ToldMove
  <2>3. PICK k \in 1 .. call.left :
          LET c == [call EXCEPT !.left = @ - k, !.moved = @ + k]
          IN \/ last' = NoResult
             \/ /\ ~(c.left > 0)
                /\ last' = Result(c, "ok", buf.data_length)
    BY <1>3 DEF Write
  <2>4. \/ last' = NoResult
        \/ /\ ~(call.left - k > 0)
           /\ last' = [op |-> call.op, ret |-> "ok", n |-> buf.data_length,
                       moved |-> call.moved + k + call.whole, late |-> call.late,
                       gave |-> call.gave]
    BY <1>2, <2>3 DEF Call, Result
  <2>5. ~(call.left - k > 0) => call.moved + k + call.whole = buf.data_length
    BY <1>2
  <2> QED
    BY <2>1, <2>2, <2>4, <2>5
<1>4. CASE WriteNone
  <2>1. CASE last' = NoResult
    BY <2>1, ToldNoResult
  <2>2. CASE Return("EAGAIN", 0)
    <3>1. call.op # "refill"
      BY <1>1 DEF Output
    <3> QED
      BY <1>1, <2>2, <3>1, ToldFailure
  <2> QED
    BY <1>4, <2>1, <2>2 DEF WriteNone
<1> QED
  BY <1>3, <1>4

LEMMA OpenTold ==
  ASSUME \/ \E cyclic \in BOOLEAN : Create(cyclic)
         \/ \E n \in 1 .. MaxBlocks : SetKernelBuffers(n)
         \/ \E blocking \in BOOLEAN : SetBlocking(blocking)
  PROVE  Told'
<1>1. CASE last' = NoResult
  BY <1>1, ToldNoResult
<1>2. CASE \E op \in {"create", "count", "blocking"} : \E ret :
             last' = [NoResult EXCEPT !.op = op, !.ret = ret]
  <2>1. ~last'.late /\ last'.op \in {"create", "count", "blocking"} /\ last'.n = last'.moved
    BY <1>2 DEF NoResult
  <2> QED
    BY <2>1, ToldNothing
<1>3. ASSUME NEW cyclic \in BOOLEAN, Create(cyclic)
      PROVE  last' = NoResult \/ \E ret : last' = [NoResult EXCEPT !.op = "create", !.ret = ret]
  BY <1>3 DEF Create
<1>4. ASSUME NEW n \in 1 .. MaxBlocks, SetKernelBuffers(n)
      PROVE  last' = NoResult \/ \E ret : last' = [NoResult EXCEPT !.op = "count", !.ret = ret]
  BY <1>4 DEF SetKernelBuffers
<1>5. ASSUME NEW blocking \in BOOLEAN, SetBlocking(blocking)
      PROVE  last' = NoResult
             \/ \E ret : last' = [NoResult EXCEPT !.op = "blocking", !.ret = ret]
  BY <1>5 DEF SetBlocking
<1> QED
  BY <1>1, <1>2, <1>3, <1>4, <1>5

-----------------------------------------------------------------------------
(* The theorems. *)

LEMMA InitLocal == Init => LocalInv /\ GaveLast /\ Told
<1> SUFFICES ASSUME Init PROVE LocalInv /\ GaveLast /\ Told
  OBVIOUS
<1>1. /\ kern = [enabled |-> FALSE, chans |-> {}, holder |-> [b \in BlockIds |-> "none"],
                 fifo |-> 0, fds |-> 0, maps |-> 0]
      /\ dev = [open |-> FALSE, cancel |-> "none", blocking |-> TRUE, cyclic |-> FALSE,
                enqueued |-> FALSE, is_hs |-> FALSE, max |-> MaxBlocks, blocks |-> 0,
                last |-> -1, mask |-> {}]
      /\ buf = NoBuffer /\ call = NoCall /\ last = NoResult
  BY DEF Init
<1>2. /\ kern \in Kern /\ kern.fds = 0 /\ kern.maps = 0
      /\ \A b \in BlockIds : kern.holder[b] = "none"
  BY <1>1, Constants DEF Kern, Holders
<1>3. dev \in Pdata /\ ~dev.open /\ dev.blocks = 0
  BY <1>1, Constants DEF Pdata
<1>4. TypeOK
  BY <1>1, <1>2, <1>3, NoneAreTyped, Types DEF Init
<1>5. ~buf.made /\ call.op = "none" /\ call.at = "idle" /\ ~call.late
      /\ buf.data_length = Length
  BY <1>1 DEF NoBuffer, NoCall
<1>6. DeviceSet
  BY <1>2, <1>3, <1>5 DEF DeviceSet, Shut
<1>7. CallFits /\ BlocksHeld /\ OwedIsOne /\ MovedAndLeft /\ LateMovesNothing
  BY <1>1, <1>3, <1>5
     DEF CallFits, BlocksHeld, OwedIsOne, MovedAndLeft, LateMovesNothing, Output
<1>8. Told
  BY <1>1 DEF Told, ReturnsWhatWasMoved, CancelIsFinal, NoResult
<1>9. GaveLast
  BY <1>1 DEF GaveLast, NoCall
<1> QED
  BY <1>4, <1>6, <1>7, <1>8, <1>9 DEF LocalInv

LEMMA GaveStep == LocalInv /\ GaveLast /\ [Next]_vars => GaveLast'
  BY EnqueueGave, PollGave, MoveGave, OthersGave DEF Next, InCall

LEMMA NextLocal ==
  LocalInv /\ GaveLast /\ Told /\ [Next]_vars => LocalInv' /\ GaveLast' /\ Told'
<1> SUFFICES ASSUME LocalInv, GaveLast, Told, [Next]_vars PROVE LocalInv' /\ Told'
  BY GaveStep
<1>1. CASE \E cyclic \in BOOLEAN : Create(cyclic)
  BY <1>1, CreateInv, OpenTold
<1>2. CASE Destroy
  BY <1>2, DestroyInv, ToldNoResult DEF Destroy
<1>3. CASE \E mask \in SUBSET Channels : Choose(mask)
  BY <1>3, ChooseInv, ToldNoResult DEF Choose
<1>4. CASE \E n \in 1 .. MaxBlocks : SetKernelBuffers(n)
  BY <1>4, SetKernelBuffersInv, OpenTold
<1>5. CASE \E blocking \in BOOLEAN : SetBlocking(blocking)
  BY <1>5, SetBlockingInv, OpenTold
<1>6. CASE \E timeout \in Timeouts : SetTimeout(timeout)
  BY <1>6, SetTimeoutInv, ToldNoResult DEF SetTimeout
<1>7. CASE Cancel
  BY <1>7, CancelInv, ToldNoResult DEF Cancel
<1>8. CASE Refill
  BY <1>8, RefillInv, ToldNoResult DEF Refill
<1>9. CASE Push
  BY <1>9, PushInv, ToldNoResult DEF Push
<1>10. CASE Enqueue \/ EnqueueFails \/ EnqueueCyclic \/ NothingToEnqueue
  BY <1>10, EnqueueInv, EnqueueFailsInv, EnqueueCyclicInv, NothingToEnqueueInv, EnqueueTold
<1>11. CASE CheckReady \/ Tick \/ PollFails \/ Poll \/ Interrupted
  BY <1>11, CheckReadyInv, TickInv, PollFailsInv, PollInv, InterruptedInv, PollTold
<1>12. CASE Dequeue \/ DequeueNone \/ MoveFails
  BY <1>12, DequeueInv, DequeueNoneInv, MoveFailsInv, BlockTold
<1>13. CASE Read \/ ReadNone
  BY <1>13, ReadInv, ReadNoneInv, ReadTold
<1>14. CASE Write \/ WriteNone
  BY <1>14, WriteInv, WriteNoneInv, WriteTold
<1>15. CASE Device
  BY <1>15, DeviceInv, ToldNoResult DEF Device
<1>16. CASE UNCHANGED vars
  <2>1. LocalInv'
    BY <1>16, ResultOnly DEF vars
  <2>2. Told'
    BY <1>16 DEF vars, Told, ReturnsWhatWasMoved, CancelIsFinal
  <2> QED
    BY <2>1, <2>2
<1> QED
  BY <1>1, <1>2, <1>3, <1>4, <1>5, <1>6, <1>7, <1>8, <1>9, <1>10, <1>11, <1>12, <1>13, <1>14,
     <1>15, <1>16 DEF Next, InCall

LEMMA InvLocal == Spec => [](LocalInv /\ GaveLast /\ Told)
  BY InitLocal, NextLocal, PTL DEF Spec

\* Every field of the driver's state, of iio_device_pdata, of the buffer and of the call
\* has a value that the program can give it, whatever call fails (local.c).
THEOREM LocalTypes == Spec => []TypeOK
<1>1. LocalInv => TypeOK
  BY DEF LocalInv
<1> QED
  BY <1>1, InvLocal, PTL

\* A block is the program's exactly while last_dequeued names it and the buffer points to
\* it, and the blocks of the driver are as many as nb_blocks (local_get_buffer).
THEOREM LocalBlocks == Spec => []BlocksHaveOneHolder
<1>1. LocalInv => BlocksHaveOneHolder
  <2> SUFFICES ASSUME LocalInv, dev.open, dev.is_hs, ~(dev.cyclic /\ dev.enqueued)
               PROVE  /\ Held("app") = IF dev.last < 0 THEN {} ELSE {dev.last}
                      /\ dev.last >= 0 => buf.ptr = dev.last
                      /\ Cardinality(BlockIds \ Held("none")) = dev.blocks
    BY DEF BlocksHaveOneHolder
  <2>1. /\ \A b \in BlockIds : kern.holder[b] = "app" <=> b = dev.last
        /\ dev.last >= 0 => buf.ptr = dev.last
    BY DEF LocalInv, BlocksHeld
  <2>2. dev.last \in BlockIds \cup {-1} /\ dev.blocks \in 0 .. MaxBlocks
    BY Types DEF LocalInv, Pdata
  <2>3. Held("app") = IF dev.last < 0 THEN {} ELSE {dev.last}
    BY <2>1, <2>2, Constants DEF Held
  <2>4. \A b \in BlockIds : kern.holder[b] # "none" <=> b < dev.blocks
    BY DEF LocalInv, DeviceSet, Set, Shut
  <2>5. BlockIds \ Held("none") = 0 .. dev.blocks - 1
    BY <2>2, <2>4, Constants DEF Held, BlockIds
  <2>6. Cardinality(0 .. dev.blocks - 1) = dev.blocks
    <3>1. 0 \in Int /\ dev.blocks - 1 \in Int /\ dev.blocks \in Nat
      BY <2>2, Constants
    <3>2. Cardinality(0 .. dev.blocks - 1) =
            IF 0 > dev.blocks - 1 THEN 0 ELSE dev.blocks - 1 - 0 + 1
      BY <3>1, FS_Interval
    <3> QED
      BY <3>1, <3>2
  <2> QED
    BY <2>1, <2>3, <2>5, <2>6
<1> QED
  BY <1>1, InvLocal, PTL

\* Whatever pushes failed and were tried again, the blocks enqueued are those of the pushes
\* that succeeded, and one more while such a push waits (last_dequeued in local_get_buffer).
THEOREM LocalPushes == Spec => []PushedOnce
<1>1. LocalInv => PushedOnce
  BY DEF LocalInv, OwedIsOne, PushedOnce
<1> QED
  BY <1>1, InvLocal, PTL

\* A buffer has its device enabled, with its channels and all of its blocks mapped; without
\* one nothing is left, at whichever step the open failed (local_open, local_close).
THEOREM LocalOpenOrClean == Spec => []OpenOrClean
<1>1. LocalInv => OpenOrClean
  <2> SUFFICES ASSUME LocalInv PROVE OpenOrClean
    OBVIOUS
  <2>1. buf.made => Set(dev, kern)
    BY DEF LocalInv, DeviceSet
  <2>2. Idle /\ ~buf.made => Shut(dev, kern)
    BY IdleState
  <2> QED
    BY <2>1, <2>2 DEF OpenOrClean, Set, Shut, Held
<1> QED
  BY <1>1, InvLocal, PTL

\* A refill or push returns what it has moved, also when it was given it in parts or had to
\* be called again (local_read, local_write, iio_buffer_push).
THEOREM LocalReturns == Spec => []ReturnsWhatWasMoved
<1>1. Told => ReturnsWhatWasMoved
  BY DEF Told
<1> QED
  BY <1>1, InvLocal, PTL

\* After iio_buffer_cancel no call that waits for the device succeeds or moves a sample,
\* whatever it was doing and however often it is tried (device_check_ready).
THEOREM LocalCancel == Spec => []CancelIsFinal
<1>1. Told => CancelIsFinal
  BY DEF Told
<1> QED
  BY <1>1, InvLocal, PTL

================================================================================
