----------------------------- MODULE IiodProofs -----------------------------
(* Theorems about the IIO daemon: about IiodServer, for any clients, buffers and *)
(* numbers of handles, and, at the end, about IiodDaemon, for any number of      *)
(* sessions, pipes and attempts.                                                 *)
EXTENDS IiodServer, IiodDaemon, FiniteSetTheorems, TLAPS

\* The handles on an entry.
Joined(e) == {t \in Handles : thds[t].entry = e}

\* Where the thread of an entry is until it leaves, and where it does not sleep.
Live == {"top", "asleep", "refill", "push", "pushing"}
Serving == {"top", "refill", "push", "pushing"}

\* A handle is on an entry, for samples that are not empty, or it is free.
Owned ==
  \A t \in Handles :
    IF thds[t].used
    THEN thds[t].entry \in EntryIds /\ thds[t].mask # {} /\ thds[t].count >= 1
    ELSE thds[t] = NewThd

\* The list of an entry has all its handles until the entry is closed.
Listed ==
  \A e \in EntryIds : entries[e].list = IF entries[e].closed THEN {} ELSE Joined(e)

Counted ==
  \A e \in EntryIds :
    entries[e].ref = Cardinality(Joined(e)) + (IF rw[e].pc = "none" THEN 0 ELSE 1)

\* An entry is closed when its thread leaves, and freed once nobody is on it.
Phases ==
  \A e \in EntryIds :
    /\ rw[e].pc \in Live => ~entries[e].closed
    /\ rw[e].pc = "leave" => entries[e].closed
    /\ rw[e].pc = "none" => entries[e].closed \/ entries[e] = NewEntry
    /\ entries[e].buf => ~entries[e].closed

\* A thread that has not left belongs to the entry new clients join.
Current ==
  /\ data # NoEntry => rw[data].pc # "none"
  /\ \A e \in EntryIds : rw[e].pc \in Live => data = e

Own(c) == {t \in Handles : t[1] = c /\ thds[t].used}

Injective(q) == \A i, j \in 1 .. Len(q) : q[i] = q[j] => i = j

\* The handles of a session are its own, and so is the one it is opening or using.
Held ==
  \A c \in Clients :
    /\ \A i \in 1 .. Len(handles[c]) : handles[c][i] \in Own(c)
    /\ Injective(handles[c])
    /\ sess[c].pc \in {"check", "open"} =>
         /\ sess[c].thd \in Own(c)
         /\ \A i \in 1 .. Len(handles[c]) : handles[c][i] # sess[c].thd
    /\ sess[c].pc \in {"ask", "rw"} =>
         handles[c] # <<>> /\ sess[c].thd = Head(handles[c])

\* The thread works on a buffer, of samples that are not empty.
Sized ==
  \A e \in EntryIds :
    /\ rw[e].pc \in {"asleep", "refill", "push", "pushing"} => entries[e].buf
    /\ rw[e].pc = "top" /\ ~entries[e].updateMask => entries[e].buf
    /\ entries[e].buf => entries[e].size >= 1
    /\ rw[e].pc \in {"refill", "push", "pushing"} => rw[e].size >= 1

ShareInv ==
  TypeOK /\ Owned /\ Listed /\ Counted /\ Phases /\ Current /\ Held /\ Sized

\* A request that is not over is known to the thread, or it became too small for it.
AskedAt(t, e) ==
  /\ thds[t].active => thds[t].nb >= 1 /\ rw[e].pc \in Serving
  /\ thds[t].nb >= 1 =>
       /\ t \in entries[e].list /\ thds[t].err = 0 /\ ~thds[t].waitForOpen
       /\ thds[t].active \/ thds[t].nb < entries[e].size
  /\ thds[t].waitForOpen =>
       t \in entries[e].list /\ entries[e].updateMask /\ rw[e].pc \in Serving

Asked == \A e \in EntryIds : \A t \in Joined(e) : AskedAt(t, e)

\* A buffer is only cancelled while all who are there wait for a new one.
Abandoned ==
  \A e \in EntryIds : entries[e].cancelled =>
    \A t \in entries[e].list : thds[t].waitForOpen

\* Only the handle being opened waits for the buffer.
Open ==
  \A c \in Clients : \A i \in 1 .. Len(handles[c]) : ~thds[handles[c][i]].waitForOpen

\* What a session waits for was already answered, or is still asked for.
Told ==
  \A c \in Clients : LET t == sess[c].thd IN
    /\ sess[c].pc = "open" => thds[t].waitForOpen \/ thds[t].event
    /\ sess[c].pc = "rw" => thds[t].nb >= 1 \/ thds[t].event

WakeInv == Asked /\ Abandoned /\ Open /\ Told

\* The buffer has the channels and the length that whoever opened it asked for.
Covered ==
  \A e \in EntryIds : \A t \in entries[e].list :
    ~thds[t].waitForOpen =>
      thds[t].mask \subseteq entries[e].mask /\ thds[t].count <= entries[e].count

\* A reader that was told a mask is given data under it.
Headed ==
  \A e \in EntryIds : \A t \in Joined(e) :
    thds[t].active /\ ~thds[t].writer /\ ~thds[t].newClient =>
      Demux \/ thds[t].header = entries[e].mask

MaskInv == Covered /\ Headed

\* A handle is opened before anything is asked for, and then only the request under way
\* is active.
QuietAt(c) ==
  /\ sess[c].pc \in {"check", "open"} => thds[sess[c].thd].nb = 0
  /\ sess[c].pc # "off" /\ ~Gone(c) =>
       \A i \in 1 .. Len(handles[c]) :
         thds[handles[c][i]].active => sess[c].pc = "rw" /\ handles[c][i] = sess[c].thd

\* How far an answer under way has come, on both sides.
Progress(c, t) ==
  /\ ~sess[c].extra /\ sess[c].nb = Request(t)
  /\ thds[t].writer =>
       /\ sess[c].left = IF thds[t].newClient THEN 2 ELSE 1
       /\ thds[t].nb \in {0, sess[c].nb} /\ thds[t].err \in {Failed, 0, sess[c].nb}
  /\ ~thds[t].writer =>
       /\ sess[c].left \in 0 .. sess[c].nb
       /\ thds[t].nb >= 1 => sess[c].left = thds[t].nb
       /\ thds[t].nb = 0 /\ thds[t].err >= 0 => sess[c].left = thds[t].err
       /\ thds[t].nb = 0 /\ sess[c].left = 0 /\ thds[t].err < 0 =>
            entries[thds[t].entry].closed

AnsweringAt(c) == sess[c].pc = "rw" /\ ~Gone(c) => Progress(c, sess[c].thd)

\* An answer that ended with the two out of step has left its mark in a handle.
Mark(t, left) ==
  thds[t].nb >= 1 \/ thds[t].err # 0 \/ (thds[t].writer /\ left = 1)

MarkedAt(c) ==
  sess[c].pc \in {"idle", "check", "open", "ask"} /\ ~Gone(c) =>
    /\ sess[c].left # 0 => \E i \in 1 .. Len(handles[c]) : Mark(handles[c][i], sess[c].left)
    /\ sess[c].extra => \E i \in 1 .. Len(handles[c]) :
         entries[thds[handles[c][i]].entry].closed

InStep == \A c \in Clients : QuietAt(c) /\ AnsweringAt(c) /\ MarkedAt(c)

-----------------------------------------------------------------------------
(* What is written into the records. *)

Errors == Nat \cup {Failed}

LEMMA Constants ==
  /\ Failed = -1 /\ NoEntry \notin EntryIds /\ MaxOpens \in Nat /\ 1 \in 1 .. MaxOpens
  /\ \A c \in Clients : \A k \in 1 .. MaxOpens : <<c, k>> \in Handles
  /\ \A t \in Handles : t[1] \in Clients /\ t[2] \in 1 .. MaxOpens /\ t = <<t[1], t[2]>>
  BY ServerAssumption DEF Failed, Handles

LEMMA MasksAre ==
  /\ {} \in Masks
  /\ \A c \in Clients : \A b \in Buffers[c] : b.mask \in Masks /\ b.mask # {}
  /\ \A mask \in Masks : SampleSize(mask) \in Nat /\ (mask # {} => SampleSize(mask) >= 1)
<1>1. {} \in Masks
  BY FS_EmptySet DEF Masks
<1>2. ASSUME NEW c \in Clients, NEW b \in Buffers[c]
      PROVE  b.mask \in Masks /\ b.mask # {}
  BY <1>2, ServerAssumption DEF Masks, Channels
<1>3. ASSUME NEW mask \in Masks
      PROVE  SampleSize(mask) \in Nat /\ (mask # {} => SampleSize(mask) >= 1)
  BY FS_CardinalityType, FS_EmptySet DEF Masks, SampleSize
<1> QED
  BY <1>1, <1>2, <1>3

\* What a handle is, for whom and on what, stays while it is used.
Same(thd, old) ==
  /\ thd.used = old.used /\ thd.entry = old.entry /\ thd.mask = old.mask
  /\ thd.count = old.count /\ thd.writer = old.writer

LEMMA SameIs ==
  /\ \A thd : Same(thd, thd)
  /\ \A a, b, c : Same(a, b) /\ Same(b, c) => Same(a, c)
  BY DEF Same

LEMMA SignalledIs ==
  ASSUME NEW thd \in ThdEntry, NEW code \in Errors
  PROVE  LET s == Signalled(thd, code) IN
         /\ s \in ThdEntry /\ Same(s, thd) /\ s.err = code /\ s.nb = 0 /\ ~s.active /\ s.event
         /\ s.newClient = thd.newClient /\ s.waitForOpen = thd.waitForOpen
         /\ s.header = thd.header
  BY DEF ThdEntry, Signalled, Same, Errors

LEMMA NewThdIs == NewThd \in ThdEntry
  BY MasksAre DEF NewThd, ThdEntry

LEMMA OpenedIs ==
  ASSUME NEW c \in Clients, NEW b \in Buffers[c], NEW e \in EntryIds
  PROVE  LET o == Opened(e, b) IN
         /\ o \in ThdEntry /\ o.used /\ o.entry = e /\ o.mask = b.mask /\ o.count = b.count
         /\ o.writer = b.writer /\ o.waitForOpen /\ o.nb = 0 /\ o.err = 0 /\ ~o.active
         /\ ~o.event
  BY MasksAre, ServerAssumption DEF NewThd, ThdEntry, Opened

LEMMA ThdFields ==
  ASSUME NEW thd \in ThdEntry
  PROVE  /\ \A a \in BOOLEAN : LET s == [thd EXCEPT !.active = a] IN
              /\ s \in ThdEntry /\ Same(s, thd) /\ s.active = a /\ s.err = thd.err
              /\ s.nb = thd.nb /\ s.event = thd.event /\ s.newClient = thd.newClient
              /\ s.waitForOpen = thd.waitForOpen /\ s.header = thd.header
         /\ \A a \in BOOLEAN : LET s == [thd EXCEPT !.event = a] IN
              /\ s \in ThdEntry /\ Same(s, thd) /\ s.active = thd.active /\ s.err = thd.err
              /\ s.nb = thd.nb /\ s.event = a /\ s.newClient = thd.newClient
              /\ s.waitForOpen = thd.waitForOpen /\ s.header = thd.header
         /\ \A a \in BOOLEAN : LET s == [thd EXCEPT !.waitForOpen = a] IN
              /\ s \in ThdEntry /\ Same(s, thd) /\ s.active = thd.active /\ s.err = thd.err
              /\ s.nb = thd.nb /\ s.event = thd.event /\ s.newClient = thd.newClient
              /\ s.waitForOpen = a /\ s.header = thd.header
  BY DEF ThdEntry, Same

LEMMA RefreshedIs ==
  ASSUME NEW thd \in ThdEntry, NEW entry, entry.size \in Nat, NEW updated \in BOOLEAN
  PROVE  LET r == Refreshed(thd, entry, updated)
             opened == updated /\ thd.waitForOpen
             ready == thd.err = 0 /\ thd.nb >= entry.size
         IN /\ r \in ThdEntry /\ Same(r, thd) /\ r.newClient = thd.newClient
            /\ r.header = thd.header /\ r.waitForOpen = (thd.waitForOpen /\ ~updated)
            /\ opened => r.event /\ r.nb = 0 /\ r.err = 0 /\ (entry.size >= 1 => ~r.active)
            /\ ~opened /\ ready /\ updated => r.event /\ r.nb = 0 /\ r.err = thd.nb /\ ~r.active
            /\ ~opened /\ ~(ready /\ updated) =>
                 r.event = thd.event /\ r.nb = thd.nb /\ r.err = thd.err /\ r.active = ready
<1> DEFINE opened == updated /\ thd.waitForOpen
           s == Signalled(thd, 0)
           o == IF opened THEN [s EXCEPT !.waitForOpen = FALSE] ELSE thd
           ready == o.err = 0 /\ o.nb >= entry.size
<1>1. /\ o \in ThdEntry /\ Same(o, thd) /\ o.newClient = thd.newClient
      /\ o.header = thd.header /\ o.waitForOpen = (thd.waitForOpen /\ ~updated)
      /\ opened => o.event /\ o.nb = 0 /\ o.err = 0 /\ ~o.active
      /\ ~opened => o = thd
  <2>1. CASE opened
    <3>1. /\ s \in ThdEntry /\ Same(s, thd) /\ s.err = 0 /\ s.nb = 0 /\ ~s.active /\ s.event
          /\ s.newClient = thd.newClient /\ s.header = thd.header
      BY SignalledIs DEF Errors
    <3> DEFINE q == [s EXCEPT !.waitForOpen = FALSE]
    <3>2. /\ q \in ThdEntry /\ Same(q, s) /\ q.active = s.active /\ q.err = s.err
          /\ q.nb = s.nb /\ q.event = s.event /\ q.newClient = s.newClient
          /\ q.waitForOpen = FALSE /\ q.header = s.header
      BY <3>1, ThdFields
    <3>3. o = q
      BY <2>1
    <3>4. Same(q, thd)
      BY <3>1, <3>2, SameIs
    <3> HIDE DEF o, q, s
    <3> QED
      BY <2>1, <3>1, <3>2, <3>3, <3>4
  <2>2. CASE ~opened
    <3>1. o = thd
      BY <2>2
    <3>2. thd.waitForOpen \in BOOLEAN
      BY DEF ThdEntry
    <3> HIDE DEF o
    <3> QED
      BY <2>2, <3>1, <3>2, SameIs
  <2> QED
    BY <2>1, <2>2
<1>2. Refreshed(thd, entry, updated) =
        IF ready /\ updated THEN Signalled(o, o.nb) ELSE [o EXCEPT !.active = ready]
  BY DEF Refreshed
<1> HIDE DEF o
<1>3. CASE ready /\ updated
  <2>1. o.nb \in Errors
    BY <1>1 DEF ThdEntry, Errors
  <2> DEFINE r == Signalled(o, o.nb)
  <2>2. /\ r \in ThdEntry /\ Same(r, o) /\ r.err = o.nb /\ r.nb = 0 /\ ~r.active /\ r.event
        /\ r.newClient = o.newClient /\ r.waitForOpen = o.waitForOpen /\ r.header = o.header
    BY <1>1, <2>1, SignalledIs
  <2>3. Same(r, thd)
    BY <1>1, <2>2, SameIs
  <2> HIDE DEF r
  <2> QED
    BY <1>1, <1>2, <1>3, <2>2, <2>3 DEF r
<1>4. CASE ~(ready /\ updated)
  <2> DEFINE r == [o EXCEPT !.active = ready]
  <2>1. /\ r \in ThdEntry /\ Same(r, o) /\ r.active = ready /\ r.err = o.err /\ r.nb = o.nb
        /\ r.event = o.event /\ r.newClient = o.newClient /\ r.waitForOpen = o.waitForOpen
        /\ r.header = o.header
    <3>1. ready \in BOOLEAN
      OBVIOUS
    <3> HIDE DEF ready
    <3> QED
      BY <1>1, <3>1, ThdFields
  <2>2. Same(r, thd)
    BY <1>1, <2>1, SameIs
  <2>3. entry.size >= 1 /\ opened => ~ready
    BY <1>1
  <2> HIDE DEF r
  <2> QED
    BY <1>1, <1>2, <1>4, <2>1, <2>2, <2>3 DEF r
<1> QED
  BY <1>3, <1>4

LEMMA MinOfTwo ==
  ASSUME NEW a \in Nat, NEW b \in Nat
  PROVE  Min({a, b}) \in Nat /\ Min({a, b}) <= a /\ Min({a, b}) <= b /\ Min({a, b}) \in {a, b}
<1>1. \E x \in {a, b} : \A y \in {a, b} : x =< y
  OBVIOUS
<1> QED
  BY <1>1 DEF Min

LEMMA Products ==
  /\ \A m, n \in Nat : m * n \in Nat
  /\ \A m, n \in Nat : m >= 1 /\ n >= 1 => m * n >= 1
  /\ \A k, m, n \in Nat : m <= n => k * m <= k * n
  OBVIOUS

LEMMA ToSendIs ==
  ASSUME NEW thd \in ThdEntry, NEW entry \in DevEntry, entry.size >= 1, NEW len \in Nat
  PROVE  ToSend(entry, thd, len) \in 0 .. thd.nb
<1>1. entry.size \in Nat /\ SampleSize(thd.mask) \in Nat /\ thd.nb \in Nat
  BY MasksAre DEF ThdEntry, DevEntry
<1> DEFINE own == SampleSize(thd.mask)
           mine == IF Demux /\ entry.size # own THEN (len \div entry.size) * own ELSE len
<1>2. len \div entry.size \in Nat
  BY <1>1
<1>3. (len \div entry.size) * own \in Nat
  BY <1>1, <1>2, Products
<1>4. mine \in Nat
  BY <1>3
<1>5. ToSend(entry, thd, len) = Min({mine, thd.nb})
  BY DEF ToSend
<1> HIDE DEF mine
<1> QED
  BY <1>1, <1>4, <1>5, MinOfTwo

LEMMA HeaderIs ==
  ASSUME NEW thd \in ThdEntry, NEW entry \in DevEntry
  PROVE  Header(entry, thd) \in Masks
  BY DEF Header, ThdEntry, DevEntry

LEMMA GivenIs ==
  ASSUME NEW thd \in ThdEntry, NEW entry \in DevEntry, entry.size >= 1, NEW len \in Nat,
         NEW size \in Nat, NEW c
  PROVE  LET g == Given(thd, entry, len, size, c)
             left == thd.nb - ToSend(entry, thd, len)
         IN /\ g \in ThdEntry /\ Same(g, thd) /\ g.waitForOpen = thd.waitForOpen
            /\ Gone(c) => g.err = Failed /\ g.nb = 0 /\ ~g.active /\ g.event
            /\ ~Gone(c) =>
                 /\ left \in Nat /\ ~g.newClient /\ g.header = Header(entry, thd)
                 /\ left < size => g.err = left /\ g.nb = 0 /\ ~g.active /\ g.event
                 /\ left >= size =>
                      /\ g.err = thd.err /\ g.nb = left /\ g.active = thd.active
                      /\ g.event = thd.event
<1> DEFINE left == thd.nb - ToSend(entry, thd, len)
           sent == [thd EXCEPT !.nb = left, !.newClient = FALSE, !.header = Header(entry, thd)]
<1>1. left \in Nat
  BY ToSendIs DEF ThdEntry
<1>2. /\ sent \in ThdEntry /\ Same(sent, thd) /\ sent.waitForOpen = thd.waitForOpen
      /\ sent.nb = left /\ ~sent.newClient /\ sent.header = Header(entry, thd)
      /\ sent.err = thd.err /\ sent.active = thd.active /\ sent.event = thd.event
  BY <1>1, HeaderIs DEF ThdEntry, Same
<1>3. Given(thd, entry, len, size, c) =
        IF Gone(c) THEN Signalled(thd, Failed)
        ELSE IF sent.nb < size THEN Signalled(sent, sent.nb) ELSE sent
  BY DEF Given
<1>4. Failed \in Errors /\ left \in Errors
  BY <1>1 DEF Errors
<1> HIDE DEF sent, left
<1>5. CASE Gone(c)
  BY <1>3, <1>4, <1>5, SignalledIs
<1>6. CASE ~Gone(c) /\ left < size
  <2> DEFINE g == Signalled(sent, left)
  <2>1. /\ g \in ThdEntry /\ Same(g, sent) /\ g.err = left /\ g.nb = 0 /\ ~g.active /\ g.event
        /\ g.newClient = sent.newClient /\ g.waitForOpen = sent.waitForOpen
        /\ g.header = sent.header
    BY <1>2, <1>4, SignalledIs
  <2>2. Same(g, thd)
    BY <1>2, <2>1, SameIs
  <2>3. Given(thd, entry, len, size, c) = g
    BY <1>2, <1>3, <1>6
  <2> HIDE DEF g
  <2> QED
    BY <1>1, <1>2, <1>6, <2>1, <2>2, <2>3 DEF left
<1>7. CASE ~Gone(c) /\ left >= size
  <2>1. Given(thd, entry, len, size, c) = sent
    BY <1>1, <1>2, <1>3, <1>7
  <2> QED
    BY <1>1, <1>2, <1>7, <2>1 DEF left
<1> QED
  BY <1>1, <1>5, <1>6, <1>7

LEMMA ToReceiveIs ==
  ASSUME NEW thd \in ThdEntry, NEW entry \in DevEntry
  PROVE  ToReceive(entry, thd) \in 0 .. thd.nb
<1>1. entry.size \in Nat /\ entry.count \in Nat /\ thd.nb \in Nat
  BY DEF ThdEntry, DevEntry
<1>2. entry.size * entry.count \in Nat
  BY <1>1, Products
<1> DEFINE all == entry.size * entry.count
<1>3. ToReceive(entry, thd) = IF entry.size = SampleSize(thd.mask) THEN Min({all, thd.nb})
                              ELSE thd.nb
  BY DEF ToReceive
<1> HIDE DEF all
<1> QED
  BY <1>1, <1>2, <1>3, MinOfTwo DEF all

LEMMA TakenIs ==
  ASSUME NEW thd \in ThdEntry, NEW entry \in DevEntry, NEW c
  PROVE  LET g == Taken(thd, entry, c) IN
         /\ g \in ThdEntry /\ Same(g, thd) /\ g.waitForOpen = thd.waitForOpen
         /\ g.header = thd.header
         /\ Gone(c) => g.err = Failed /\ g.nb = 0 /\ ~g.active /\ g.event
         /\ ~Gone(c) => /\ g.nb = thd.nb - ToReceive(entry, thd) /\ ~g.newClient
                        /\ g.err = thd.err /\ g.active = thd.active /\ g.event = thd.event
<1> DEFINE left == thd.nb - ToReceive(entry, thd)
           got == [thd EXCEPT !.nb = left, !.newClient = FALSE]
<1>1. left \in Nat
  BY ToReceiveIs DEF ThdEntry
<1>2. /\ got \in ThdEntry /\ Same(got, thd) /\ got.waitForOpen = thd.waitForOpen
      /\ got.header = thd.header /\ got.nb = left /\ ~got.newClient
      /\ got.err = thd.err /\ got.active = thd.active /\ got.event = thd.event
  BY <1>1 DEF ThdEntry, Same
<1>3. Taken(thd, entry, c) = IF Gone(c) THEN Signalled(thd, Failed) ELSE got
  BY DEF Taken
<1>4. Failed \in Errors
  BY DEF Errors
<1> HIDE DEF got
<1> QED
  BY <1>2, <1>3, <1>4, SignalledIs

LEMMA PushedIs ==
  ASSUME NEW thd \in ThdEntry, NEW ok \in BOOLEAN, NEW size \in Nat
  PROVE  LET g == Pushed(thd, ok, size) IN
         /\ g \in ThdEntry /\ Same(g, thd) /\ g.waitForOpen = thd.waitForOpen
         /\ g.header = thd.header /\ g.newClient = thd.newClient
         /\ ~thd.active => g = thd
         /\ thd.active /\ ~ok => g.err = Failed /\ g.nb = 0 /\ ~g.active /\ g.event
         /\ thd.active /\ ok /\ thd.nb < size =>
              g.err = thd.nb /\ g.nb = 0 /\ ~g.active /\ g.event
         /\ thd.active /\ ok /\ thd.nb >= size => g = thd
<1>1. Failed \in Errors /\ thd.nb \in Errors /\ thd.nb \in Nat
  BY DEF Errors, ThdEntry
<1> QED
  BY <1>1, SignalledIs, SameIs DEF Pushed

LEMMA NewEntryIs ==
  /\ NewEntry \in DevEntry /\ NewEntry.ref = 0 /\ NewEntry.list = {} /\ ~NewEntry.buf
  /\ ~NewEntry.closed /\ ~NewEntry.cancelled
  BY MasksAre DEF NewEntry, DevEntry

\* The first fields of an entry with its handle and its thread.
LEMMA StartedIs ==
  ASSUME NEW t \in Handles, NEW cyclic \in BOOLEAN
  PROVE  LET n == [NewEntry EXCEPT !.ref = 2, !.list = {t}, !.updateMask = TRUE,
                                   !.cyclic = cyclic]
         IN /\ n \in DevEntry /\ n.ref = 2 /\ n.list = {t} /\ n.updateMask /\ ~n.buf
            /\ ~n.closed /\ ~n.cancelled
  BY MasksAre DEF NewEntry, DevEntry

LEMMA JoinedIs ==
  ASSUME NEW entry \in DevEntry, NEW t \in Handles
  PROVE  LET n == [entry EXCEPT !.ref = @ + 1, !.list = @ \cup {t}, !.updateMask = TRUE]
         IN /\ n \in DevEntry /\ n.ref = entry.ref + 1 /\ n.list = entry.list \cup {t}
            /\ n.updateMask /\ n.buf = entry.buf /\ n.mask = entry.mask
            /\ n.size = entry.size /\ n.count = entry.count /\ n.closed = entry.closed
            /\ n.cancelled = entry.cancelled
<1> DEFINE ref == entry.ref + 1
           list == entry.list \cup {t}
           n == [entry EXCEPT !.ref = ref, !.list = list, !.updateMask = TRUE]
<1>1. ref \in Nat /\ list \in SUBSET Handles
  BY DEF DevEntry
<1> HIDE DEF ref, list
<1>2. /\ n \in DevEntry /\ n.ref = ref /\ n.list = list
      /\ n.updateMask /\ n.buf = entry.buf /\ n.mask = entry.mask
      /\ n.size = entry.size /\ n.count = entry.count /\ n.closed = entry.closed
      /\ n.cancelled = entry.cancelled
  BY <1>1 DEF DevEntry
<1> QED
  BY <1>2 DEF ref, list

LEMMA UnlistedIs ==
  ASSUME NEW entry \in DevEntry, NEW t
  PROVE  LET u == Unlisted(entry, t) IN
         /\ u \in DevEntry /\ u.ref = entry.ref /\ u.closed = entry.closed /\ u.buf = entry.buf
         /\ u.mask = entry.mask /\ u.size = entry.size /\ u.count = entry.count
         /\ entry.closed => u = entry
         /\ ~entry.closed => /\ u.list = entry.list \ {t} /\ u.updateMask
                             /\ u.cancelled = (entry.cancelled \/ (u.list = {} /\ entry.buf))
  BY DEF DevEntry, Unlisted

LEMMA PutIs ==
  ASSUME NEW entry \in DevEntry, entry.ref >= 1
  PROVE  LET p == Put(entry) IN
         /\ p \in DevEntry /\ p.ref = entry.ref - 1
         /\ entry.ref = 1 => p = NewEntry
         /\ entry.ref # 1 =>
              /\ p.list = entry.list /\ p.buf = entry.buf /\ p.mask = entry.mask
              /\ p.size = entry.size /\ p.count = entry.count
              /\ p.updateMask = entry.updateMask /\ p.cyclic = entry.cyclic
              /\ p.closed = entry.closed /\ p.cancelled = entry.cancelled
<1>1. CASE entry.ref = 1
  BY <1>1, NewEntryIs DEF Put
<1>2. CASE entry.ref # 1
  <2> DEFINE p == [entry EXCEPT !.ref = @ - 1]
  <2>1. entry.ref - 1 \in Nat
    BY DEF DevEntry
  <2>2. /\ p \in DevEntry /\ p.ref = entry.ref - 1
        /\ p.list = entry.list /\ p.buf = entry.buf /\ p.mask = entry.mask
        /\ p.size = entry.size /\ p.count = entry.count
        /\ p.updateMask = entry.updateMask /\ p.cyclic = entry.cyclic
        /\ p.closed = entry.closed /\ p.cancelled = entry.cancelled
    BY <2>1 DEF DevEntry
  <2>3. Put(entry) = p
    BY <1>2 DEF Put
  <2> HIDE DEF p
  <2> QED
    BY <1>2, <2>2, <2>3
<1> QED
  BY <1>1, <1>2

LEMMA ClosedIs ==
  ASSUME NEW entry \in DevEntry
  PROVE  LET p == Closed(entry) IN
         /\ p \in DevEntry /\ p.ref = entry.ref /\ p.closed /\ p.list = {} /\ ~p.buf
         /\ ~p.cancelled
  BY MasksAre DEF DevEntry, NewEntry, Closed

\* A finite set of naturals has a greatest element.
LEMMA Greatest ==
  ASSUME NEW S \in SUBSET Nat, IsFiniteSet(S), S # {}
  PROVE  Max(S) \in S /\ \A x \in S : x <= Max(S)
<1> DEFINE Has(T) == \E m \in T : \A x \in T : m >= x
           Bad == {T \in SUBSET S : T # {} /\ ~Has(T)}
           R == StrictSubsetOrdering(S)
<1>1. Bad = {}
  <2> SUFFICES ASSUME Bad # {}
               PROVE  FALSE
    OBVIOUS
  <2>1. FiniteSubsetsOf(S) = SUBSET S
    BY FS_FiniteSubsetsOfFinite
  <2>2. IsWellFoundedOn(R, SUBSET S)
    BY <2>1, FS_StrictSubsetOrderingWellFounded
  <2>3. Bad \subseteq SUBSET S
    OBVIOUS
  <2>4. PICK T \in Bad : \A U \in Bad : <<U, T>> \notin R
    <3> HIDE DEF Bad, R
    <3> QED
      BY <2>2, <2>3, WFMin
  <2>5. PICK x \in T : TRUE
    OBVIOUS
  <2> DEFINE U == T \ {x}
  <2>6. <<U, T>> \in R
    BY <2>4, <2>5 DEF StrictSubsetOrdering
  <2>7. U \in SUBSET S /\ U \notin Bad
    BY <2>4, <2>6
  <2>8. CASE U = {}
    <3>1. T = {x} /\ x \in Nat
      BY <2>4, <2>5, <2>8
    <3> QED
      BY <2>4, <3>1
  <2>9. CASE Has(U)
    <3>1. PICK m \in U : \A y \in U : m >= y
      BY <2>9
    <3>2. m \in T /\ m \in Nat /\ x \in Nat
      BY <2>4, <2>5, <3>1
    <3>3. CASE m >= x
      BY <2>4, <3>1, <3>2, <3>3
    <3>4. CASE x >= m
      <4>1. \A y \in T : y \in Nat
        BY <2>4
      <4>2. \A y \in T : x >= y
        BY <3>1, <3>2, <3>4, <4>1
      <4> QED
        BY <2>4, <2>5, <4>2
    <3> QED
      BY <3>2, <3>3, <3>4
  <2> QED
    BY <2>7, <2>8, <2>9
<1>2. PICK m \in S : \A x \in S : m >= x
  BY <1>1
<1>3. \E n \in S : \A x \in S : n >= x
  BY <1>2
<1>4. Max(S) \in S /\ \A x \in S : Max(S) >= x
  BY <1>3 DEF Max
<1> QED
  BY <1>4

\* The image of a finite set is finite.
LEMMA Image ==
  ASSUME NEW S, IsFiniteSet(S), NEW V, NEW f \in [S -> V]
  PROVE  IsFiniteSet({f[x] : x \in S})
<1> DEFINE T == {f[x] : x \in S}
<1>1. f \in Surjection(S, T)
  BY DEF Surjection
<1> HIDE DEF T
<1>2. IsFiniteSet(T)
  BY <1>1, FS_Surjection
<1> QED
  BY <1>2 DEF T

LEMMA HandlesAreFinite == IsFiniteSet(Handles)
<1>1. IsFiniteSet(1 .. MaxOpens)
  BY ServerAssumption, FS_Interval
<1> QED
  BY <1>1, ServerAssumption, FS_Product DEF Handles

\* The mask and the length of a buffer cover those of all who are there.
LEMMA UpdatedIs ==
  ASSUME TypeOK, NEW entry \in DevEntry, entry.list # {},
         \A t \in entry.list : thds[t].mask # {}
  PROVE  LET u == Updated(entry) IN
         /\ u \in DevEntry /\ u.ref = entry.ref /\ u.list = entry.list
         /\ u.closed = entry.closed /\ ~u.updateMask
         /\ ~entry.updateMask => u = entry
         /\ entry.updateMask => /\ u.buf /\ u.size >= 1 /\ ~u.cancelled
                                /\ \A t \in entry.list : /\ thds[t].mask \subseteq u.mask
                                                         /\ thds[t].count <= u.count
<1>1. entry.list \subseteq Handles /\ IsFiniteSet(entry.list)
  <2>1. entry.list \in SUBSET Handles
    BY DEF DevEntry
  <2> QED
    BY <2>1, HandlesAreFinite, FS_Subset
<1> DEFINE f == [t \in entry.list |-> thds[t].mask]
           g == [t \in entry.list |-> thds[t].count]
           masks == {thds[t].mask : t \in entry.list}
           counts == {thds[t].count : t \in entry.list}
           mask == UNION masks
<1>2. \A t \in entry.list : thds[t].mask \in Masks /\ thds[t].count \in Nat
  BY <1>1 DEF TypeOK, ThdEntry
<1>3. IsFiniteSet(masks) /\ IsFiniteSet(counts)
  <2>1. masks = {f[t] : t \in entry.list} /\ counts = {g[t] : t \in entry.list}
    OBVIOUS
  <2>2. f \in [entry.list -> masks]
    OBVIOUS
  <2>3. g \in [entry.list -> counts]
    OBVIOUS
  <2> HIDE DEF f, g, masks, counts
  <2>4. IsFiniteSet({f[t] : t \in entry.list})
    BY <1>1, <2>2, Image
  <2>5. IsFiniteSet({g[t] : t \in entry.list})
    BY <1>1, <2>3, Image
  <2> QED
    BY <2>1, <2>4, <2>5
<1>4. mask \in Masks /\ mask # {}
  <2>1. \A m \in masks : m \in SUBSET Channels /\ IsFiniteSet(m)
    BY <1>2 DEF Masks
  <2>2. IsFiniteSet(mask)
    <3> HIDE DEF masks
    <3> QED
      BY <1>3, <2>1, FS_UNION
  <2>3. mask \in SUBSET Channels
    BY <2>1
  <2>4. mask # {}
    OBVIOUS
  <2> QED
    BY <2>2, <2>3, <2>4 DEF Masks
<1>5. Max(counts) \in Nat /\ \A t \in entry.list : thds[t].count <= Max(counts)
  <2>1. counts \in SUBSET Nat /\ counts # {}
    BY <1>2
  <2>2. \A t \in entry.list : thds[t].count \in counts
    OBVIOUS
  <2> HIDE DEF counts
  <2> QED
    BY <1>3, <2>1, <2>2, Greatest
<1>6. SampleSize(mask) \in Nat /\ SampleSize(mask) >= 1
  BY <1>4, MasksAre
<1>7. \A t \in entry.list : thds[t].mask \subseteq mask
  OBVIOUS
<1> DEFINE u == [entry EXCEPT !.mask = mask, !.buf = TRUE, !.cancelled = FALSE,
                              !.updateMask = FALSE, !.size = SampleSize(mask),
                              !.count = Max(counts)]
<1>8. Updated(entry) = IF ~entry.updateMask THEN entry ELSE u
  BY DEF Updated
<1> HIDE DEF mask, counts
<1>9. /\ u \in DevEntry /\ u.ref = entry.ref /\ u.list = entry.list /\ u.buf
      /\ u.closed = entry.closed /\ ~u.updateMask /\ u.size = SampleSize(mask)
      /\ ~u.cancelled /\ u.mask = mask /\ u.count = Max(counts)
  BY <1>4, <1>5, <1>6 DEF DevEntry
<1> HIDE DEF u
<1> QED
  BY <1>5, <1>6, <1>7, <1>8, <1>9

-----------------------------------------------------------------------------
(* The handles of a session, and what is left alone by most steps. *)

LEMMA Prepended ==
  ASSUME NEW q \in Seq(Handles), NEW t \in Handles, Injective(q),
         \A i \in 1 .. Len(q) : q[i] # t
  PROVE  LET p == <<t>> \o q IN
         /\ p \in Seq(Handles) /\ p # <<>> /\ Head(p) = t /\ Injective(p)
         /\ Len(p) = Len(q) + 1 /\ p[1] = t /\ \A i \in 1 .. Len(q) : p[i + 1] = q[i]
<1> DEFINE p == <<t>> \o q
<1>1. <<t>> \in Seq(Handles) /\ Len(<<t>>) = 1 /\ <<t>>[1] = t /\ Len(q) \in Nat
  OBVIOUS
<1>2. /\ p \in Seq(Handles) /\ Len(p) = Len(q) + 1
      /\ \A i \in 1 .. Len(q) + 1 : p[i] = IF i <= 1 THEN <<t>>[i] ELSE q[i - 1]
  BY <1>1
<1> HIDE DEF p
<1>3. p[1] = t /\ \A i \in 1 .. Len(q) : p[i + 1] = q[i]
  BY <1>1, <1>2
<1>4. p # <<>> /\ Head(p) = t
  BY <1>1, <1>2, <1>3
<1>5. ASSUME NEW i \in 1 .. Len(p), NEW j \in 1 .. Len(p), p[i] = p[j]
      PROVE  i = j
  <2>1. CASE i = 1 /\ j # 1
    <3>1. p[i] = t /\ j - 1 \in 1 .. Len(q) /\ p[j] = q[j - 1]
      BY <1>1, <1>2, <1>3, <2>1
    <3> QED
      BY <1>5, <3>1
  <2>2. CASE i # 1 /\ j = 1
    <3>1. p[j] = t /\ i - 1 \in 1 .. Len(q) /\ p[i] = q[i - 1]
      BY <1>1, <1>2, <1>3, <2>2
    <3> QED
      BY <1>5, <3>1
  <2>3. CASE i # 1 /\ j # 1
    <3>1. i - 1 \in 1 .. Len(q) /\ j - 1 \in 1 .. Len(q) /\ q[i - 1] = q[j - 1]
      BY <1>1, <1>2, <1>5, <2>3
    <3> QED
      BY <3>1 DEF Injective
  <2> QED
    BY <2>1, <2>2, <2>3
<1>6. Injective(p)
  BY <1>5 DEF Injective
<1> QED
  BY <1>2, <1>3, <1>4, <1>6 DEF p

LEMMA Popped ==
  ASSUME NEW q \in Seq(Handles), q # <<>>, Injective(q)
  PROVE  LET p == Tail(q) IN
         /\ p \in Seq(Handles) /\ Injective(p) /\ Len(p) = Len(q) - 1 /\ Head(q) = q[1]
         /\ 1 \in 1 .. Len(q)
         /\ \A i \in 1 .. Len(p) :
              p[i] = q[i + 1] /\ i + 1 \in 1 .. Len(q) /\ p[i] # Head(q)
<1> DEFINE p == Tail(q)
<1>1. /\ p \in Seq(Handles) /\ Len(p) = Len(q) - 1 /\ Head(q) = q[1] /\ Len(q) \in Nat
      /\ Len(q) >= 1 /\ \A i \in 1 .. Len(p) : p[i] = q[i + 1]
  OBVIOUS
<1> HIDE DEF p
<1>2. \A i \in 1 .. Len(p) : i + 1 \in 1 .. Len(q) /\ i + 1 # 1
  BY <1>1
<1>3. \A i \in 1 .. Len(p) : p[i] # Head(q)
  BY <1>1, <1>2 DEF Injective
<1>4. Injective(p)
  BY <1>1, <1>2 DEF Injective
<1> QED
  BY <1>1, <1>2, <1>3, <1>4 DEF p

LEMMA AtIs ==
  /\ \A stage \in {"none", "top", "asleep", "leave"} : At(stage) \in RwThd /\ At(stage).pc = stage
  BY DEF At, RwThd

LEMMA WokenIs ==
  ASSUME rw \in [EntryIds -> RwThd], NEW e \in EntryIds
  PROVE  /\ Woken(e) \in [EntryIds -> RwThd]
         /\ \A f \in EntryIds : f # e => Woken(e)[f] = rw[f]
         /\ Woken(e)[e].pc = IF rw[e].pc = "asleep" THEN "top" ELSE rw[e].pc
         /\ Woken(e)[e].size = rw[e].size
         /\ rw[e].pc # "asleep" => Woken(e)[e] = rw[e]
  BY DEF Woken, RwThd

\* The counts of the handles of an entry.
LEMMA JoinedIsFinite ==
  ASSUME NEW e
  PROVE  IsFiniteSet(Joined(e)) /\ Cardinality(Joined(e)) \in Nat
<1>1. Joined(e) \in SUBSET Handles
  BY DEF Joined
<1> QED
  BY <1>1, HandlesAreFinite, FS_Subset, FS_CardinalityType

\* The thread and the sessions work on what is there: no handle and no entry comes or goes.
Works ==
  /\ \A t \in Handles : Same(thds'[t], thds[t]) /\ (~thds[t].used => thds'[t] = thds[t])
  /\ \A e \in EntryIds :
       /\ entries'[e].ref = entries[e].ref /\ entries'[e].list = entries[e].list
       /\ entries'[e].closed = entries[e].closed
       /\ rw[e].pc \in Live => rw'[e].pc \in Live
       /\ rw[e].pc \notin Live => rw'[e] = rw[e] /\ entries'[e] = entries[e]
  /\ data' = data /\ handles' = handles

LEMMA WorksIsInv ==
  ASSUME ShareInv, Works
  PROVE  Owned' /\ Listed' /\ Counted' /\ Phases' /\ Current'
<1> USE DEF ShareInv
<1>1. Owned'
  BY DEF Owned, Works, Same
<1>2. \A e : Joined(e)' = Joined(e)
  BY DEF Joined, Works, Same
<1>3. Listed'
  BY <1>2 DEF Listed, Works
<1>4. Counted'
  BY <1>2 DEF Counted, Works, Live
<1>5. Phases'
  BY DEF Phases, Works, Live
<1>6. Current'
  BY DEF Current, Works, Live, TypeOK
<1> QED
  BY <1>1, <1>3, <1>4, <1>5, <1>6

\* A session stays where it was, goes back to its commands, or uses its first handle.
Stays(c) ==
  \/ /\ sess'[c].thd = sess[c].thd
     /\ \/ sess'[c].pc = sess[c].pc
        \/ sess'[c].pc = "open" /\ sess[c].pc = "check"
  \/ sess'[c].pc \in {"off", "idle"}
  \/ /\ sess'[c].pc \in {"ask", "rw"} /\ handles[c] # <<>>
     /\ sess'[c].thd = Head(handles[c])

LEMMA StaysIsInv ==
  ASSUME Held, handles' = handles, \A t \in Handles : thds'[t].used = thds[t].used,
         \A c \in Clients : Stays(c)
  PROVE  Held'
  BY DEF Held, Stays, Own

-----------------------------------------------------------------------------
(* What the steps of the sessions write. *)

LEMMA SessionFields ==
  ASSUME NEW s \in Interpreter
  PROVE  /\ LET n == [s EXCEPT !.pc = "open"] IN
              /\ n \in Interpreter /\ n.pc = "open" /\ n.thd = s.thd /\ n.nb = s.nb
              /\ n.left = s.left /\ n.extra = s.extra
         /\ LET n == [s EXCEPT !.extra = TRUE] IN
              /\ n \in Interpreter /\ n.pc = s.pc /\ n.thd = s.thd /\ n.nb = s.nb
              /\ n.left = s.left /\ n.extra
         /\ LET n == [s EXCEPT !.left = 0, !.extra = FALSE] IN
              /\ n \in Interpreter /\ n.pc = s.pc /\ n.thd = s.thd /\ n.left = 0 /\ ~n.extra
         /\ \A left \in Int : LET n == [s EXCEPT !.left = left] IN
              /\ n \in Interpreter /\ n.pc = s.pc /\ n.thd = s.thd /\ n.nb = s.nb
              /\ n.left = left /\ n.extra = s.extra
<1>1. LET n == [s EXCEPT !.pc = "open"] IN
        /\ n \in Interpreter /\ n.pc = "open" /\ n.thd = s.thd /\ n.nb = s.nb
        /\ n.left = s.left /\ n.extra = s.extra
  BY DEF Interpreter
<1>2. LET n == [s EXCEPT !.extra = TRUE] IN
        /\ n \in Interpreter /\ n.pc = s.pc /\ n.thd = s.thd /\ n.nb = s.nb
        /\ n.left = s.left /\ n.extra
  BY DEF Interpreter
<1>3. LET n == [s EXCEPT !.left = 0, !.extra = FALSE] IN
        /\ n \in Interpreter /\ n.pc = s.pc /\ n.thd = s.thd /\ n.left = 0 /\ ~n.extra
  <2>1. \A i \in Interpreter : LET n == [i EXCEPT !.extra = FALSE] IN
          /\ n \in Interpreter /\ n.pc = i.pc /\ n.thd = i.thd /\ n.left = i.left /\ ~n.extra
    BY DEF Interpreter
  <2> DEFINE i == [s EXCEPT !.left = 0]
  <2>2. i \in Interpreter /\ i.pc = s.pc /\ i.thd = s.thd /\ i.left = 0
    BY DEF Interpreter
  <2> HIDE DEF i
  <2>3. LET n == [i EXCEPT !.extra = FALSE] IN
          /\ n \in Interpreter /\ n.pc = s.pc /\ n.thd = s.thd /\ n.left = 0 /\ ~n.extra
    BY <2>1, <2>2
  <2> QED
    BY <2>3 DEF i
<1>4. ASSUME NEW left \in Int
      PROVE  LET n == [s EXCEPT !.left = left] IN
             /\ n \in Interpreter /\ n.pc = s.pc /\ n.thd = s.thd /\ n.nb = s.nb
             /\ n.left = left /\ n.extra = s.extra
  BY DEF Interpreter
<1> QED
  BY <1>1, <1>2, <1>3, <1>4

LEMMA LineIs ==
  ASSUME NEW s \in Interpreter, NEW writer \in BOOLEAN
  PROVE  LET l == Line(s, writer) IN
         /\ l \in Interpreter /\ l.pc = s.pc /\ l.thd = s.thd /\ l.nb = s.nb
         /\ s.left = 0 => l.left = 0 /\ l.extra
         /\ s.left # 0 => l.extra = s.extra /\ l.left = IF writer THEN s.left - 1 ELSE 0
<1> DEFINE left == IF writer THEN s.left - 1 ELSE 0
           x == [s EXCEPT !.extra = TRUE]
           n == [s EXCEPT !.left = left]
<1>1. Line(s, writer) = IF s.left = 0 THEN x ELSE n
  BY DEF Line
<1>2. left \in Int
  BY DEF Interpreter
<1> HIDE DEF left
<1>3. /\ x \in Interpreter /\ x.pc = s.pc /\ x.thd = s.thd /\ x.nb = s.nb
      /\ x.left = s.left /\ x.extra
  BY SessionFields
<1>4. /\ n \in Interpreter /\ n.pc = s.pc /\ n.thd = s.thd /\ n.nb = s.nb
      /\ n.left = left /\ n.extra = s.extra
  BY <1>2 DEF Interpreter
<1> HIDE DEF x, n
<1> QED
  BY <1>1, <1>3, <1>4 DEF left

LEMMA LastLineIs ==
  ASSUME NEW s \in Interpreter
  PROVE  LET l == LastLine(s) IN
         /\ l \in Interpreter /\ l.pc = s.pc /\ l.thd = s.thd /\ l.nb = s.nb /\ l.left = 0
         /\ s.left = 0 => l.extra
         /\ s.left # 0 => l.extra = s.extra
<1>1. LastLine(s) = Line(s, FALSE)
  BY DEF LastLine, Line
<1> QED
  BY <1>1, LineIs

\* The result that is printed, after the line that ends a short answer.
LEMMA AnsweredIs ==
  ASSUME NEW s \in Interpreter, NEW code \in Errors, NEW writer \in BOOLEAN
  PROVE  LET short == IF code \in 1 .. s.nb - 1 THEN Line(s, writer) ELSE s
             a == Answered(s, code, writer)
         IN /\ short \in Interpreter /\ short.nb = s.nb
            /\ a \in Interpreter /\ a.pc = s.pc /\ a.thd = s.thd /\ a.nb = s.nb
            /\ code < 0 => a = LastLine(s)
            /\ code >= 0 /\ (code = s.nb \/ writer) /\ code <= s.nb => a = Line(short, writer)
            /\ code >= 0 /\ code < s.nb /\ ~writer => a = short
<1> DEFINE short == IF code \in 1 .. s.nb - 1 THEN Line(s, writer) ELSE s
           result == IF code < 0 THEN code ELSE s.nb - code
           a == Answered(s, code, writer)
<1>1. /\ short \in Interpreter /\ short.pc = s.pc /\ short.thd = s.thd /\ short.nb = s.nb
      /\ code < 0 => short = s
  BY LineIs DEF Errors
<1>2. a = IF result < 0 THEN LastLine(short)
          ELSE IF result = 0 \/ writer THEN Line(short, writer) ELSE short
  BY DEF Answered
<1>3. /\ code \in Nat \cup {-1} /\ s.nb \in Nat
  BY DEF Errors, Failed, Interpreter
<1> HIDE DEF short, a
<1>4. /\ a \in Interpreter /\ a.pc = s.pc /\ a.thd = s.thd /\ a.nb = s.nb
  BY <1>1, <1>2, LineIs, LastLineIs
<1>5. code < 0 => a = LastLine(s)
  BY <1>1, <1>2
<1>6. code >= 0 /\ (code = s.nb \/ writer) /\ code <= s.nb => a = Line(short, writer)
  BY <1>2, <1>3
<1>7. code >= 0 /\ code < s.nb /\ ~writer => a = short
  BY <1>2, <1>3
<1> QED
  BY <1>1, <1>4, <1>5, <1>6, <1>7 DEF short, a

LEMMA IdleIs ==
  ASSUME NEW s \in Interpreter
  PROVE  LET i == Idle(s) IN
         /\ i \in Interpreter /\ i.pc = "idle" /\ i.left = s.left /\ i.extra = s.extra
  BY DEF Idle, Interpreter

LEMMA NoSessionIs ==
  /\ NoSession \in Interpreter /\ NoSession.pc = "off" /\ NoSession.left = 0
  /\ ~NoSession.extra
  /\ LET n == [NoSession EXCEPT !.pc = "idle"] IN
       /\ n \in Interpreter /\ n.pc = "idle" /\ n.left = 0 /\ ~n.extra
<1>1. /\ NoSession \in Interpreter /\ NoSession.pc = "off" /\ NoSession.left = 0
      /\ ~NoSession.extra
  BY DEF NoSession, Interpreter
<1>2. \A s \in Interpreter : LET n == [s EXCEPT !.pc = "idle"] IN
        /\ n \in Interpreter /\ n.pc = "idle" /\ n.left = s.left /\ n.extra = s.extra
  BY DEF Interpreter
<1> QED
  BY <1>1, <1>2

\* A request that a handle makes is for at least a sample.
LEMMA RequestIs ==
  ASSUME ShareInv, NEW t \in Handles, thds[t].used
  PROVE  Request(t) \in Nat /\ Request(t) >= 1
<1>1. /\ thds[t].count \in Nat /\ thds[t].count >= 1
      /\ SampleSize(thds[t].mask) \in Nat /\ SampleSize(thds[t].mask) >= 1
  BY MasksAre DEF ShareInv, TypeOK, ThdEntry, Owned
<1> QED
  BY <1>1, Products DEF Request

\* The handle a session uses or opens is in use and its own.
LEMMA OwnHandle ==
  ASSUME ShareInv, NEW c \in Clients
  PROVE  /\ sess[c].pc \in {"check", "open", "ask", "rw"} =>
              /\ sess[c].thd \in Handles /\ sess[c].thd[1] = c /\ thds[sess[c].thd].used
              /\ thds[sess[c].thd].entry \in EntryIds
         /\ handles[c] # <<>> =>
              /\ Head(handles[c]) \in Handles /\ Head(handles[c])[1] = c
              /\ thds[Head(handles[c])].used /\ thds[Head(handles[c])].entry \in EntryIds
<1>1. handles[c] # <<>> => Head(handles[c]) \in Own(c)
  <2>1. handles[c] \in Seq(Handles) /\ Injective(handles[c])
    BY DEF ShareInv, TypeOK, Held
  <2> QED
    BY <2>1, Popped DEF ShareInv, Held
<1>2. sess[c].pc \in {"check", "open", "ask", "rw"} => sess[c].thd \in Own(c)
  BY <1>1 DEF ShareInv, Held
<1> QED
  BY <1>1, <1>2 DEF Own, ShareInv, Owned

-----------------------------------------------------------------------------
(* A handle comes. *)

\* A new handle on an entry, that waits for its buffer.
Waits(t, b, e) ==
  LET o == thds'[t] IN
  /\ t \in Handles /\ thds[t] = NewThd
  /\ thds' \in [Handles -> ThdEntry] /\ \A u \in Handles : u # t => thds'[u] = thds[u]
  /\ o.used /\ o.entry = e /\ o.mask = b.mask /\ o.count = b.count /\ o.writer = b.writer
  /\ o.mask # {} /\ o.count >= 1
  /\ o.waitForOpen /\ o.nb = 0 /\ o.err = 0 /\ ~o.active /\ ~o.event

\* The session that opens it.
Opens(c, t, stage) ==
  LET s == sess'[c] IN
  /\ sess[c].pc = "idle" /\ t[1] = c
  /\ sess' \in [Clients -> Interpreter] /\ \A d \in Clients : d # c => sess'[d] = sess[d]
  /\ s.pc = stage /\ s.thd = t /\ s.left = sess[c].left /\ s.extra = sess[c].extra
  /\ UNCHANGED <<handles, hung, stop>>

LEMMA WaitsIs ==
  ASSUME ShareInv, NEW c \in Clients, NEW k \in 1 .. MaxOpens, NEW b \in Buffers[c],
         NEW e \in EntryIds, ~thds[<<c, k>>].used,
         thds' = [thds EXCEPT ![<<c, k>>] = Opened(e, b)]
  PROVE  Waits(<<c, k>>, b, e)
<1> DEFINE o == Opened(e, b)
<1>1. PICK t \in Handles : t = <<c, k>>
  BY Constants
<1>2. thds[t] = NewThd
  BY <1>1 DEF ShareInv, Owned
<1>3. /\ o \in ThdEntry /\ o.used /\ o.entry = e /\ o.mask = b.mask /\ o.count = b.count
      /\ o.writer = b.writer /\ o.waitForOpen /\ o.nb = 0 /\ o.err = 0 /\ ~o.active
      /\ ~o.event
  BY OpenedIs
<1>4. b.mask # {} /\ b.count >= 1
  BY ServerAssumption
<1> HIDE DEF o
<1>5. /\ thds' \in [Handles -> ThdEntry] /\ thds'[t] = o
      /\ \A u \in Handles : u # t => thds'[u] = thds[u]
  BY <1>1, <1>3 DEF ShareInv, TypeOK, o
<1>6. Waits(t, b, e)
  BY <1>2, <1>3, <1>4, <1>5 DEF Waits
<1> QED
  BY <1>1, <1>6

LEMMA OneSession ==
  ASSUME TypeOK, NEW c \in Clients, NEW s \in Interpreter, sess' = [sess EXCEPT ![c] = s]
  PROVE  /\ sess' \in [Clients -> Interpreter] /\ sess'[c] = s
         /\ \A d \in Clients : d # c => sess'[d] = sess[d]
  BY DEF TypeOK

LEMMA OpensIs ==
  ASSUME ShareInv, NEW c \in Clients, NEW k \in 1 .. MaxOpens, NEW stage \in {"check", "open"},
         sess[c].pc = "idle", UNCHANGED <<handles, hung, stop>>,
         sess' = [sess EXCEPT ![c].pc = stage, ![c].thd = <<c, k>>]
  PROVE  Opens(c, <<c, k>>, stage)
<1>1. PICK t \in Handles : t = <<c, k>> /\ t[1] = c
  BY Constants
<1> DEFINE s == [sess[c] EXCEPT !.pc = stage, !.thd = t]
<1>2. sess[c] \in Interpreter
  BY DEF ShareInv, TypeOK
<1>3. /\ s \in Interpreter /\ s.pc = stage /\ s.thd = t /\ s.left = sess[c].left
      /\ s.extra = sess[c].extra
  BY <1>2 DEF Interpreter
<1>4. sess' = [sess EXCEPT ![c] = s]
  BY <1>1 DEF ShareInv, TypeOK
<1> HIDE DEF s
<1>5. /\ sess' \in [Clients -> Interpreter] /\ sess'[c] = s
      /\ \A d \in Clients : d # c => sess'[d] = sess[d]
  BY <1>3, <1>4, OneSession DEF ShareInv
<1>6. Opens(c, t, stage)
  BY <1>1, <1>3, <1>5 DEF Opens
<1> QED
  BY <1>1, <1>6

\* A handle that was free is on no entry, and on one afterwards.
LEMMA WaitsIsOwned ==
  ASSUME ShareInv, NEW t, NEW b, NEW e \in EntryIds, Waits(t, b, e)
  PROVE  /\ Owned' /\ ~thds[t].used /\ t \notin Joined(e) /\ Joined(e)' = Joined(e) \cup {t}
         /\ \A f \in EntryIds : f # e => Joined(f)' = Joined(f)
<1>1. thds[t].entry \notin EntryIds /\ ~thds[t].used
  BY Constants DEF Waits, NewThd
<1>2. Owned'
  BY DEF ShareInv, Owned, Waits
<1> QED
  BY <1>1, <1>2 DEF Waits, Joined

\* The session that opens a handle has it for its own.
LEMMA OpensIsHeld ==
  ASSUME ShareInv, NEW c \in Clients, NEW t, NEW b, NEW e \in EntryIds, Waits(t, b, e),
         NEW stage \in {"check", "open"}, Opens(c, t, stage)
  PROVE  Held'
<1>1. \A d \in Clients : Own(d) \subseteq Own(d)'
  BY DEF Own, Waits
<1>2. t \in Own(c)' /\ t \notin Own(c)
  BY WaitsIsOwned DEF Own, Waits, Opens
<1> QED
  BY <1>1, <1>2 DEF ShareInv, Held, Opens

\* What OpenNew writes.
Creates(c, t, b, e) ==
  LET n == entries'[e] IN
  /\ entries[e].ref = 0 /\ rw[e].pc = "none" /\ data' = e
  /\ data = NoEntry \/ entries[data].closed
  /\ entries' \in [EntryIds -> DevEntry] /\ rw' \in [EntryIds -> RwThd]
  /\ \A f \in EntryIds : f # e => entries'[f] = entries[f] /\ rw'[f] = rw[f]
  /\ n.ref = 2 /\ n.list = {t} /\ n.updateMask /\ ~n.buf /\ ~n.closed /\ ~n.cancelled
  /\ rw'[e].pc = "top"
  /\ Waits(t, b, e) /\ Opens(c, t, "check")

LEMMA OpenNewIs ==
  ASSUME ShareInv, NEW c \in Clients, NEW k \in 1 .. MaxOpens, NEW b \in Buffers[c],
         OpenNew(c, k, b)
  PROVE  \E t \in Handles : \E e \in EntryIds : Creates(c, t, b, e)
<1>1. PICK t \in Handles : t = <<c, k>>
  BY Constants
<1> DEFINE fresh(f) == [NewEntry EXCEPT !.ref = 2, !.list = {t}, !.updateMask = TRUE,
                                        !.cyclic = b.cyclic]
<1>2. PICK e \in EntryIds :
        /\ entries[e].ref = 0 /\ rw[e].pc = "none"
        /\ entries' = [entries EXCEPT ![e] = fresh(e)]
        /\ rw' = [rw EXCEPT ![e] = At("top")]
        /\ data' = e
        /\ thds' = [thds EXCEPT ![t] = Opened(e, b)]
  BY <1>1 DEF OpenNew, FreeEntries
<1>3. Waits(t, b, e)
  BY <1>1, <1>2, WaitsIs DEF OpenNew, MayOpen, FreeHandles
<1>4. Opens(c, t, "check")
  BY <1>1, OpensIs DEF OpenNew, MayOpen
<1> DEFINE n == fresh(e)
<1>5. /\ n \in DevEntry /\ n.ref = 2 /\ n.list = {t} /\ n.updateMask /\ ~n.buf /\ ~n.closed
      /\ ~n.cancelled
  BY StartedIs, ServerAssumption
<1>6. At("top") \in RwThd /\ At("top").pc = "top"
  BY AtIs
<1>7. data = NoEntry \/ entries[data].closed
  BY DEF OpenNew
<1> HIDE DEF n
<1>8. /\ entries' \in [EntryIds -> DevEntry] /\ rw' \in [EntryIds -> RwThd]
      /\ entries'[e] = n /\ rw'[e] = At("top")
      /\ \A f \in EntryIds : f # e => entries'[f] = entries[f] /\ rw'[f] = rw[f]
  BY <1>2, <1>5, <1>6 DEF ShareInv, TypeOK, n
<1>9. Creates(c, t, b, e)
  BY <1>2, <1>3, <1>4, <1>5, <1>6, <1>7, <1>8 DEF Creates
<1> QED
  BY <1>9

LEMMA OpenNewIsInv ==
  ASSUME ShareInv, NEW c \in Clients, NEW k \in 1 .. MaxOpens, NEW b \in Buffers[c],
         OpenNew(c, k, b)
  PROVE  ShareInv'
<1> USE DEF ShareInv
<1>1. PICK t \in Handles, e \in EntryIds : Creates(c, t, b, e)
  BY OpenNewIs
<1>2. Waits(t, b, e) /\ Opens(c, t, "check")
  BY <1>1 DEF Creates
<1>3. TypeOK'
  <2>1. thds' \in [Handles -> ThdEntry] /\ sess' \in [Clients -> Interpreter]
    BY <1>2 DEF Waits, Opens
  <2>2. /\ data' \in EntryIds \cup {NoEntry} /\ entries' \in [EntryIds -> DevEntry]
        /\ rw' \in [EntryIds -> RwThd]
    BY <1>1 DEF Creates
  <2>3. /\ handles' \in [Clients -> Seq(Handles)] /\ hung' \in [Clients -> BOOLEAN]
        /\ stop' \in BOOLEAN
    BY <1>2 DEF TypeOK, Opens
  <2> QED
    BY <2>1, <2>2, <2>3 DEF TypeOK
<1>4. Joined(e) = {}
  BY <1>1, JoinedIsFinite, FS_EmptySet DEF Counted, Creates
<1>5. Owned' /\ Joined(e)' = {t} /\ \A f \in EntryIds : f # e => Joined(f)' = Joined(f)
  BY <1>2, <1>4, WaitsIsOwned
<1>6. Listed'
  BY <1>1, <1>5 DEF Listed, Creates
<1>7. Counted'
  <2>1. Cardinality({t}) = 1
    BY FS_Singleton
  <2>2. entries'[e].ref = Cardinality(Joined(e)') + (IF rw'[e].pc = "none" THEN 0 ELSE 1)
    BY <1>1, <1>5, <2>1 DEF Creates
  <2>3. \A f \in EntryIds : f # e =>
          entries'[f].ref = Cardinality(Joined(f)') + (IF rw'[f].pc = "none" THEN 0 ELSE 1)
    BY <1>1, <1>5 DEF Counted, Creates
  <2> QED
    BY <2>2, <2>3 DEF Counted
<1>8. Phases'
  BY <1>1 DEF Phases, Live, Creates
<1>9. Current'
  BY <1>1, Constants DEF Current, Phases, Live, Creates
<1>10. Held'
  BY <1>2, OpensIsHeld
<1>11. Sized'
  BY <1>1 DEF Sized, Creates
<1> QED
  BY <1>3, <1>5, <1>6, <1>7, <1>8, <1>9, <1>10, <1>11

\* What OpenJoin writes.
Joins(c, t, b, e) ==
  LET n == entries'[e] IN
  /\ data = e /\ data' = e /\ ~entries[e].closed /\ rw[e].pc \in Live
  /\ entries' \in [EntryIds -> DevEntry] /\ rw' \in [EntryIds -> RwThd]
  /\ \A f \in EntryIds : f # e => entries'[f] = entries[f] /\ rw'[f] = rw[f]
  /\ n.ref = entries[e].ref + 1 /\ n.list = entries[e].list \cup {t} /\ n.updateMask
  /\ n.buf = entries[e].buf /\ n.mask = entries[e].mask /\ n.size = entries[e].size
  /\ n.count = entries[e].count /\ n.closed = entries[e].closed
  /\ n.cancelled = entries[e].cancelled
  /\ rw'[e].pc = IF rw[e].pc = "asleep" THEN "top" ELSE rw[e].pc
  /\ rw'[e].size = rw[e].size
  /\ Waits(t, b, e) /\ Opens(c, t, "open")

LEMMA OpenJoinIs ==
  ASSUME ShareInv, NEW c \in Clients, NEW k \in 1 .. MaxOpens, NEW b \in Buffers[c],
         OpenJoin(c, k, b)
  PROVE  \E t \in Handles : \E e \in EntryIds : Joins(c, t, b, e)
<1>1. PICK t \in Handles : t = <<c, k>>
  BY Constants
<1>2. PICK e \in EntryIds : e = data /\ ~entries[e].closed /\ rw[e].pc \in Live
  <2>1. data \in EntryIds /\ ~entries[data].closed /\ rw[data].pc # "none"
    BY DEF OpenJoin, ShareInv, TypeOK, Current
  <2>2. rw[data].pc \in Live
    BY <2>1 DEF ShareInv, TypeOK, RwThd, Phases, Live
  <2> QED
    BY <2>1, <2>2
<1> DEFINE n == [entries[e] EXCEPT !.ref = @ + 1, !.list = @ \cup {t}, !.updateMask = TRUE]
<1>3. /\ entries' = [entries EXCEPT ![e] = n] /\ rw' = Woken(e) /\ data' = data
      /\ thds' = [thds EXCEPT ![t] = Opened(e, b)]
  BY <1>1, <1>2 DEF OpenJoin, ShareInv, TypeOK
<1>4. Waits(t, b, e)
  BY <1>1, <1>3, WaitsIs DEF OpenJoin, MayOpen, FreeHandles
<1>5. Opens(c, t, "open")
  BY <1>1, OpensIs DEF OpenJoin, MayOpen
<1>6. /\ n \in DevEntry /\ n.ref = entries[e].ref + 1 /\ n.list = entries[e].list \cup {t}
      /\ n.updateMask /\ n.buf = entries[e].buf /\ n.mask = entries[e].mask
      /\ n.size = entries[e].size /\ n.count = entries[e].count
      /\ n.closed = entries[e].closed /\ n.cancelled = entries[e].cancelled
  <2>1. entries[e] \in DevEntry
    BY <1>2 DEF ShareInv, TypeOK
  <2> QED
    BY <2>1, JoinedIs
<1> HIDE DEF n
<1>7. /\ entries' \in [EntryIds -> DevEntry] /\ entries'[e] = n
      /\ \A f \in EntryIds : f # e => entries'[f] = entries[f]
  BY <1>3, <1>6 DEF ShareInv, TypeOK
<1>8. /\ rw' \in [EntryIds -> RwThd] /\ \A f \in EntryIds : f # e => rw'[f] = rw[f]
      /\ rw'[e].pc = IF rw[e].pc = "asleep" THEN "top" ELSE rw[e].pc
      /\ rw'[e].size = rw[e].size
  BY <1>3, WokenIs DEF ShareInv, TypeOK
<1>9. Joins(c, t, b, e)
  BY <1>2, <1>3, <1>4, <1>5, <1>6, <1>7, <1>8 DEF Joins
<1> QED
  BY <1>9

LEMMA OpenJoinIsInv ==
  ASSUME ShareInv, NEW c \in Clients, NEW k \in 1 .. MaxOpens, NEW b \in Buffers[c],
         OpenJoin(c, k, b)
  PROVE  ShareInv'
<1> USE DEF ShareInv
<1>1. PICK t \in Handles, e \in EntryIds : Joins(c, t, b, e)
  BY OpenJoinIs
<1>2. Waits(t, b, e) /\ Opens(c, t, "open")
  BY <1>1 DEF Joins
<1>3. TypeOK'
  BY <1>1 DEF TypeOK, Joins, Waits, Opens
<1>4. /\ Owned' /\ t \notin Joined(e) /\ Joined(e)' = Joined(e) \cup {t}
      /\ \A f \in EntryIds : f # e => Joined(f)' = Joined(f)
  BY <1>2, WaitsIsOwned
<1>5. Listed'
  BY <1>1, <1>4 DEF Listed, Joins
<1>6. Counted'
  <2>1. Cardinality(Joined(e) \cup {t}) = Cardinality(Joined(e)) + 1
    BY <1>4, JoinedIsFinite, FS_AddElement
  <2>2. entries'[e].ref = Cardinality(Joined(e)') + (IF rw'[e].pc = "none" THEN 0 ELSE 1)
    BY <1>1, <1>4, <2>1, JoinedIsFinite DEF Counted, Live, Joins
  <2>3. \A f \in EntryIds : f # e =>
          entries'[f].ref = Cardinality(Joined(f)') + (IF rw'[f].pc = "none" THEN 0 ELSE 1)
    BY <1>1, <1>4 DEF Counted, Joins
  <2> QED
    BY <2>2, <2>3 DEF Counted
<1>7. Phases'
  BY <1>1 DEF Phases, Live, Joins
<1>8. Current'
  BY <1>1 DEF Current, Live, Joins
<1>9. Held'
  BY <1>2, OpensIsHeld
<1>10. Sized'
  BY <1>1 DEF Sized, Live, Joins
<1> QED
  BY <1>3, <1>4, <1>5, <1>6, <1>7, <1>8, <1>9, <1>10

-----------------------------------------------------------------------------
(* A handle goes. *)

\* What RemoveThd writes.
Removes(t, e) ==
  LET n == entries'[e] IN
  /\ entries' \in [EntryIds -> DevEntry] /\ rw' \in [EntryIds -> RwThd]
  /\ thds' \in [Handles -> ThdEntry] /\ thds'[t] = NewThd
  /\ \A u \in Handles : u # t => thds'[u] = thds[u]
  /\ \A f \in EntryIds : f # e => entries'[f] = entries[f] /\ rw'[f] = rw[f]
  /\ n.ref = entries[e].ref - 1
  /\ entries[e].ref = 1 => rw[e].pc = "none" /\ Joined(e) = {t} /\ n = NewEntry
  /\ entries[e].ref # 1 =>
       /\ n.closed = entries[e].closed /\ n.buf = entries[e].buf
       /\ n.mask = entries[e].mask /\ n.size = entries[e].size
       /\ n.count = entries[e].count
       /\ n.list = entries[e].list \ {t}
       /\ entries[e].closed => n.cancelled = entries[e].cancelled
       /\ ~entries[e].closed =>
            /\ n.updateMask
            /\ n.cancelled = (entries[e].cancelled \/ (n.list = {} /\ entries[e].buf))
  /\ entries[e].closed => rw'[e] = rw[e]
  /\ ~entries[e].closed => rw[e].pc \in Live
  /\ rw'[e].pc = IF rw[e].pc = "asleep" THEN "top" ELSE rw[e].pc
  /\ rw'[e].size = rw[e].size

LEMMA RemoveIs ==
  ASSUME ShareInv, NEW t \in Handles, thds[t].used, RemoveThd(t),
         thds' = [thds EXCEPT ![t] = NewThd]
  PROVE  \E e \in EntryIds : e = thds[t].entry /\ t \in Joined(e) /\ Removes(t, e)
<1>0. PICK e \in EntryIds : e = thds[t].entry
  BY DEF ShareInv, Owned
<1> USE DEF ShareInv
<1> DEFINE u == Unlisted(entries[e], t)
           p == Put(u)
<1>1. entries[e] \in DevEntry /\ t \in Joined(e)
  BY <1>0 DEF Owned, TypeOK, Joined
<1>2. Joined(e) # {} /\ Cardinality(Joined(e)) >= 1
  BY <1>1, JoinedIsFinite, FS_EmptySet
<1>3. entries[e].ref >= 1
  BY <1>1, <1>2, JoinedIsFinite DEF Counted
<1>4. ~entries[e].closed => rw[e].pc \in Live
  <2>1. rw[e].pc = "none" /\ ~entries[e].closed => entries[e] = NewEntry
    BY <1>1 DEF Phases
  <2>2. rw[e].pc # "none" \/ entries[e].closed
    BY <1>3, <2>1, NewEntryIs
  <2> QED
    BY <1>1, <2>2 DEF Phases, TypeOK, RwThd, Live
<1>5. /\ u \in DevEntry /\ u.ref = entries[e].ref /\ u.closed = entries[e].closed
      /\ u.buf = entries[e].buf
      /\ u.mask = entries[e].mask /\ u.size = entries[e].size /\ u.count = entries[e].count
      /\ entries[e].closed => u = entries[e]
      /\ ~entries[e].closed =>
           /\ u.list = entries[e].list \ {t} /\ u.updateMask
           /\ u.cancelled = (entries[e].cancelled \/ (u.list = {} /\ entries[e].buf))
  BY <1>1, UnlistedIs
<1>6. entries' = [entries EXCEPT ![e] = p] /\ rw' = IF entries[e].closed THEN rw ELSE Woken(e)
  BY <1>0, <1>1 DEF RemoveThd, TypeOK
<1> HIDE DEF u
<1>7. /\ p \in DevEntry /\ p.ref = u.ref - 1
      /\ u.ref = 1 => p = NewEntry
      /\ u.ref # 1 => /\ p.list = u.list /\ p.buf = u.buf /\ p.mask = u.mask
                      /\ p.size = u.size /\ p.count = u.count
                      /\ p.updateMask = u.updateMask
                      /\ p.closed = u.closed /\ p.cancelled = u.cancelled
  BY <1>3, <1>5, PutIs
<1> HIDE DEF p
<1>8. entries[e].ref = 1 => rw[e].pc = "none" /\ Joined(e) = {t}
  <2> SUFFICES ASSUME entries[e].ref = 1
               PROVE  rw[e].pc = "none" /\ Joined(e) = {t}
    OBVIOUS
  <2>1. rw[e].pc = "none" /\ Cardinality(Joined(e)) = 1
    BY <1>1, <1>2, JoinedIsFinite DEF Counted
  <2>2. PICK x : Joined(e) = {x}
    BY <2>1, JoinedIsFinite, FS_Singleton
  <2> QED
    BY <1>1, <2>1, <2>2
<1>9. entries[e].closed => entries[e].list = {}
  BY <1>1 DEF Listed
<1>10. /\ entries' \in [EntryIds -> DevEntry] /\ entries'[e] = p
       /\ \A f \in EntryIds : f # e => entries'[f] = entries[f]
  BY <1>1, <1>6, <1>7 DEF TypeOK
<1>11. /\ thds' \in [Handles -> ThdEntry] /\ thds'[t] = NewThd
       /\ \A v \in Handles : v # t => thds'[v] = thds[v]
  BY NewThdIs DEF TypeOK
<1>14. /\ rw' \in [EntryIds -> RwThd]
       /\ \A f \in EntryIds : f # e => rw'[f] = rw[f]
       /\ entries[e].closed => rw'[e] = rw[e]
       /\ rw'[e].pc = IF rw[e].pc = "asleep" THEN "top" ELSE rw[e].pc
       /\ rw'[e].size = rw[e].size
  <2>1. CASE entries[e].closed
    <3>1. rw[e].pc \notin Live
      BY <1>1, <2>1 DEF Phases
    <3> QED
      BY <1>6, <2>1, <3>1 DEF TypeOK, Live
  <2>2. CASE ~entries[e].closed
    BY <1>1, <1>6, <2>2, WokenIs DEF TypeOK
  <2> QED
    BY <2>1, <2>2
<1>15. entries[e].ref # 1 => p.list = entries[e].list \ {t}
  BY <1>5, <1>7, <1>9
<1> QED
  BY <1>0, <1>1, <1>3, <1>4, <1>5, <1>7, <1>8, <1>10, <1>11, <1>14, <1>15 DEF Removes

LEMMA RemoveIsInv ==
  ASSUME ShareInv, NEW t \in Handles, thds[t].used, RemoveThd(t),
         thds' = [thds EXCEPT ![t] = NewThd], data' = data
  PROVE  Owned' /\ Listed' /\ Counted' /\ Phases' /\ Current' /\ Sized'
<1>1. PICK e \in EntryIds : t \in Joined(e) /\ Removes(t, e)
  BY RemoveIs
<1> USE DEF ShareInv
<1> DEFINE n == entries'[e]
<1>2. /\ entries[e].ref = 1 => rw[e].pc = "none" /\ Joined(e) = {t} /\ n = NewEntry
      /\ entries[e].ref # 1 =>
           /\ n.closed = entries[e].closed /\ n.buf = entries[e].buf
           /\ n.size = entries[e].size /\ n.list = entries[e].list \ {t}
           /\ ~entries[e].closed => n.updateMask
      /\ entries[e].closed => rw'[e] = rw[e]
      /\ ~entries[e].closed => rw[e].pc \in Live
      /\ rw'[e].pc = IF rw[e].pc = "asleep" THEN "top" ELSE rw[e].pc
      /\ rw'[e].size = rw[e].size
      /\ n.ref = entries[e].ref - 1
      /\ \A f \in EntryIds : f # e => entries'[f] = entries[f] /\ rw'[f] = rw[f]
  BY <1>1 DEF Removes
<1>3. entries[e] \in DevEntry
  BY DEF TypeOK
<1>4. Owned'
  <2>1. ~NewThd.used
    BY DEF NewThd
  <2> QED
    BY <1>1, <2>1 DEF Owned, Removes
<1>5. Joined(e)' = Joined(e) \ {t} /\ \A f \in EntryIds : f # e => Joined(f)' = Joined(f)
  <2>1. NewThd.entry \notin EntryIds
    BY Constants DEF NewThd
  <2> QED
    BY <1>1, <2>1 DEF Joined, Removes
<1> HIDE DEF n
<1>6. Listed'
  <2>1. n.list = IF n.closed THEN {} ELSE Joined(e)'
    <3>1. CASE entries[e].ref = 1
      BY <1>2, <1>5, <3>1, NewEntryIs
    <3>2. CASE entries[e].ref # 1
      BY <1>2, <1>5, <3>2 DEF Listed
    <3> QED
      BY <3>1, <3>2
  <2>2. \A f \in EntryIds : f # e =>
          entries'[f].list = IF entries'[f].closed THEN {} ELSE Joined(f)'
    BY <1>2, <1>5 DEF Listed
  <2> QED
    BY <2>1, <2>2 DEF Listed, n
<1>7. Counted'
  <2>1. Cardinality(Joined(e) \ {t}) = Cardinality(Joined(e)) - 1
    BY <1>1, JoinedIsFinite, FS_RemoveElement
  <2>2. rw'[e].pc = "none" <=> rw[e].pc = "none"
    BY <1>2
  <2>3. n.ref = Cardinality(Joined(e)') + (IF rw'[e].pc = "none" THEN 0 ELSE 1)
    BY <1>2, <1>5, <2>1, <2>2, JoinedIsFinite DEF Counted
  <2>4. \A f \in EntryIds : f # e =>
          entries'[f].ref = Cardinality(Joined(f)') + (IF rw'[f].pc = "none" THEN 0 ELSE 1)
    BY <1>2, <1>5 DEF Counted
  <2> QED
    BY <2>3, <2>4 DEF Counted, n
<1>8. Phases'
  BY <1>2, NewEntryIs DEF Phases, Live, n
<1>9. Current'
  <2>1. data # NoEntry => data \in EntryIds
    BY DEF TypeOK
  <2> QED
    BY <1>2, <2>1 DEF Current, Live
<1>10. Sized'
  BY <1>2, NewEntryIs DEF Sized, Live, Phases, n
<1> QED
  BY <1>4, <1>6, <1>7, <1>8, <1>9, <1>10

\* A session forgets the handle it took back.
LEMMA RemovedIsHeld ==
  ASSUME Held, TypeOK, NEW c \in Clients, NEW t \in Handles, t[1] = c,
         \A u \in Handles : u # t => thds'[u] = thds[u],
         \A d \in Clients : d # c => sess'[d] = sess[d] /\ handles'[d] = handles[d],
         sess'[c].pc \in {"off", "idle"},
         \/ handles'[c] = handles[c] /\ \A i \in 1 .. Len(handles[c]) : handles[c][i] # t
         \/ handles[c] # <<>> /\ t = Head(handles[c]) /\ handles'[c] = Tail(handles[c])
  PROVE  Held'
<1>1. \A d \in Clients : d # c => Own(d)' = Own(d)
  BY DEF Own
<1>2. \A u \in Own(c) : u # t => u \in Own(c)'
  BY DEF Own
<1>3. ASSUME NEW i \in 1 .. Len(handles'[c])
      PROVE  handles'[c][i] \in Own(c)'
  <2>1. CASE handles'[c] = handles[c] /\ \A j \in 1 .. Len(handles[c]) : handles[c][j] # t
    BY <1>2, <2>1 DEF Held
  <2>2. CASE handles[c] # <<>> /\ t = Head(handles[c]) /\ handles'[c] = Tail(handles[c])
    <3>1. handles[c] \in Seq(Handles) /\ Injective(handles[c])
      BY DEF TypeOK, Held
    <3>2. handles'[c][i] = handles[c][i + 1] /\ i + 1 \in 1 .. Len(handles[c])
          /\ handles'[c][i] # t
      BY <1>3, <2>2, <3>1, Popped
    <3> QED
      BY <1>2, <3>2 DEF Held
  <2> QED
    BY <2>1, <2>2
<1>4. Injective(handles'[c])
  <2>1. handles[c] \in Seq(Handles) /\ Injective(handles[c])
    BY DEF TypeOK, Held
  <2>2. handles[c] # <<>> => Injective(Tail(handles[c]))
    BY <2>1, Popped
  <2> QED
    BY <2>1, <2>2
<1>5. \A d \in Clients : d # c =>
        /\ \A i \in 1 .. Len(handles'[d]) : handles'[d][i] \in Own(d)'
        /\ Injective(handles'[d])
        /\ sess'[d].pc \in {"check", "open"} =>
             /\ sess'[d].thd \in Own(d)'
             /\ \A i \in 1 .. Len(handles'[d]) : handles'[d][i] # sess'[d].thd
        /\ sess'[d].pc \in {"ask", "rw"} =>
             handles'[d] # <<>> /\ sess'[d].thd = Head(handles'[d])
  BY <1>1 DEF Held
<1> QED
  BY <1>3, <1>4, <1>5 DEF Held
-----------------------------------------------------------------------------
(* The sessions. *)

LEMMA WorkIsInv ==
  ASSUME ShareInv, TypeOK', Works, Sized', \A c \in Clients : Stays(c)
  PROVE  ShareInv'
<1>1. Owned' /\ Listed' /\ Counted' /\ Phases' /\ Current'
  BY WorksIsInv
<1>2. Held'
  BY StaysIsInv DEF ShareInv, Works, Same
<1> QED
  BY <1>1, <1>2 DEF ShareInv

\* Nothing of the entries and their threads changes, and at most the events of handles.
LEMMA SessionIsInv ==
  ASSUME ShareInv, UNCHANGED <<data, entries, rw, handles>>,
         thds' \in [Handles -> ThdEntry],
         \A t \in Handles : Same(thds'[t], thds[t]) /\ (~thds[t].used => thds'[t] = thds[t]),
         sess' \in [Clients -> Interpreter], \A c \in Clients : Stays(c),
         hung' \in [Clients -> BOOLEAN], stop' \in BOOLEAN
  PROVE  ShareInv'
<1>1. TypeOK'
  BY DEF ShareInv, TypeOK
<1>2. Works
  BY DEF Works
<1>3. Sized'
  BY DEF ShareInv, Sized
<1> QED
  BY <1>1, <1>2, <1>3, WorkIsInv

LEMMA OneHandle ==
  ASSUME TypeOK, NEW t \in Handles, NEW h \in ThdEntry, thds' = [thds EXCEPT ![t] = h]
  PROVE  /\ thds' \in [Handles -> ThdEntry] /\ thds'[t] = h
         /\ \A u \in Handles : u # t => thds'[u] = thds[u]
  BY DEF TypeOK

\* The handle that was opened is put first.
LEMMA OpenEndsIsInv ==
  ASSUME ShareInv, NEW c \in Clients, NEW t \in Handles,
         sess[c].pc \in {"check", "open"}, t = sess[c].thd,
         UNCHANGED <<data, entries, rw, hung, stop>>,
         handles' = [handles EXCEPT ![c] = <<t>> \o @],
         thds' \in [Handles -> ThdEntry],
         \A u \in Handles : Same(thds'[u], thds[u]) /\ (~thds[u].used => thds'[u] = thds[u]),
         sess' = [sess EXCEPT ![c] = Idle(@)]
  PROVE  ShareInv'
<1> USE DEF ShareInv
<1> DEFINE q == handles[c]
           p == <<t>> \o q
<1>1. q \in Seq(Handles) /\ Injective(q) /\ t \in Own(c) /\ \A i \in 1 .. Len(q) : q[i] # t
  BY DEF TypeOK, Held
<1>2. /\ p \in Seq(Handles) /\ p # <<>> /\ Injective(p)
      /\ Len(p) = Len(q) + 1 /\ p[1] = t /\ \A i \in 1 .. Len(q) : p[i + 1] = q[i]
  BY <1>1, Prepended
<1>3. Len(q) \in Nat
  BY <1>1
<1> HIDE DEF p
<1>4. /\ handles' \in [Clients -> Seq(Handles)] /\ handles'[c] = p
      /\ \A d \in Clients : d # c => handles'[d] = handles[d]
  BY <1>2 DEF TypeOK, p
<1> DEFINE s == Idle(sess[c])
<1>5. s \in Interpreter /\ s.pc = "idle"
  BY IdleIs DEF TypeOK
<1>6. sess' = [sess EXCEPT ![c] = s]
  BY DEF TypeOK
<1> HIDE DEF s
<1>7. /\ sess' \in [Clients -> Interpreter] /\ sess'[c] = s
      /\ \A d \in Clients : d # c => sess'[d] = sess[d]
  BY <1>5, <1>6, OneSession
<1>8. TypeOK'
  BY <1>4, <1>7 DEF TypeOK
<1>9. \A e : Joined(e)' = Joined(e)
  BY DEF Joined, Same
<1>10. Owned'
  BY DEF Owned, Same
<1>11. Listed' /\ Counted'
  BY <1>9 DEF Listed, Counted
<1>12. Phases' /\ Current' /\ Sized'
  BY DEF Phases, Current, Sized
<1>13. \A d \in Clients : Own(d)' = Own(d)
  BY DEF Own, Same
<1>14. \A i \in 1 .. Len(p) : p[i] \in Own(c)
  <2> SUFFICES ASSUME NEW i \in 1 .. Len(p)
               PROVE  p[i] \in Own(c)
    OBVIOUS
  <2>1. CASE i = 1
    BY <1>1, <1>2, <2>1
  <2>2. CASE i # 1
    <3>1. i - 1 \in 1 .. Len(q) /\ p[(i - 1) + 1] = q[i - 1] /\ (i - 1) + 1 = i
      BY <1>2, <1>3, <2>2
    <3>2. p[i] = q[i - 1]
      BY <3>1
    <3> QED
      BY <3>1, <3>2 DEF Held
  <2> QED
    BY <2>1, <2>2
<1>15. Held'
  <2>1. \A d \in Clients : d # c =>
          /\ \A i \in 1 .. Len(handles'[d]) : handles'[d][i] \in Own(d)'
          /\ Injective(handles'[d])
          /\ sess'[d].pc \in {"check", "open"} =>
               /\ sess'[d].thd \in Own(d)'
               /\ \A i \in 1 .. Len(handles'[d]) : handles'[d][i] # sess'[d].thd
          /\ sess'[d].pc \in {"ask", "rw"} =>
               handles'[d] # <<>> /\ sess'[d].thd = Head(handles'[d])
    BY <1>4, <1>7, <1>13 DEF Held
  <2>2. \A i \in 1 .. Len(handles'[c]) : handles'[c][i] \in Own(c)'
    BY <1>4, <1>13, <1>14
  <2>3. Injective(handles'[c]) /\ sess'[c].pc = "idle"
    BY <1>2, <1>4, <1>5, <1>7
  <2> QED
    BY <2>1, <2>2, <2>3 DEF Held
<1> QED
  BY <1>8, <1>10, <1>11, <1>12, <1>15

\* The handle is taken back.
LEMMA TakenBackIsInv ==
  ASSUME ShareInv, NEW c \in Clients, NEW t \in Handles, thds[t].used, t[1] = c,
         RemoveThd(t), thds' = [thds EXCEPT ![t] = NewThd],
         data' = data, stop' = stop, hung' \in [Clients -> BOOLEAN],
         NEW s \in Interpreter, s.pc \in {"off", "idle"}, sess' = [sess EXCEPT ![c] = s],
         \/ sess[c].pc \in {"check", "open"} /\ t = sess[c].thd /\ handles' = handles
         \/ /\ handles[c] # <<>> /\ t = Head(handles[c])
            /\ handles' = [handles EXCEPT ![c] = Tail(@)]
  PROVE  ShareInv'
<1>1. Owned' /\ Listed' /\ Counted' /\ Phases' /\ Current' /\ Sized'
  BY RemoveIsInv
<1>2. PICK e \in EntryIds : Removes(t, e)
  BY RemoveIs
<1>3. TypeOK /\ Held
  BY DEF ShareInv
<1>4. /\ sess' \in [Clients -> Interpreter] /\ sess'[c] = s
      /\ \A d \in Clients : d # c => sess'[d] = sess[d]
  BY <1>3, OneSession
<1>5. handles[c] \in Seq(Handles) /\ Injective(handles[c])
  BY <1>3 DEF TypeOK, Held
<1>6. handles[c] # <<>> => Tail(handles[c]) \in Seq(Handles)
  BY <1>5, Popped
<1>7. /\ handles' \in [Clients -> Seq(Handles)]
      /\ \A d \in Clients : d # c => handles'[d] = handles[d]
      /\ \/ handles'[c] = handles[c] /\ \A i \in 1 .. Len(handles[c]) : handles[c][i] # t
         \/ handles[c] # <<>> /\ t = Head(handles[c]) /\ handles'[c] = Tail(handles[c])
  <2>1. CASE sess[c].pc \in {"check", "open"} /\ t = sess[c].thd /\ handles' = handles
    BY <1>3, <2>1 DEF TypeOK, Held
  <2>2. CASE /\ handles[c] # <<>> /\ t = Head(handles[c])
             /\ handles' = [handles EXCEPT ![c] = Tail(@)]
    <3> DEFINE q == Tail(handles[c])
    <3>1. q \in Seq(Handles) /\ handles' = [handles EXCEPT ![c] = q]
      BY <1>3, <1>6, <2>2 DEF TypeOK
    <3>2. handles \in [Clients -> Seq(Handles)]
      BY <1>3 DEF TypeOK
    <3> HIDE DEF q
    <3>3. /\ handles' \in [Clients -> Seq(Handles)] /\ handles'[c] = q
          /\ \A d \in Clients : d # c => handles'[d] = handles[d]
      BY <3>1, <3>2
    <3> QED
      BY <2>2, <3>3 DEF q
  <2> QED
    BY <2>1, <2>2
<1>8. TypeOK'
  BY <1>2, <1>3, <1>4, <1>7 DEF TypeOK, Removes
<1>9. Held'
  BY <1>2, <1>3, <1>4, <1>7, RemovedIsHeld DEF Removes
<1> QED
  BY <1>1, <1>8, <1>9 DEF ShareInv

LEMMA CheckOpenIsInv ==
  ASSUME ShareInv, NEW c \in Clients, CheckOpen(c)
  PROVE  ShareInv'
<1> DEFINE t == sess[c].thd
<1>1. TypeOK /\ sess[c].pc = "check" /\ data' = data /\ hung' = hung /\ stop' = stop
  BY DEF ShareInv, CheckOpen
<1>2. t \in Handles /\ t[1] = c /\ thds[t].used /\ sess[c] \in Interpreter
  BY <1>1, OwnHandle DEF TypeOK
<1>3. thds \in [Handles -> ThdEntry] /\ hung' \in [Clients -> BOOLEAN] /\ stop' \in BOOLEAN
  BY <1>1 DEF TypeOK
<1>4. \A u \in Handles : Same(thds[u], thds[u])
  BY SameIs
<1>5. CASE thds[t].waitForOpen
  <2> DEFINE s == [sess[c] EXCEPT !.pc = "open"]
  <2>1. s \in Interpreter /\ s.pc = "open" /\ s.thd = sess[c].thd
    BY <1>2, SessionFields
  <2>2. UNCHANGED <<entries, thds, rw, handles>> /\ sess' = [sess EXCEPT ![c] = s]
    BY <1>1, <1>5 DEF CheckOpen, TypeOK
  <2> HIDE DEF s
  <2>3. /\ sess' \in [Clients -> Interpreter] /\ sess'[c] = s
        /\ \A d \in Clients : d # c => sess'[d] = sess[d]
    BY <1>1, <2>1, <2>2, OneSession
  <2>4. \A d \in Clients : Stays(d)
    BY <1>1, <2>1, <2>3 DEF Stays
  <2> QED
    BY <1>1, <1>3, <1>4, <2>2, <2>3, <2>4, SessionIsInv
<1>6. CASE ~thds[t].waitForOpen
  <2>1. EndOpen(c, t, thds[t].err) /\ sess' = [sess EXCEPT ![c] = Idle(@)]
    BY <1>6 DEF CheckOpen
  <2>2. CASE thds[t].err < 0
    <3> DEFINE s == Idle(sess[c])
    <3>1. s \in Interpreter /\ s.pc = "idle" /\ sess' = [sess EXCEPT ![c] = s]
      BY <1>1, <1>2, <2>1, IdleIs DEF TypeOK
    <3>2. RemoveThd(t) /\ thds' = [thds EXCEPT ![t] = NewThd] /\ handles' = handles
      BY <2>1, <2>2 DEF EndOpen
    <3> HIDE DEF s
    <3> QED
      BY <1>1, <1>2, <1>3, <3>1, <3>2, TakenBackIsInv
  <2>3. CASE ~(thds[t].err < 0)
    <3>1. handles' = [handles EXCEPT ![c] = <<t>> \o @] /\ UNCHANGED <<entries, rw, thds>>
      BY <2>1, <2>3 DEF EndOpen
    <3> QED
      BY <1>1, <1>2, <1>3, <1>4, <2>1, <3>1, OpenEndsIsInv
  <2> QED
    BY <2>2, <2>3
<1> QED
  BY <1>5, <1>6

\* The event of a handle is read.
LEMMA EventRead ==
  ASSUME TypeOK, NEW t \in Handles, thds[t].used,
         thds' = [thds EXCEPT ![t].event = FALSE]
  PROVE  /\ thds' \in [Handles -> ThdEntry]
         /\ \A u \in Handles : Same(thds'[u], thds[u]) /\ (~thds[u].used => thds'[u] = thds[u])
         /\ \A u \in Handles : u # t => thds'[u] = thds[u]
         /\ LET h == thds'[t] IN
            /\ ~h.event /\ h.nb = thds[t].nb /\ h.err = thds[t].err
            /\ h.active = thds[t].active /\ h.newClient = thds[t].newClient
            /\ h.waitForOpen = thds[t].waitForOpen /\ h.header = thds[t].header
<1> DEFINE h == [thds[t] EXCEPT !.event = FALSE]
<1>1. thds[t] \in ThdEntry
  BY DEF TypeOK
<1>2. /\ h \in ThdEntry /\ Same(h, thds[t]) /\ ~h.event /\ h.nb = thds[t].nb
      /\ h.err = thds[t].err
      /\ h.active = thds[t].active /\ h.newClient = thds[t].newClient
      /\ h.waitForOpen = thds[t].waitForOpen /\ h.header = thds[t].header
  BY <1>1 DEF ThdEntry, Same
<1>3. thds' = [thds EXCEPT ![t] = h]
  BY DEF TypeOK
<1> HIDE DEF h
<1>4. /\ thds' \in [Handles -> ThdEntry] /\ thds'[t] = h
      /\ \A u \in Handles : u # t => thds'[u] = thds[u]
  BY <1>2, <1>3, OneHandle
<1> QED
  BY <1>2, <1>4, SameIs

LEMMA OpenWaitIsInv ==
  ASSUME ShareInv, NEW c \in Clients, OpenWait(c)
  PROVE  ShareInv'
<1> DEFINE t == sess[c].thd
<1>1. TypeOK /\ sess[c].pc = "open" /\ data' = data /\ hung' = hung /\ stop' = stop
  BY DEF ShareInv, OpenWait
<1>2. t \in Handles /\ t[1] = c /\ thds[t].used /\ sess[c] \in Interpreter
  BY <1>1, OwnHandle DEF TypeOK
<1>3. hung' \in [Clients -> BOOLEAN] /\ stop' \in BOOLEAN
  BY <1>1 DEF TypeOK
<1>4. CASE thds[t].waitForOpen
  <2>1. thds' = [thds EXCEPT ![t].event = FALSE] /\ UNCHANGED <<entries, rw, sess, handles>>
    BY <1>4 DEF OpenWait
  <2>2. sess' \in [Clients -> Interpreter] /\ \A d \in Clients : Stays(d)
    BY <1>1, <2>1 DEF TypeOK, Stays
  <2>3. /\ thds' \in [Handles -> ThdEntry]
        /\ \A u \in Handles : Same(thds'[u], thds[u]) /\ (~thds[u].used => thds'[u] = thds[u])
    BY <1>1, <1>2, <2>1, EventRead
  <2> QED
    BY <1>1, <1>3, <2>1, <2>2, <2>3, SessionIsInv
<1>5. CASE ~thds[t].waitForOpen /\ thds[t].err < 0
  <2> DEFINE s == Idle(sess[c])
  <2>1. s \in Interpreter /\ s.pc = "idle" /\ sess' = [sess EXCEPT ![c] = s]
    BY <1>1, <1>2, <1>5, IdleIs DEF TypeOK, OpenWait
  <2>2. RemoveThd(t) /\ thds' = [thds EXCEPT ![t] = NewThd] /\ handles' = handles
    BY <1>5 DEF OpenWait, EndOpen
  <2> HIDE DEF s
  <2> QED
    BY <1>1, <1>2, <1>3, <2>1, <2>2, TakenBackIsInv
<1>6. CASE ~thds[t].waitForOpen /\ ~(thds[t].err < 0)
  <2>1. /\ handles' = [handles EXCEPT ![c] = <<t>> \o @]
        /\ thds' = [thds EXCEPT ![t].event = FALSE]
        /\ UNCHANGED <<entries, rw>> /\ sess' = [sess EXCEPT ![c] = Idle(@)]
    BY <1>6 DEF OpenWait
  <2>2. /\ thds' \in [Handles -> ThdEntry]
        /\ \A u \in Handles : Same(thds'[u], thds[u]) /\ (~thds[u].used => thds'[u] = thds[u])
    BY <1>1, <1>2, <2>1, EventRead
  <2> QED
    BY <1>1, <1>2, <2>1, <2>2, OpenEndsIsInv
<1> QED
  BY <1>4, <1>5, <1>6

LEMMA OpenBrokenIsInv ==
  ASSUME ShareInv, NEW c \in Clients, OpenBroken(c)
  PROVE  ShareInv'
<1> DEFINE t == sess[c].thd
           s == Idle(sess[c])
<1>1. TypeOK /\ sess[c].pc = "open" /\ data' = data /\ hung' = hung /\ stop' = stop
  BY DEF ShareInv, OpenBroken
<1>2. t \in Handles /\ t[1] = c /\ thds[t].used /\ sess[c] \in Interpreter
  BY <1>1, OwnHandle DEF TypeOK
<1>3. hung' \in [Clients -> BOOLEAN]
  BY <1>1 DEF TypeOK
<1>4. s \in Interpreter /\ s.pc = "idle" /\ sess' = [sess EXCEPT ![c] = s]
  BY <1>1, <1>2, IdleIs DEF TypeOK, OpenBroken
<1>5. RemoveThd(t) /\ thds' = [thds EXCEPT ![t] = NewThd] /\ handles' = handles
  BY Constants DEF OpenBroken, EndOpen
<1> HIDE DEF s
<1> QED
  BY <1>1, <1>2, <1>3, <1>4, <1>5, TakenBackIsInv

LEMMA CloseIsInv ==
  ASSUME ShareInv, NEW c \in Clients, Close(c)
  PROVE  ShareInv'
<1> DEFINE t == Head(handles[c])
           s == [sess[c] EXCEPT !.left = 0, !.extra = FALSE]
<1>1. /\ TypeOK /\ sess[c].pc = "idle" /\ handles[c] # <<>> /\ RemoveThd(t)
      /\ thds' = [thds EXCEPT ![t] = NewThd] /\ handles' = [handles EXCEPT ![c] = Tail(@)]
      /\ data' = data /\ hung' = hung /\ stop' = stop
  BY DEF ShareInv, Close
<1>2. t \in Handles /\ t[1] = c /\ thds[t].used /\ sess[c] \in Interpreter
  BY <1>1, OwnHandle DEF TypeOK
<1>3. hung' \in [Clients -> BOOLEAN]
  BY <1>1 DEF TypeOK
<1>4. s \in Interpreter /\ s.pc = "idle"
  BY <1>1, <1>2, SessionFields
<1>5. sess' = [sess EXCEPT ![c] = s]
  BY <1>1 DEF TypeOK, Close
<1> HIDE DEF s
<1> QED
  BY <1>1, <1>2, <1>3, <1>4, <1>5, TakenBackIsInv

LEMMA EndSessionIsInv ==
  ASSUME ShareInv, NEW c \in Clients, EndSession(c)
  PROVE  ShareInv'
<1>1. /\ TypeOK /\ sess[c].pc = "idle" /\ sess' = [sess EXCEPT ![c] = NoSession]
      /\ hung' = [hung EXCEPT ![c] = FALSE] /\ data' = data /\ stop' = stop
  BY DEF ShareInv, EndSession
<1>2. NoSession \in Interpreter /\ NoSession.pc = "off"
  BY NoSessionIs
<1>3. hung' \in [Clients -> BOOLEAN] /\ stop' \in BOOLEAN
  BY <1>1 DEF TypeOK
<1>4. CASE handles[c] = <<>>
  <2>1. UNCHANGED <<entries, thds, rw, handles>>
    BY <1>4 DEF EndSession
  <2>2. /\ sess' \in [Clients -> Interpreter] /\ sess'[c] = NoSession
        /\ \A d \in Clients : d # c => sess'[d] = sess[d]
    BY <1>1, <1>2, OneSession
  <2>3. \A d \in Clients : Stays(d)
    BY <1>2, <2>2 DEF Stays
  <2>4. \A u \in Handles : Same(thds'[u], thds[u]) /\ (~thds[u].used => thds'[u] = thds[u])
    BY <2>1, SameIs
  <2>5. thds' \in [Handles -> ThdEntry]
    BY <1>1, <2>1 DEF TypeOK
  <2> QED
    BY <1>1, <1>3, <2>1, <2>2, <2>3, <2>4, <2>5, SessionIsInv
<1>5. CASE handles[c] # <<>>
  <2> DEFINE t == Head(handles[c])
  <2>1. /\ RemoveThd(t) /\ thds' = [thds EXCEPT ![t] = NewThd]
        /\ handles' = [handles EXCEPT ![c] = Tail(@)]
    BY <1>5 DEF EndSession
  <2>2. t \in Handles /\ t[1] = c /\ thds[t].used
    BY <1>5, OwnHandle
  <2> QED
    BY <1>1, <1>2, <1>3, <1>5, <2>1, <2>2, TakenBackIsInv
<1> QED
  BY <1>4, <1>5

LEMMA ConnectIsInv ==
  ASSUME ShareInv, NEW c \in Clients, Connect(c)
  PROVE  ShareInv'
<1> DEFINE s == [NoSession EXCEPT !.pc = "idle"]
<1>1. /\ TypeOK /\ sess[c].pc = "off" /\ sess' = [sess EXCEPT ![c] = s]
      /\ UNCHANGED <<data, entries, thds, rw, hung, stop>>
  BY DEF ShareInv, Connect
<1>2. s \in Interpreter /\ s.pc = "idle"
  BY NoSessionIs
<1> HIDE DEF s
<1>3. /\ sess' \in [Clients -> Interpreter] /\ sess'[c] = s
      /\ \A d \in Clients : d # c => sess'[d] = sess[d]
  BY <1>1, <1>2, OneSession
<1>4. handles' = [handles EXCEPT ![c] = <<>>]
  BY DEF Connect
<1>5. /\ handles' \in [Clients -> Seq(Handles)] /\ handles'[c] = <<>>
      /\ \A d \in Clients : d # c => handles'[d] = handles[d]
  BY <1>1, <1>4 DEF TypeOK
<1>6. TypeOK'
  BY <1>1, <1>3, <1>5 DEF TypeOK
<1>7. \A e : Joined(e)' = Joined(e)
  BY <1>1 DEF Joined
<1>8. Owned' /\ Listed' /\ Counted' /\ Phases' /\ Current' /\ Sized'
  <2>1. Owned' /\ Sized'
    BY <1>1 DEF ShareInv, Owned, Sized
  <2>2. Listed' /\ Counted'
    BY <1>1, <1>7 DEF ShareInv, Listed, Counted
  <2>3. Phases' /\ Current'
    BY <1>1 DEF ShareInv, Phases, Current
  <2> QED
    BY <2>1, <2>2, <2>3
<1>9. \A d \in Clients : Own(d)' = Own(d)
  BY <1>1 DEF Own
<1>10. Held'
  BY <1>2, <1>3, <1>5, <1>9 DEF ShareInv, Held, Injective
<1> QED
  BY <1>6, <1>8, <1>10 DEF ShareInv

\* Nothing changes but who listens.
LEMMA OutsideIsInv ==
  ASSUME ShareInv, UNCHANGED <<data, entries, thds, rw, sess, handles>>,
         hung' \in [Clients -> BOOLEAN], stop' \in BOOLEAN
  PROVE  ShareInv'
<1>1. \A u \in Handles : Same(thds'[u], thds[u]) /\ (~thds[u].used => thds'[u] = thds[u])
  BY SameIs
<1>2. \A c \in Clients : Stays(c)
  BY DEF Stays
<1>3. thds' \in [Handles -> ThdEntry] /\ sess' \in [Clients -> Interpreter]
  BY DEF ShareInv, TypeOK
<1> QED
  BY <1>1, <1>2, <1>3, SessionIsInv

\* The entry of a handle has its thread until it is closed.
LEMMA LiveIs ==
  ASSUME ShareInv, NEW t \in Handles, NEW e \in EntryIds, thds[t].entry = e,
         ~entries[e].closed
  PROVE  rw[e].pc \in Live /\ t \in Joined(e) /\ t \in entries[e].list /\ data = e
<1>1. t \in Joined(e) /\ t \in entries[e].list
  BY DEF ShareInv, Listed, Joined
<1>2. entries[e] # NewEntry
  BY <1>1, NewEntryIs
<1>3. rw[e].pc \in Live
  BY <1>2 DEF ShareInv, Phases, TypeOK, RwThd, Live
<1> QED
  BY <1>1, <1>3 DEF ShareInv, Current

\* What a request writes.
Asks(c, t, e) ==
  LET h == thds'[t]
      s == sess'[c]
  IN
  /\ sess[c].pc = "ask" /\ handles[c] # <<>> /\ t = Head(handles[c])
  /\ thds[t].nb = 0 /\ thds[t].used
  /\ thds[t].entry = e /\ ~entries[e].closed
  /\ thds' \in [Handles -> ThdEntry] /\ \A u \in Handles : u # t => thds'[u] = thds[u]
  /\ Same(h, thds[t]) /\ h.newClient /\ h.nb = Request(t) /\ h.err = 0 /\ h.active
  /\ h.event = thds[t].event /\ h.waitForOpen = thds[t].waitForOpen
  /\ h.header = thds[t].header
  /\ rw' = Woken(e)
  /\ sess' \in [Clients -> Interpreter] /\ \A d \in Clients : d # c => sess'[d] = sess[d]
  /\ s.pc = "rw" /\ s.thd = t /\ s.nb = Request(t) /\ ~s.extra
  /\ s.left = IF thds[t].writer THEN 2 ELSE Request(t)
  /\ UNCHANGED <<data, entries, handles, hung, stop>>

\* A session comes to a request, or leaves one that is refused.
Pauses(c) ==
  LET s == sess'[c] IN
  /\ sess[c].pc \in {"idle", "ask"}
  /\ sess' \in [Clients -> Interpreter] /\ \A d \in Clients : d # c => sess'[d] = sess[d]
  /\ s.left = sess[c].left /\ s.extra = sess[c].extra
  /\ s.pc = "idle" \/ (s.pc = "ask" /\ handles[c] # <<>> /\ s.thd = Head(handles[c]))
  /\ UNCHANGED <<data, entries, thds, rw, handles, hung, stop>>

LEMMA MeasureIs ==
  ASSUME ShareInv, NEW c \in Clients, Measure(c)
  PROVE  Pauses(c)
<1>1. PICK t \in Handles : t = Head(handles[c])
  BY OwnHandle DEF Measure
<1> DEFINE s == [sess[c] EXCEPT !.pc = "ask", !.thd = t]
<1>2. sess[c] \in Interpreter /\ sess \in [Clients -> Interpreter]
  BY DEF ShareInv, TypeOK
<1>3. /\ sess[c].pc = "idle" /\ handles[c] # <<>>
      /\ sess' = [sess EXCEPT ![c] = s]
      /\ UNCHANGED <<data, entries, thds, rw, handles, hung, stop>>
  BY <1>1, <1>2 DEF Measure
<1>4. /\ s \in Interpreter /\ s.pc = "ask" /\ s.thd = t
      /\ s.left = sess[c].left /\ s.extra = sess[c].extra
  BY <1>1, <1>2 DEF Interpreter
<1> HIDE DEF s
<1>5. /\ sess' \in [Clients -> Interpreter] /\ sess'[c] = s
      /\ \A d \in Clients : d # c => sess'[d] = sess[d]
  BY <1>2, <1>3, <1>4
<1> QED
  BY <1>1, <1>3, <1>4, <1>5 DEF Pauses

LEMMA RwIs ==
  ASSUME ShareInv, NEW c \in Clients, Rw(c)
  PROVE  Pauses(c) \/ \E t \in Handles : \E e \in EntryIds : Asks(c, t, e)
<1>1. TypeOK
  BY DEF ShareInv
<1>2. sess[c].pc = "ask" /\ handles[c] # <<>> /\ sess[c].thd = Head(handles[c])
  BY DEF Rw, ShareInv, Held
<1>3. PICK t \in Handles : t = Head(handles[c]) /\ thds[t].used /\ thds[t].entry \in EntryIds
  BY <1>2, OwnHandle
<1>4. PICK e \in EntryIds : e = thds[t].entry
  BY <1>3
<1>5. PICK nb \in Nat : nb = Request(t)
  BY <1>3, RequestIs
<1> DEFINE left == IF thds[t].writer THEN 2 ELSE nb
           h == [thds[t] EXCEPT !.newClient = TRUE, !.nb = nb, !.err = 0, !.active = TRUE]
           s == [sess[c] EXCEPT !.pc = "rw", !.nb = nb, !.extra = FALSE,
                                !.left = left]
<1> DEFINE i == Idle(sess[c])
<1>refused. CASE entries[e].closed \/ thds[t].nb # 0
  <2>1. /\ sess' = [sess EXCEPT ![c] = i]
        /\ UNCHANGED <<data, entries, thds, rw, handles, hung, stop>>
    BY <1>1, <1>2, <1>3, <1>4, <1>refused DEF Rw, TypeOK
  <2>2. i \in Interpreter /\ i.pc = "idle" /\ i.left = sess[c].left /\ i.extra = sess[c].extra
    BY <1>1, IdleIs DEF TypeOK
  <2> HIDE DEF i
  <2>3. /\ sess' \in [Clients -> Interpreter] /\ sess'[c] = i
        /\ \A d \in Clients : d # c => sess'[d] = sess[d]
    BY <1>1, <2>1, <2>2, OneSession
  <2> QED
    BY <1>2, <2>1, <2>2, <2>3 DEF Pauses
<1> SUFFICES ASSUME ~(entries[e].closed \/ thds[t].nb # 0)
             PROVE  \E u \in Handles : \E f \in EntryIds : Asks(c, u, f)
  BY <1>refused
<1>6. /\ thds' = [thds EXCEPT ![t] = h] /\ sess' = [sess EXCEPT ![c] = s]
      /\ rw' = Woken(e) /\ UNCHANGED <<data, entries, handles, hung, stop>>
  <2>1. sess[c].thd = t /\ thds[t].entry = e
    BY <1>2, <1>3, <1>4
  <2>2. /\ thds' = [thds EXCEPT ![t].newClient = TRUE, ![t].nb = nb, ![t].err = 0,
                                ![t].active = TRUE]
        /\ sess' = [sess EXCEPT ![c].pc = "rw", ![c].nb = nb, ![c].extra = FALSE,
                                ![c].left = left]
        /\ rw' = Woken(e) /\ UNCHANGED <<data, entries, handles, hung, stop>>
    BY <1>5, <2>1 DEF Rw
  <2> QED
    BY <1>1, <2>2 DEF TypeOK
<1>7. /\ h \in ThdEntry /\ Same(h, thds[t]) /\ h.newClient /\ h.nb = nb /\ h.err = 0 /\ h.active
      /\ h.event = thds[t].event /\ h.waitForOpen = thds[t].waitForOpen
      /\ h.header = thds[t].header
  <2>1. thds[t] \in ThdEntry
    BY <1>1 DEF TypeOK
  <2> QED
    BY <2>1 DEF ThdEntry, Same
<1>8. left \in Int
  OBVIOUS
<1> HIDE DEF left
<1>9. /\ s \in Interpreter /\ s.pc = "rw" /\ s.thd = t /\ s.nb = nb /\ ~s.extra
      /\ s.left = left
  <2>1. sess[c] \in Interpreter
    BY <1>1 DEF TypeOK
  <2> QED
    BY <1>2, <1>3, <1>5, <1>8, <2>1 DEF Interpreter
<1> HIDE DEF h, s
<1>10. /\ thds' \in [Handles -> ThdEntry] /\ thds'[t] = h
       /\ \A u \in Handles : u # t => thds'[u] = thds[u]
  BY <1>1, <1>6, <1>7, OneHandle
<1>11. /\ sess' \in [Clients -> Interpreter] /\ sess'[c] = s
       /\ \A d \in Clients : d # c => sess'[d] = sess[d]
  BY <1>1, <1>6, <1>9, OneSession
<1>12. /\ thds'[t].nb = Request(t) /\ sess'[c].nb = Request(t)
       /\ sess'[c].left = IF thds[t].writer THEN 2 ELSE Request(t)
  BY <1>5, <1>7, <1>9, <1>10, <1>11 DEF left
<1>13. Asks(c, t, e)
  BY <1>2, <1>3, <1>4, <1>6, <1>7, <1>9, <1>10, <1>11, <1>12 DEF Asks
<1> QED
  BY <1>13

\* The thread is woken, and nothing else of the entries and the threads changes.
LEMMA WokenIsInv ==
  ASSUME ShareInv, NEW e \in EntryIds, ~entries[e].closed, rw[e].pc \in Live,
         rw' = Woken(e), UNCHANGED <<data, entries, handles, hung, stop>>,
         thds' \in [Handles -> ThdEntry],
         \A t \in Handles : Same(thds'[t], thds[t]) /\ (~thds[t].used => thds'[t] = thds[t]),
         sess' \in [Clients -> Interpreter], \A c \in Clients : Stays(c)
  PROVE  ShareInv'
<1>1. TypeOK
  BY DEF ShareInv
<1>2. /\ rw' \in [EntryIds -> RwThd] /\ \A f \in EntryIds : f # e => rw'[f] = rw[f]
      /\ rw'[e].pc = IF rw[e].pc = "asleep" THEN "top" ELSE rw[e].pc
      /\ rw'[e].size = rw[e].size
  BY <1>1, WokenIs DEF TypeOK
<1>3. TypeOK'
  BY <1>1, <1>2 DEF TypeOK
<1>4. Works
  BY <1>2 DEF Works, Live
<1>5. Sized'
  BY <1>2 DEF ShareInv, Sized
<1> QED
  BY <1>3, <1>4, <1>5, WorkIsInv

LEMMA PausesIsInv ==
  ASSUME ShareInv, NEW c \in Clients, Pauses(c)
  PROVE  ShareInv'
<1>1. \A u \in Handles : Same(thds'[u], thds[u]) /\ (~thds[u].used => thds'[u] = thds[u])
  BY SameIs DEF Pauses
<1>2. \A d \in Clients : Stays(d)
  BY DEF Pauses, Stays
<1>3. thds' \in [Handles -> ThdEntry] /\ hung' \in [Clients -> BOOLEAN] /\ stop' \in BOOLEAN
  BY DEF Pauses, ShareInv, TypeOK
<1> QED
  BY <1>1, <1>2, <1>3, SessionIsInv DEF Pauses

LEMMA RwIsInv ==
  ASSUME ShareInv, NEW c \in Clients, Rw(c)
  PROVE  ShareInv'
<1> SUFFICES ASSUME ~Pauses(c)
             PROVE  ShareInv'
  BY PausesIsInv
<1>1. PICK t \in Handles, e \in EntryIds : Asks(c, t, e)
  BY RwIs
<1>2. rw[e].pc \in Live
  BY <1>1, LiveIs DEF Asks
<1>3. \A u \in Handles : Same(thds'[u], thds[u]) /\ (~thds[u].used => thds'[u] = thds[u])
  BY <1>1, SameIs DEF Asks
<1>4. \A d \in Clients : Stays(d)
  BY <1>1 DEF Asks, Stays
<1> QED
  BY <1>1, <1>2, <1>3, <1>4, WokenIsInv DEF Asks

\* What the end of a request writes.
Answers(c, t) ==
  LET h == thds'[t] IN
  /\ sess[c].pc = "rw" /\ t = sess[c].thd /\ thds[t].event /\ ~Gone(c) /\ ~thds[t].active
  /\ thds' \in [Handles -> ThdEntry] /\ \A u \in Handles : u # t => thds'[u] = thds[u]
  /\ Same(h, thds[t]) /\ ~h.newClient /\ h.nb = thds[t].nb /\ h.err = 0 /\ ~h.active
  /\ ~h.event /\ h.waitForOpen = thds[t].waitForOpen
  /\ sess' \in [Clients -> Interpreter] /\ \A d \in Clients : d # c => sess'[d] = sess[d]
  /\ sess'[c] = Idle(Answered(sess[c], thds[t].err, thds[t].writer))
  /\ sess'[c].pc = "idle"
  /\ UNCHANGED <<data, entries, rw, handles, hung, stop>>

\* An event while the request is not over is read, and the session waits on.
Reads(c, t) ==
  LET h == thds'[t] IN
  /\ sess[c].pc = "rw" /\ t = sess[c].thd /\ thds[t].event /\ thds[t].active
  /\ thds' \in [Handles -> ThdEntry] /\ \A u \in Handles : u # t => thds'[u] = thds[u]
  /\ Same(h, thds[t]) /\ ~h.event /\ h.nb = thds[t].nb /\ h.err = thds[t].err
  /\ h.active = thds[t].active /\ h.newClient = thds[t].newClient
  /\ h.waitForOpen = thds[t].waitForOpen /\ h.header = thds[t].header
  /\ UNCHANGED <<data, entries, rw, sess, handles, hung, stop>>

LEMMA RwWaitIs ==
  ASSUME ShareInv, NEW c \in Clients, RwWait(c)
  PROVE  \E t \in Handles : thds[t].used /\ (Answers(c, t) \/ Reads(c, t))
<1>1. TypeOK
  BY DEF ShareInv
<1>2. PICK t \in Handles : t = sess[c].thd /\ thds[t].used
  BY OwnHandle DEF RwWait
<1>3. /\ sess[c].pc = "rw" /\ thds[t].event /\ ~Gone(c)
      /\ UNCHANGED <<data, entries, rw, handles, hung, stop>>
  BY <1>2 DEF RwWait
<1>4. CASE thds[t].active
  <2>1. thds' = [thds EXCEPT ![t].event = FALSE] /\ UNCHANGED sess
    BY <1>2, <1>4 DEF RwWait
  <2>2. /\ thds' \in [Handles -> ThdEntry]
        /\ \A u \in Handles : u # t => thds'[u] = thds[u]
        /\ Same(thds'[t], thds[t])
        /\ LET h == thds'[t] IN
           /\ ~h.event /\ h.nb = thds[t].nb /\ h.err = thds[t].err
           /\ h.active = thds[t].active /\ h.newClient = thds[t].newClient
           /\ h.waitForOpen = thds[t].waitForOpen /\ h.header = thds[t].header
    BY <1>1, <1>2, <2>1, EventRead
  <2> QED
    BY <1>2, <1>3, <1>4, <2>1, <2>2 DEF Reads
<1>5. CASE ~thds[t].active
  <2> DEFINE h == [thds[t] EXCEPT !.event = FALSE, !.err = 0, !.header = {},
                                  !.newClient = FALSE]
             a == Answered(sess[c], thds[t].err, thds[t].writer)
             s == Idle(a)
  <2>1. thds' = [thds EXCEPT ![t] = h] /\ sess' = [sess EXCEPT ![c] = s]
    BY <1>1, <1>2, <1>5 DEF RwWait, TypeOK
  <2>2. /\ thds[t] \in ThdEntry /\ thds[t].err \in Errors /\ thds[t].writer \in BOOLEAN
        /\ sess[c] \in Interpreter
    BY <1>1 DEF TypeOK, ThdEntry, Errors
  <2>3. /\ h \in ThdEntry /\ Same(h, thds[t]) /\ ~h.newClient /\ h.nb = thds[t].nb
        /\ h.err = 0 /\ h.active = thds[t].active /\ ~h.event
        /\ h.waitForOpen = thds[t].waitForOpen
    BY <2>2, MasksAre DEF ThdEntry, Same
  <2>4. a \in Interpreter
    BY <2>2, AnsweredIs
  <2> HIDE DEF a
  <2>5. s \in Interpreter /\ s.pc = "idle"
    BY <2>4, IdleIs
  <2> HIDE DEF h, s
  <2>6. /\ thds' \in [Handles -> ThdEntry] /\ thds'[t] = h
        /\ \A u \in Handles : u # t => thds'[u] = thds[u]
    BY <1>1, <2>1, <2>3, OneHandle
  <2>7. /\ sess' \in [Clients -> Interpreter] /\ sess'[c] = s
        /\ \A d \in Clients : d # c => sess'[d] = sess[d]
    BY <1>1, <2>1, <2>5, OneSession
  <2> QED
    BY <1>2, <1>3, <1>5, <2>3, <2>5, <2>6, <2>7 DEF Answers, s, a
<1> QED
  BY <1>4, <1>5

LEMMA RwWaitIsInv ==
  ASSUME ShareInv, NEW c \in Clients, RwWait(c)
  PROVE  ShareInv'
<1>1. PICK t \in Handles : thds[t].used /\ (Answers(c, t) \/ Reads(c, t))
  BY RwWaitIs
<1>2. hung' \in [Clients -> BOOLEAN] /\ stop' \in BOOLEAN
  BY DEF RwWait, ShareInv, TypeOK
<1>3. CASE Answers(c, t)
  <2>1. \A u \in Handles : Same(thds'[u], thds[u]) /\ (~thds[u].used => thds'[u] = thds[u])
    BY <1>1, <1>3, SameIs DEF Answers
  <2>2. \A d \in Clients : Stays(d)
    BY <1>3 DEF Answers, Stays
  <2> QED
    BY <1>2, <1>3, <2>1, <2>2, SessionIsInv DEF Answers
<1>4. CASE Reads(c, t)
  <2>1. \A u \in Handles : Same(thds'[u], thds[u]) /\ (~thds[u].used => thds'[u] = thds[u])
    BY <1>1, <1>4, SameIs DEF Reads
  <2>2. \A d \in Clients : Stays(d)
    BY <1>4 DEF Reads, Stays
  <2>3. sess' \in [Clients -> Interpreter]
    BY <1>4 DEF Reads, ShareInv, TypeOK
  <2> QED
    BY <1>2, <1>4, <2>1, <2>2, <2>3, SessionIsInv DEF Reads
<1> QED
  BY <1>1, <1>3, <1>4

LEMMA RwBrokenIsInv ==
  ASSUME ShareInv, NEW c \in Clients, RwBroken(c)
  PROVE  ShareInv'
<1> DEFINE l == LastLine(sess[c])
           s == Idle(l)
<1>1. TypeOK /\ sess' = [sess EXCEPT ![c] = s]
  BY DEF ShareInv, RwBroken, TypeOK
<1>2. l \in Interpreter
  BY <1>1, LastLineIs DEF TypeOK
<1> HIDE DEF l
<1>3. s \in Interpreter /\ s.pc = "idle"
  BY <1>2, IdleIs
<1> HIDE DEF s
<1>4. /\ sess' \in [Clients -> Interpreter] /\ sess'[c] = s
      /\ \A d \in Clients : d # c => sess'[d] = sess[d]
  BY <1>1, <1>3, OneSession
<1>5. \A d \in Clients : Stays(d)
  BY <1>3, <1>4 DEF Stays
<1>6. UNCHANGED <<data, entries, thds, rw, handles, hung, stop>>
  BY DEF RwBroken
<1>7. \A u \in Handles : Same(thds'[u], thds[u]) /\ (~thds[u].used => thds'[u] = thds[u])
  BY <1>6, SameIs
<1> QED
  BY <1>1, <1>4, <1>5, <1>6, <1>7, SessionIsInv DEF TypeOK

-----------------------------------------------------------------------------
(* The thread of an entry. *)

LEMMA ReleasedIs ==
  ASSUME NEW thd \in ThdEntry, NEW code \in Errors
  PROVE  LET h == [Signalled(thd, code) EXCEPT !.waitForOpen = FALSE] IN
         /\ h \in ThdEntry /\ Same(h, thd) /\ h.err = code /\ h.nb = 0 /\ ~h.active /\ h.event
         /\ ~h.waitForOpen /\ h.newClient = thd.newClient /\ h.header = thd.header
<1> DEFINE s == Signalled(thd, code)
           h == [s EXCEPT !.waitForOpen = FALSE]
<1>1. /\ s \in ThdEntry /\ Same(s, thd) /\ s.err = code /\ s.nb = 0 /\ ~s.active /\ s.event
      /\ s.newClient = thd.newClient /\ s.header = thd.header
  BY SignalledIs
<1> HIDE DEF s
<1>2. /\ h \in ThdEntry /\ Same(h, s) /\ h.active = s.active /\ h.err = s.err
      /\ h.nb = s.nb /\ h.event = s.event /\ h.newClient = s.newClient
      /\ ~h.waitForOpen /\ h.header = s.header
  BY <1>1 DEF ThdEntry, Same
<1> HIDE DEF h
<1>3. Same(h, thd)
  BY <1>1, <1>2, SameIs
<1> QED
  BY <1>1, <1>2, <1>3 DEF h, s

\* The handles in a list are on its entry, and used.
LEMMA ListIs ==
  ASSUME ShareInv, NEW e \in EntryIds
  PROVE  /\ entries[e] \in DevEntry /\ entries[e].list \subseteq Joined(e)
         /\ \A t \in entries[e].list :
              t \in Handles /\ thds[t].used /\ thds[t].entry = e /\ thds[t] \in ThdEntry
<1>1. entries[e].list \subseteq Joined(e) /\ entries[e] \in DevEntry
  BY DEF ShareInv, Listed, TypeOK
<1>2. \A t \in Joined(e) : t \in Handles /\ thds[t].entry = e /\ thds[t].entry # NoEntry
  BY Constants DEF Joined
<1>3. \A t \in Joined(e) : thds[t].used
  BY <1>2 DEF ShareInv, Owned, NewThd
<1> QED
  BY <1>1, <1>2, <1>3 DEF ShareInv, TypeOK

\* What the end of the loop writes.
Ends(e, code) ==
  LET n == entries'[e] IN
  /\ rw[e].pc = "top" /\ rw' \in [EntryIds -> RwThd] /\ rw'[e].pc = "leave"
  /\ code = Failed \/ entries[e].list = {}
  /\ \A f \in EntryIds : f # e => rw'[f] = rw[f] /\ entries'[f] = entries[f]
  /\ entries' \in [EntryIds -> DevEntry] /\ n.ref = entries[e].ref /\ n.closed
  /\ n.list = {} /\ ~n.buf /\ ~n.cancelled
  /\ thds' \in [Handles -> ThdEntry]
  /\ \A t \in Handles : t \notin entries[e].list => thds'[t] = thds[t]
  /\ \A t \in entries[e].list : LET h == thds'[t] IN
       /\ Same(h, thds[t]) /\ h.err = code /\ h.nb = 0 /\ ~h.active /\ h.event
       /\ ~h.waitForOpen /\ h.newClient = thds[t].newClient /\ h.header = thds[t].header
  /\ UNCHANGED <<data, sess, handles, hung, stop>>

LEMMA EndsIs ==
  ASSUME ShareInv, NEW e \in EntryIds, ListEmpty(e) \/ CreateFails(e)
  PROVE  \E code \in {0, Failed} : Ends(e, code)
<1>1. TypeOK
  BY DEF ShareInv
<1>2. PICK code \in {0, Failed} :
        /\ LeaveLoop(e, code) /\ rw[e].pc = "top" /\ UNCHANGED <<data, sess, handles, hung, stop>>
        /\ code = Failed \/ entries[e].list = {}
  BY DEF ListEmpty, CreateFails
<1>3. code \in Errors
  BY <1>2 DEF Errors
<1> DEFINE n == Closed(entries[e])
           h(t) == [Signalled(thds[t], code) EXCEPT !.waitForOpen = FALSE]
<1>4. /\ entries' = [entries EXCEPT ![e] = n] /\ rw' = [rw EXCEPT ![e] = At("leave")]
      /\ thds' = [t \in Handles |-> IF t \in entries[e].list THEN h(t) ELSE thds[t]]
  BY <1>1, <1>2 DEF LeaveLoop, TypeOK
<1>5. entries[e] \in DevEntry /\ \A t \in entries[e].list : t \in Handles /\ thds[t] \in ThdEntry
  BY ListIs
<1>6. \A t \in entries[e].list :
        /\ h(t) \in ThdEntry /\ Same(h(t), thds[t]) /\ h(t).err = code /\ h(t).nb = 0
        /\ ~h(t).active /\ h(t).event /\ ~h(t).waitForOpen
        /\ h(t).newClient = thds[t].newClient /\ h(t).header = thds[t].header
  BY <1>3, <1>5, ReleasedIs
<1>7. /\ n \in DevEntry /\ n.ref = entries[e].ref /\ n.closed /\ n.list = {} /\ ~n.buf
      /\ ~n.cancelled
  BY <1>5, ClosedIs
<1>8. At("leave") \in RwThd /\ At("leave").pc = "leave"
  BY AtIs
<1> HIDE DEF n, h
<1>9. /\ rw' \in [EntryIds -> RwThd] /\ rw'[e].pc = "leave"
      /\ \A f \in EntryIds : f # e => rw'[f] = rw[f] /\ entries'[f] = entries[f]
      /\ entries' \in [EntryIds -> DevEntry] /\ entries'[e] = n
  BY <1>1, <1>4, <1>7, <1>8 DEF TypeOK
<1>10. /\ \A t \in Handles : t \notin entries[e].list => thds'[t] = thds[t]
       /\ \A t \in entries[e].list : thds'[t] = h(t)
  BY <1>4, <1>5
<1>11. thds' \in [Handles -> ThdEntry]
  BY <1>1, <1>4, <1>6 DEF TypeOK
<1> QED
  BY <1>2, <1>6, <1>7, <1>9, <1>10, <1>11 DEF Ends

LEMMA EndsIsInv ==
  ASSUME ShareInv, NEW e \in EntryIds, NEW code, Ends(e, code)
  PROVE  ShareInv'
<1> USE DEF ShareInv
<1>1. TypeOK'
  BY DEF TypeOK, Ends
<1>2. \A t \in Handles : Same(thds'[t], thds[t]) /\ (~thds[t].used => thds'[t] = thds[t])
  BY ListIs, SameIs DEF Ends
<1>3. \A f : Joined(f)' = Joined(f)
  BY <1>2 DEF Joined, Same
<1>4. Owned'
  BY <1>2 DEF Owned, Same
<1>5. Listed'
  BY <1>3 DEF Listed, Ends
<1>6. Counted'
  <2>1. \A f \in EntryIds : entries'[f].ref = entries[f].ref
    BY DEF Ends
  <2>2. \A f \in EntryIds : rw'[f].pc = "none" <=> rw[f].pc = "none"
    BY DEF Ends
  <2> QED
    BY <1>3, <2>1, <2>2 DEF Counted
<1>7. Phases'
  BY DEF Phases, Ends, Live
<1>8. Current'
  BY DEF Current, Ends, Live
<1>9. \A d \in Clients : Own(d)' = Own(d)
  BY <1>2 DEF Own, Same
<1>10. Held'
  BY <1>9 DEF Held, Ends
<1>11. Sized'
  BY DEF Sized, Ends
<1> QED
  BY <1>1, <1>4, <1>5, <1>6, <1>7, <1>8, <1>10, <1>11

\* What a round of the loop writes.
Turns(e, n) ==
  LET o == entries[e] IN
  /\ rw[e].pc = "top" /\ o.list # {}
  /\ rw' \in [EntryIds -> RwThd]
  /\ rw'[e].pc \in {"refill", "push", "asleep"}
  /\ rw'[e].pc \in {"refill", "push"} => rw'[e].size = n.size
  /\ rw'[e].pc = "asleep" => \A t \in o.list : ~thds'[t].active
  /\ \A f \in EntryIds : f # e => rw'[f] = rw[f] /\ entries'[f] = entries[f]
  /\ entries' \in [EntryIds -> DevEntry] /\ entries'[e] = n
  /\ n.ref = o.ref /\ n.list = o.list /\ n.closed = o.closed /\ ~n.updateMask
  /\ ~o.updateMask => n = o
  /\ o.updateMask => /\ n.buf /\ n.size >= 1 /\ ~n.cancelled
                     /\ \A t \in o.list : /\ thds[t].mask \subseteq n.mask
                                          /\ thds[t].count <= n.count
  /\ thds' \in [Handles -> ThdEntry]
  /\ \A t \in Handles : t \notin o.list => thds'[t] = thds[t]
  /\ \A t \in o.list :
       /\ thds'[t] = Refreshed(thds[t], n, o.updateMask)
       /\ Same(thds'[t], thds[t])
  /\ UNCHANGED <<data, sess, handles, hung, stop>>

LEMMA IterateIs ==
  ASSUME ShareInv, NEW e \in EntryIds, Iterate(e)
  PROVE  \E n \in DevEntry : Turns(e, n)
<1>1. TypeOK /\ rw[e].pc = "top" /\ entries[e].list # {}
  BY DEF ShareInv, Iterate
<1>2. /\ entries[e] \in DevEntry /\ entries[e].updateMask \in BOOLEAN
      /\ \A t \in entries[e].list : t \in Handles /\ thds[t] \in ThdEntry /\ thds[t].mask # {}
  BY ListIs DEF ShareInv, Owned, DevEntry
<1>3. PICK n \in DevEntry : n = Updated(entries[e])
  BY <1>1, <1>2, UpdatedIs
<1>4. /\ n.ref = entries[e].ref /\ n.list = entries[e].list
      /\ n.closed = entries[e].closed /\ ~n.updateMask
      /\ ~entries[e].updateMask => n = entries[e]
      /\ entries[e].updateMask => /\ n.buf /\ n.size >= 1 /\ ~n.cancelled
                                  /\ \A t \in entries[e].list :
                                       /\ thds[t].mask \subseteq n.mask
                                       /\ thds[t].count <= n.count
  BY <1>1, <1>2, <1>3, UpdatedIs
<1> DEFINE r(t) == Refreshed(thds[t], n, entries[e].updateMask)
           after == [t \in Handles |-> IF t \in n.list THEN r(t) ELSE thds[t]]
           active(write) == \E t \in n.list : after[t].active /\ after[t].writer = write
           next == IF active(FALSE) THEN "refill" ELSE IF active(TRUE) THEN "push"
                   ELSE "asleep"
           at == IF next = "asleep" THEN At(next)
                 ELSE [pc |-> next, writers |-> active(TRUE), size |-> n.size]
<1>5. /\ entries' = [entries EXCEPT ![e] = n] /\ thds' = after
      /\ rw' = [rw EXCEPT ![e] = at] /\ UNCHANGED <<data, sess, handles, hung, stop>>
  BY <1>3 DEF Iterate
<1>6. n.size \in Nat
  BY DEF DevEntry
<1>7. \A t \in n.list : r(t) \in ThdEntry /\ Same(r(t), thds[t])
  BY <1>2, <1>4, <1>6, RefreshedIs
<1>8. \A t \in n.list : t \in Handles /\ after[t] = r(t)
  BY <1>2, <1>4
<1>9. after \in [Handles -> ThdEntry] /\ \A t \in Handles : t \notin n.list => after[t] = thds[t]
  BY <1>1, <1>7 DEF TypeOK
<1> HIDE DEF r, after
<1>10. next = "asleep" => \A t \in n.list : ~after[t].active
  BY <1>8, <1>9 DEF ThdEntry
<1>11. next \in {"refill", "push", "asleep"} /\ active(TRUE) \in BOOLEAN
  OBVIOUS
<1> HIDE DEF next, active
<1>12. at \in RwThd /\ at.pc = next /\ (next \in {"refill", "push"} => at.size = n.size)
  BY <1>6, <1>11, AtIs DEF RwThd
<1> HIDE DEF at
<1>13. /\ rw' \in [EntryIds -> RwThd] /\ rw'[e] = at
       /\ \A f \in EntryIds : f # e => rw'[f] = rw[f] /\ entries'[f] = entries[f]
       /\ entries' \in [EntryIds -> DevEntry] /\ entries'[e] = n
  BY <1>1, <1>5, <1>12 DEF TypeOK
<1>14. \A t \in n.list : thds'[t] = Refreshed(thds[t], n, entries[e].updateMask)
  BY <1>5, <1>8 DEF r
<1>15. \A t \in n.list : Same(thds'[t], thds[t])
  BY <1>5, <1>7, <1>8
<1>16. /\ thds' \in [Handles -> ThdEntry]
       /\ \A t \in Handles : t \notin n.list => thds'[t] = thds[t]
       /\ rw'[e].pc = "asleep" => \A t \in n.list : ~thds'[t].active
  BY <1>5, <1>9, <1>10, <1>12, <1>13
<1>17. Turns(e, n)
  BY <1>1, <1>4, <1>5, <1>11, <1>12, <1>13, <1>14, <1>15, <1>16 DEF Turns
<1> QED
  BY <1>17

\* A thread that stays in its loop, while sessions wait on or move on.
LEMMA LoopIsInv ==
  ASSUME ShareInv, NEW e \in EntryIds, rw[e].pc \in Live, rw'[e].pc \in Live,
         rw' \in [EntryIds -> RwThd], \A f \in EntryIds : f # e => rw'[f] = rw[f],
         UNCHANGED <<data, handles, hung, stop>>,
         entries' \in [EntryIds -> DevEntry],
         \A f \in EntryIds : f # e => entries'[f] = entries[f],
         entries'[e].ref = entries[e].ref, entries'[e].list = entries[e].list,
         entries'[e].closed = entries[e].closed,
         thds' \in [Handles -> ThdEntry],
         \A t \in Handles : t \notin entries[e].list => thds'[t] = thds[t],
         \A t \in entries[e].list : Same(thds'[t], thds[t]),
         sess' \in [Clients -> Interpreter], \A c \in Clients : Stays(c),
         Sized'
  PROVE  ShareInv'
<1>1. TypeOK'
  BY DEF ShareInv, TypeOK
<1>2. \A t \in Handles : Same(thds'[t], thds[t]) /\ (~thds[t].used => thds'[t] = thds[t])
  BY ListIs, SameIs
<1>3. Works
  BY <1>2 DEF Works
<1> QED
  BY <1>1, <1>3, WorkIsInv

LEMMA IterateIsInv ==
  ASSUME ShareInv, NEW e \in EntryIds, Iterate(e)
  PROVE  ShareInv'
<1>1. PICK n \in DevEntry : Turns(e, n)
  BY IterateIs
<1>2. Sized'
  <2>1. n.buf /\ n.size >= 1
    BY <1>1 DEF Turns, ShareInv, Sized
  <2> QED
    BY <1>1, <2>1 DEF Turns, ShareInv, Sized
<1>3. \A c \in Clients : Stays(c)
  BY <1>1 DEF Turns, Stays
<1>4. sess' \in [Clients -> Interpreter]
  BY <1>1 DEF Turns, ShareInv, TypeOK
<1>5. rw[e].pc \in Live /\ rw'[e].pc \in Live
  BY <1>1 DEF Turns, Live
<1> QED
  BY <1>1, <1>2, <1>3, <1>4, <1>5, LoopIsInv DEF Turns

LEMMA RefillCancelledIsInv ==
  ASSUME ShareInv, NEW e \in EntryIds, RefillCancelled(e)
  PROVE  ShareInv'
<1>1. /\ TypeOK /\ rw[e].pc = "refill" /\ rw' = [rw EXCEPT ![e] = At("top")]
      /\ UNCHANGED <<data, entries, thds, sess, handles, hung, stop>>
  BY DEF ShareInv, RefillCancelled
<1>2. At("top") \in RwThd /\ At("top").pc = "top"
  BY AtIs
<1>3. /\ rw' \in [EntryIds -> RwThd] /\ rw'[e].pc = "top"
      /\ \A f \in EntryIds : f # e => rw'[f] = rw[f]
  BY <1>1, <1>2 DEF TypeOK
<1>4. Sized'
  BY <1>1, <1>3 DEF ShareInv, Sized
<1>5. /\ \A c \in Clients : Stays(c)
      /\ \A t \in entries[e].list : Same(thds'[t], thds[t])
  BY <1>1, SameIs DEF Stays
<1>6. rw[e].pc \in Live /\ rw'[e].pc \in Live
  BY <1>1, <1>3 DEF Live
<1> QED
  BY <1>1, <1>3, <1>4, <1>5, <1>6, LoopIsInv DEF TypeOK

\* The lock is taken for a push.
Begins(e) ==
  /\ rw[e].pc = "push" /\ rw' \in [EntryIds -> RwThd]
  /\ rw'[e].pc = "pushing" /\ rw'[e].size = rw[e].size
  /\ \A f \in EntryIds : f # e => rw'[f] = rw[f]
  /\ UNCHANGED <<data, entries, thds, sess, handles, hung, stop>>

LEMMA PushBeginsIs ==
  ASSUME ShareInv, NEW e \in EntryIds, PushBegins(e)
  PROVE  Begins(e)
<1> DEFINE at == [rw[e] EXCEPT !.pc = "pushing"]
<1>1. rw \in [EntryIds -> RwThd] /\ rw[e] \in RwThd
  BY DEF ShareInv, TypeOK
<1>2. at \in RwThd /\ at.pc = "pushing" /\ at.size = rw[e].size
  BY <1>1 DEF RwThd
<1>3. /\ rw[e].pc = "push" /\ rw' = [rw EXCEPT ![e] = at]
      /\ UNCHANGED <<data, entries, thds, sess, handles, hung, stop>>
  BY <1>1 DEF PushBegins
<1> HIDE DEF at
<1>4. /\ rw' \in [EntryIds -> RwThd] /\ rw'[e] = at
      /\ \A f \in EntryIds : f # e => rw'[f] = rw[f]
  BY <1>1, <1>2, <1>3
<1> QED
  BY <1>2, <1>3, <1>4 DEF Begins

LEMMA PushBeginsIsInv ==
  ASSUME ShareInv, NEW e \in EntryIds, PushBegins(e)
  PROVE  ShareInv'
<1>1. Begins(e) /\ TypeOK
  BY PushBeginsIs DEF ShareInv
<1>2. Sized'
  BY <1>1 DEF Begins, ShareInv, Sized
<1>3. /\ \A c \in Clients : Stays(c)
      /\ \A t \in entries[e].list : Same(thds'[t], thds[t])
  BY <1>1, SameIs DEF Begins, Stays
<1>4. rw[e].pc \in Live /\ rw'[e].pc \in Live
  BY <1>1 DEF Begins, Live
<1> QED
  BY <1>1, <1>2, <1>3, <1>4, LoopIsInv DEF Begins, TypeOK

\* Whom a refill, or a push, is for.
Readers(e) == {t \in entries[e].list : thds[t].active /\ ~thds[t].writer}
Writers(e) == {t \in entries[e].list : thds[t].active /\ thds[t].writer}

\* What a refill that fails writes.
Fails(e) ==
  /\ rw[e].pc = "refill" /\ ~entries[e].cancelled
  /\ rw' \in [EntryIds -> RwThd] /\ rw'[e].pc = "top"
  /\ \A f \in EntryIds : f # e => rw'[f] = rw[f]
  /\ thds' \in [Handles -> ThdEntry]
  /\ \A t \in Handles : t \notin Readers(e) => thds'[t] = thds[t]
  /\ \A t \in Readers(e) : LET h == thds'[t] IN
       /\ Same(h, thds[t]) /\ h.err = Failed /\ h.nb = 0 /\ ~h.active /\ h.event
       /\ h.newClient = thds[t].newClient /\ h.waitForOpen = thds[t].waitForOpen
       /\ h.header = thds[t].header
  /\ UNCHANGED <<data, entries, sess, handles, hung, stop>>

LEMMA RefillFailsIs ==
  ASSUME ShareInv, NEW e \in EntryIds, RefillFails(e)
  PROVE  Fails(e)
<1> DEFINE h(t) == Signalled(thds[t], Failed)
<1>1. /\ TypeOK /\ rw[e].pc = "refill" /\ ~entries[e].cancelled
      /\ rw' = [rw EXCEPT ![e] = At("top")]
      /\ UNCHANGED <<data, entries, sess, handles, hung, stop>>
  BY DEF ShareInv, RefillFails
<1>2. thds' = [t \in Handles |-> IF t \in Readers(e) THEN h(t) ELSE thds[t]]
  BY DEF RefillFails, Readers
<1>3. At("top") \in RwThd /\ At("top").pc = "top"
  BY AtIs
<1>4. Failed \in Errors
  BY DEF Errors
<1>5. \A t \in Readers(e) : t \in Handles /\ thds[t] \in ThdEntry
  BY ListIs DEF Readers
<1>6. \A t \in Readers(e) :
       /\ h(t) \in ThdEntry /\ Same(h(t), thds[t]) /\ h(t).err = Failed /\ h(t).nb = 0
       /\ ~h(t).active /\ h(t).event /\ h(t).newClient = thds[t].newClient
       /\ h(t).waitForOpen = thds[t].waitForOpen /\ h(t).header = thds[t].header
  BY <1>4, <1>5, SignalledIs
<1> HIDE DEF h
<1>7. /\ rw' \in [EntryIds -> RwThd] /\ rw'[e].pc = "top"
      /\ \A f \in EntryIds : f # e => rw'[f] = rw[f]
  BY <1>1, <1>3 DEF TypeOK
<1>8. /\ \A t \in Handles : t \notin Readers(e) => thds'[t] = thds[t]
      /\ \A t \in Readers(e) : thds'[t] = h(t)
      /\ thds' \in [Handles -> ThdEntry]
  BY <1>1, <1>2, <1>5, <1>6 DEF TypeOK
<1> QED
  BY <1>1, <1>6, <1>7, <1>8 DEF Fails

LEMMA RefillFailsIsInv ==
  ASSUME ShareInv, NEW e \in EntryIds, RefillFails(e)
  PROVE  ShareInv'
<1>1. Fails(e)
  BY RefillFailsIs
<1>2. Sized'
  BY <1>1 DEF Fails, ShareInv, Sized
<1>3. /\ \A c \in Clients : Stays(c)
      /\ sess' \in [Clients -> Interpreter] /\ entries' \in [EntryIds -> DevEntry]
  BY <1>1 DEF Fails, Stays, ShareInv, TypeOK
<1>4. rw[e].pc \in Live /\ rw'[e].pc \in Live
  BY <1>1 DEF Fails, Live
<1>5. /\ \A t \in Handles : t \notin entries[e].list => thds'[t] = thds[t]
      /\ \A t \in entries[e].list : Same(thds'[t], thds[t])
  <2>1. \A t \in entries[e].list : t \in Handles
    BY ListIs
  <2> QED
    BY <1>1, <2>1, SameIs DEF Fails, Readers
<1> QED
  BY <1>1, <1>2, <1>3, <1>4, <1>5, LoopIsInv DEF Fails

\* What a refill writes.
Refills(e, len) ==
  /\ rw[e].pc = "refill" /\ ~entries[e].cancelled
  /\ rw' \in [EntryIds -> RwThd] /\ rw'[e].pc \in {"push", "top"}
  /\ rw'[e].size \in {0, rw[e].size} /\ (rw'[e].pc = "push" => rw'[e].size = rw[e].size)
  /\ \A f \in EntryIds : f # e => rw'[f] = rw[f]
  /\ thds' \in [Handles -> ThdEntry]
  /\ \A t \in Handles : t \notin Readers(e) => thds'[t] = thds[t]
  /\ \A t \in Readers(e) :
       thds'[t] = Given(thds[t], entries[e], len, rw[e].size, t[1]) /\ Same(thds'[t], thds[t])
  /\ sess' \in [Clients -> Interpreter]
  /\ \A c \in Clients : LET s == sess'[c] IN
       /\ s.pc = sess[c].pc /\ s.thd = sess[c].thd /\ s.nb = sess[c].nb
       /\ s.extra = sess[c].extra
       /\ s.left = IF sess[c].pc = "rw" /\ sess[c].thd \in Readers(e) /\ ~Gone(c)
                   THEN sess[c].left - ToSend(entries[e], thds[sess[c].thd], len)
                   ELSE sess[c].left
  /\ UNCHANGED <<data, entries, handles, hung, stop>>

LEMMA LengthsAre ==
  ASSUME ShareInv, NEW e \in EntryIds, NEW len \in Lengths(e)
  PROVE  len \in Nat
<1>1. entries[e].size \in Nat /\ entries[e].count \in Nat
  BY DEF ShareInv, TypeOK, DevEntry
<1>2. PICK n \in {(entries[e].count + 1) \div 2, entries[e].count} : len = entries[e].size * n
  BY DEF Lengths
<1>3. n \in Nat
  BY <1>1, <1>2
<1> QED
  BY <1>1, <1>2, <1>3, Products

\* What is sent to a reader is part of what it asked for.
LEMMA SentIs ==
  ASSUME ShareInv, NEW e \in EntryIds, rw[e].pc = "refill", NEW len \in Nat,
         NEW t \in Readers(e)
  PROVE  /\ t \in Handles /\ thds[t] \in ThdEntry /\ entries[e] \in DevEntry
         /\ entries[e].size >= 1 /\ rw[e].size \in Nat /\ rw[e].size >= 1
         /\ ToSend(entries[e], thds[t], len) \in 0 .. thds[t].nb
<1>1. t \in Handles /\ thds[t] \in ThdEntry /\ entries[e] \in DevEntry
  BY ListIs DEF Readers
<1>2. entries[e].size >= 1 /\ rw[e].size \in Nat /\ rw[e].size >= 1
  BY DEF ShareInv, Sized, TypeOK, RwThd
<1> QED
  BY <1>1, <1>2, ToSendIs

LEMMA RefillIs ==
  ASSUME ShareInv, NEW e \in EntryIds, NEW len \in Nat, Refill(e, len)
  PROVE  Refills(e, len)
<1> DEFINE g(t) == Given(thds[t], entries[e], len, rw[e].size, t[1])
           at == IF rw[e].writers THEN [rw[e] EXCEPT !.pc = "push"] ELSE At("top")
           left(c) == IF Gone(c) THEN sess[c].left
                      ELSE sess[c].left - ToSend(entries[e], thds[sess[c].thd], len)
           s(c) == IF sess[c].pc = "rw" /\ sess[c].thd \in Readers(e)
                   THEN [sess[c] EXCEPT !.left = left(c)] ELSE sess[c]
<1>1. /\ TypeOK /\ rw[e].pc = "refill" /\ ~entries[e].cancelled
      /\ UNCHANGED <<data, entries, handles, hung, stop>>
  BY DEF ShareInv, Refill
<1>2. thds' = [t \in Handles |-> IF t \in Readers(e) THEN g(t) ELSE thds[t]]
  BY DEF Refill, Readers
<1>3. sess' = [c \in Clients |-> s(c)]
  BY DEF Refill, Readers
<1>4. rw' = [rw EXCEPT ![e] = at]
  BY <1>1 DEF Refill, TypeOK
<1>5. /\ at \in RwThd /\ at.pc \in {"push", "top"} /\ at.size \in {0, rw[e].size}
      /\ at.pc = "push" => at.size = rw[e].size
  <2>1. rw[e] \in RwThd
    BY <1>1 DEF TypeOK
  <2> QED
    BY <2>1 DEF RwThd, At
<1>6. \A t \in Readers(e) : t \in Handles /\ g(t) \in ThdEntry /\ Same(g(t), thds[t])
  BY <1>1, SentIs, GivenIs
<1>7. ASSUME NEW c \in Clients
      PROVE  /\ s(c) \in Interpreter
             /\ s(c).pc = sess[c].pc /\ s(c).thd = sess[c].thd /\ s(c).nb = sess[c].nb
             /\ s(c).extra = sess[c].extra
             /\ s(c).left = IF sess[c].pc = "rw" /\ sess[c].thd \in Readers(e) /\ ~Gone(c)
                            THEN sess[c].left - ToSend(entries[e], thds[sess[c].thd], len)
                            ELSE sess[c].left
  <2>1. sess[c] \in Interpreter
    BY <1>1 DEF TypeOK
  <2>2. CASE sess[c].pc = "rw" /\ sess[c].thd \in Readers(e)
    <3>1. ToSend(entries[e], thds[sess[c].thd], len) \in Int
      BY <1>1, <2>2, SentIs DEF ThdEntry
    <3>2. left(c) \in Int
      BY <2>1, <3>1 DEF Interpreter
    <3> DEFINE l == left(c)
               x == [sess[c] EXCEPT !.left = l]
    <3>3. s(c) = x
      BY <2>2
    <3> HIDE DEF l, s
    <3>4. /\ x \in Interpreter /\ x.pc = sess[c].pc /\ x.thd = sess[c].thd
          /\ x.nb = sess[c].nb /\ x.extra = sess[c].extra /\ x.left = l
      BY <2>1, <3>2 DEF Interpreter, l
    <3> HIDE DEF x
    <3> QED
      BY <2>2, <3>3, <3>4 DEF l
  <2>3. CASE ~(sess[c].pc = "rw" /\ sess[c].thd \in Readers(e))
    BY <2>1, <2>3
  <2> QED
    BY <2>2, <2>3
<1> HIDE DEF at, g, s
<1>8. /\ rw' \in [EntryIds -> RwThd] /\ rw'[e] = at
      /\ \A f \in EntryIds : f # e => rw'[f] = rw[f]
  BY <1>1, <1>4, <1>5 DEF TypeOK
<1>9. /\ \A t \in Handles : t \notin Readers(e) => thds'[t] = thds[t]
      /\ \A t \in Readers(e) : thds'[t] = g(t)
      /\ thds' \in [Handles -> ThdEntry]
  BY <1>1, <1>2, <1>6 DEF TypeOK
<1>10. sess' \in [Clients -> Interpreter] /\ \A c \in Clients : sess'[c] = s(c)
  BY <1>3, <1>7
<1>11. \A t \in Readers(e) :
        thds'[t] = Given(thds[t], entries[e], len, rw[e].size, t[1])
        /\ Same(thds'[t], thds[t])
  BY <1>6, <1>9 DEF g
<1>12. \A c \in Clients : LET u == sess'[c] IN
       /\ u.pc = sess[c].pc /\ u.thd = sess[c].thd /\ u.nb = sess[c].nb
       /\ u.extra = sess[c].extra
       /\ u.left = IF sess[c].pc = "rw" /\ sess[c].thd \in Readers(e) /\ ~Gone(c)
                   THEN sess[c].left - ToSend(entries[e], thds[sess[c].thd], len)
                   ELSE sess[c].left
  BY <1>7, <1>10
<1> QED
  BY <1>1, <1>5, <1>8, <1>9, <1>10, <1>11, <1>12 DEF Refills

LEMMA RefillIsInv ==
  ASSUME ShareInv, NEW e \in EntryIds, NEW len \in Nat, Refill(e, len)
  PROVE  ShareInv'
<1>1. Refills(e, len)
  BY RefillIs
<1>2. Sized'
  BY <1>1 DEF Refills, ShareInv, Sized
<1>3. /\ \A c \in Clients : Stays(c)
      /\ entries' \in [EntryIds -> DevEntry]
  BY <1>1 DEF Refills, Stays, ShareInv, TypeOK
<1>4. rw[e].pc \in Live /\ rw'[e].pc \in Live
  BY <1>1 DEF Refills, Live
<1>5. /\ \A t \in Handles : t \notin entries[e].list => thds'[t] = thds[t]
      /\ \A t \in entries[e].list : Same(thds'[t], thds[t])
  <2>1. \A t \in entries[e].list : t \in Handles
    BY ListIs
  <2> QED
    BY <1>1, <2>1, SameIs DEF Refills, Readers
<1> QED
  BY <1>1, <1>2, <1>3, <1>4, <1>5, LoopIsInv DEF Refills

\* What a push writes.
Pushes(e, ok) ==
  /\ rw[e].pc = "pushing"
  /\ rw' \in [EntryIds -> RwThd] /\ rw'[e].pc = "top"
  /\ \A f \in EntryIds : f # e => rw'[f] = rw[f]
  /\ thds' \in [Handles -> ThdEntry]
  /\ \A t \in Handles : t \notin Writers(e) => thds'[t] = thds[t]
  /\ \A t \in Writers(e) : LET g == Taken(thds[t], entries[e], t[1]) IN
       /\ g \in ThdEntry /\ Same(thds'[t], thds[t])
       /\ thds'[t] = IF entries[e].cancelled THEN g ELSE Pushed(g, ok, rw[e].size)
  /\ sess' \in [Clients -> Interpreter]
  /\ \A c \in Clients :
       sess'[c] = IF /\ sess[c].pc = "rw" /\ sess[c].thd \in Writers(e)
                     /\ thds[sess[c].thd].newClient /\ ~Gone(c)
                  THEN Line(sess[c], TRUE) ELSE sess[c]
  /\ UNCHANGED <<data, entries, handles, hung, stop>>

LEMMA PushIs ==
  ASSUME ShareInv, NEW e \in EntryIds, NEW ok \in BOOLEAN, Push(e, ok)
  PROVE  Pushes(e, ok)
<1> DEFINE g(t) == Taken(thds[t], entries[e], t[1])
           p(t) == IF entries[e].cancelled THEN g(t) ELSE Pushed(g(t), ok, rw[e].size)
           s(c) == IF /\ sess[c].pc = "rw" /\ sess[c].thd \in Writers(e)
                      /\ thds[sess[c].thd].newClient /\ ~Gone(c)
                   THEN Line(sess[c], TRUE) ELSE sess[c]
<1>1. /\ TypeOK /\ rw[e].pc = "pushing" /\ rw' = [rw EXCEPT ![e] = At("top")]
      /\ UNCHANGED <<data, entries, handles, hung, stop>>
  BY DEF ShareInv, Push
<1>2. thds' = [t \in Handles |-> IF t \notin Writers(e) THEN thds[t] ELSE p(t)]
  BY DEF Push, Writers
<1>3. sess' = [c \in Clients |-> s(c)]
  BY DEF Push, Writers
<1>4. At("top") \in RwThd /\ At("top").pc = "top"
  BY AtIs
<1>5. /\ entries[e] \in DevEntry /\ rw[e].size \in Nat
      /\ \A t \in Writers(e) : t \in Handles /\ thds[t] \in ThdEntry
  BY <1>1, ListIs DEF Writers, TypeOK, RwThd
<1>6. \A t \in Writers(e) : g(t) \in ThdEntry /\ Same(g(t), thds[t])
  BY <1>5, TakenIs
<1> HIDE DEF g
<1>7. \A t \in Writers(e) : p(t) \in ThdEntry /\ Same(p(t), thds[t])
  BY <1>5, <1>6, PushedIs, SameIs
<1>8. \A c \in Clients : s(c) \in Interpreter
  BY <1>1, LineIs DEF TypeOK
<1> HIDE DEF p, s
<1>9. /\ rw' \in [EntryIds -> RwThd] /\ rw'[e].pc = "top"
      /\ \A f \in EntryIds : f # e => rw'[f] = rw[f]
  BY <1>1, <1>4 DEF TypeOK
<1>10. /\ \A t \in Handles : t \notin Writers(e) => thds'[t] = thds[t]
       /\ \A t \in Writers(e) : thds'[t] = p(t)
       /\ thds' \in [Handles -> ThdEntry]
  BY <1>1, <1>2, <1>5, <1>7 DEF TypeOK
<1>11. sess' \in [Clients -> Interpreter] /\ \A c \in Clients : sess'[c] = s(c)
  BY <1>3, <1>8
<1> QED
  BY <1>1, <1>6, <1>7, <1>9, <1>10, <1>11 DEF Pushes, g, p, s

LEMMA PushIsInv ==
  ASSUME ShareInv, NEW e \in EntryIds, NEW ok \in BOOLEAN, Push(e, ok)
  PROVE  ShareInv'
<1>1. Pushes(e, ok)
  BY PushIs
<1>2. Sized'
  BY <1>1 DEF Pushes, ShareInv, Sized
<1>3. /\ \A c \in Clients : Stays(c)
      /\ entries' \in [EntryIds -> DevEntry]
  <2>1. ASSUME NEW c \in Clients
        PROVE  sess'[c].pc = sess[c].pc /\ sess'[c].thd = sess[c].thd
    <3>1. sess[c] \in Interpreter
      BY DEF ShareInv, TypeOK
    <3>2. LET l == Line(sess[c], TRUE) IN l.pc = sess[c].pc /\ l.thd = sess[c].thd
      BY <3>1, LineIs
    <3>3. sess'[c] \in {sess[c], Line(sess[c], TRUE)}
      BY <1>1 DEF Pushes
    <3> QED
      BY <3>2, <3>3
  <2>2. \A c \in Clients : Stays(c)
    BY <2>1 DEF Stays
  <2> QED
    BY <1>1, <2>2 DEF Pushes, ShareInv, TypeOK
<1>4. rw[e].pc \in Live /\ rw'[e].pc \in Live
  BY <1>1 DEF Pushes, Live
<1>5. /\ \A t \in Handles : t \notin entries[e].list => thds'[t] = thds[t]
      /\ \A t \in entries[e].list : Same(thds'[t], thds[t])
  <2>1. \A t \in entries[e].list : t \in Handles
    BY ListIs
  <2> QED
    BY <1>1, <2>1, SameIs DEF Pushes, Writers
<1> QED
  BY <1>1, <1>2, <1>3, <1>4, <1>5, LoopIsInv DEF Pushes

\* What a thread that leaves writes.
Leaves(e) ==
  LET n == entries'[e] IN
  /\ rw[e].pc = "leave" /\ rw' \in [EntryIds -> RwThd] /\ rw'[e].pc = "none"
  /\ \A f \in EntryIds : f # e => rw'[f] = rw[f] /\ entries'[f] = entries[f]
  /\ entries' \in [EntryIds -> DevEntry] /\ n.ref = entries[e].ref - 1
  /\ entries[e].ref = 1 => Joined(e) = {} /\ n = NewEntry
  /\ entries[e].ref # 1 =>
       /\ n.list = entries[e].list /\ n.buf = entries[e].buf
       /\ n.closed = entries[e].closed /\ n.cancelled = entries[e].cancelled
  /\ data' = IF data = e THEN NoEntry ELSE data
  /\ UNCHANGED <<thds, sess, handles, hung, stop>>

LEMMA LeaveIs ==
  ASSUME ShareInv, NEW e \in EntryIds, Leave(e)
  PROVE  Leaves(e)
<1> DEFINE p == Put(entries[e])
<1>1. /\ TypeOK /\ rw[e].pc = "leave" /\ rw' = [rw EXCEPT ![e] = At("none")]
      /\ entries' = [entries EXCEPT ![e] = p]
      /\ data' = IF data = e THEN NoEntry ELSE data
      /\ UNCHANGED <<thds, sess, handles, hung, stop>>
  BY DEF ShareInv, Leave, TypeOK
<1>2. entries[e] \in DevEntry
  BY <1>1 DEF TypeOK
<1>3. entries[e].ref = Cardinality(Joined(e)) + 1
  BY <1>1 DEF ShareInv, Counted
<1>4. /\ entries[e].ref >= 1
      /\ entries[e].ref = 1 => Joined(e) = {}
  BY <1>3, JoinedIsFinite, FS_EmptySet
<1>5. /\ p \in DevEntry /\ p.ref = entries[e].ref - 1
      /\ entries[e].ref = 1 => p = NewEntry
      /\ entries[e].ref # 1 =>
           /\ p.list = entries[e].list /\ p.buf = entries[e].buf
           /\ p.closed = entries[e].closed /\ p.cancelled = entries[e].cancelled
  BY <1>2, <1>4, PutIs
<1>6. At("none") \in RwThd /\ At("none").pc = "none"
  BY AtIs
<1> HIDE DEF p
<1>7. /\ rw' \in [EntryIds -> RwThd] /\ rw'[e].pc = "none"
      /\ \A f \in EntryIds : f # e => rw'[f] = rw[f] /\ entries'[f] = entries[f]
      /\ entries' \in [EntryIds -> DevEntry] /\ entries'[e] = p
  BY <1>1, <1>5, <1>6 DEF TypeOK
<1> QED
  BY <1>1, <1>4, <1>5, <1>7 DEF Leaves

LEMMA LeaveIsInv ==
  ASSUME ShareInv, NEW e \in EntryIds, Leave(e)
  PROVE  ShareInv'
<1> USE DEF ShareInv
<1>1. Leaves(e)
  BY LeaveIs
<1>2. TypeOK'
  BY <1>1 DEF TypeOK, Leaves
<1>3. \A f : Joined(f)' = Joined(f)
  BY <1>1 DEF Joined, Leaves
<1>4. Owned'
  BY <1>1 DEF Owned, Leaves
<1>5. Listed'
  <2>1. entries'[e].list = IF entries'[e].closed THEN {} ELSE Joined(e)'
    BY <1>1, <1>3, NewEntryIs DEF Listed, Leaves
  <2>2. \A f \in EntryIds : f # e =>
          entries'[f].list = IF entries'[f].closed THEN {} ELSE Joined(f)'
    BY <1>1, <1>3 DEF Listed, Leaves
  <2> QED
    BY <2>1, <2>2 DEF Listed
<1>6. Counted'
  <2>1. entries'[e].ref = Cardinality(Joined(e)') + (IF rw'[e].pc = "none" THEN 0 ELSE 1)
    BY <1>1, <1>3, JoinedIsFinite DEF Counted, Leaves
  <2>2. \A f \in EntryIds : f # e =>
          entries'[f].ref = Cardinality(Joined(f)') + (IF rw'[f].pc = "none" THEN 0 ELSE 1)
    BY <1>1, <1>3 DEF Counted, Leaves
  <2> QED
    BY <2>1, <2>2 DEF Counted
<1>7. Phases'
  BY <1>1, NewEntryIs DEF Phases, Leaves, Live
<1>8. Current'
  BY <1>1 DEF Current, Leaves, Live, TypeOK
<1>9. \A d \in Clients : Own(d)' = Own(d)
  BY <1>1 DEF Own, Leaves
<1>10. Held'
  BY <1>1, <1>9 DEF Held, Leaves
<1>11. Sized'
  BY <1>1, NewEntryIs DEF Sized, Leaves, Phases
<1> QED
  BY <1>2, <1>4, <1>5, <1>6, <1>7, <1>8, <1>10, <1>11

LEMMA ShareStutters ==
  ASSUME ShareInv, UNCHANGED vars
  PROVE  ShareInv'
BY OutsideIsInv DEF vars, ShareInv, TypeOK

LEMMA InitShare == Init => ShareInv
<1> SUFFICES ASSUME Init
             PROVE  ShareInv
  OBVIOUS
<1>1. /\ \A e \in EntryIds : entries[e] = NewEntry /\ rw[e] = At("none")
      /\ \A t \in Handles : thds[t] = NewThd
  BY DEF Init
<1>2. At("none") \in RwThd /\ At("none").pc = "none"
  BY AtIs
<1>3. TypeOK
  <2>1. /\ entries \in [EntryIds -> DevEntry] /\ thds \in [Handles -> ThdEntry]
        /\ rw \in [EntryIds -> RwThd]
    BY <1>2, NewEntryIs, NewThdIs DEF Init
  <2>2. sess \in [Clients -> Interpreter]
    BY NoSessionIs DEF Init
  <2>3. handles \in [Clients -> Seq(Handles)]
    <3>1. <<>> \in Seq(Handles)
      OBVIOUS
    <3> QED
      BY <3>1 DEF Init
  <2> QED
    BY <2>1, <2>2, <2>3 DEF Init, TypeOK
<1>4. \A e \in EntryIds : Joined(e) = {}
  BY <1>1, Constants DEF Joined, NewThd
<1>5. Owned /\ Phases /\ Current /\ Sized
  BY <1>1, <1>2, NewEntryIs DEF Init, Owned, Phases, Current, Sized, NewThd, Live
<1>6. Listed /\ Counted
  <2>1. Listed
    BY <1>1, <1>4, NewEntryIs DEF Listed
  <2>2. Cardinality({}) = 0
    BY FS_EmptySet
  <2>3. \A e \in EntryIds : entries[e].ref = 0 /\ rw[e].pc = "none"
    BY <1>1, <1>2, NewEntryIs
  <2> QED
    BY <1>4, <2>1, <2>2, <2>3 DEF Counted
<1>7. Held
  BY NoSessionIs DEF Init, Held, Injective
<1> QED
  BY <1>3, <1>5, <1>6, <1>7 DEF ShareInv

LEMMA NextShare == ShareInv /\ [Next]_vars => ShareInv'
<1> SUFFICES ASSUME ShareInv, [Next]_vars
             PROVE  ShareInv'
  OBVIOUS
<1>1. ASSUME NEW c \in Clients,
             Connect(c) \/ Hangup(c) \/ Session(c) \/ Close(c) \/ EndSession(c) \/ Measure(c)
      PROVE  ShareInv'
  <2>1. CASE Hangup(c)
    BY <2>1, OutsideIsInv DEF Hangup, ShareInv, TypeOK
  <2>2. CASE Session(c)
    BY <2>2, CheckOpenIsInv, OpenWaitIsInv, OpenBrokenIsInv, RwIsInv, RwWaitIsInv,
       RwBrokenIsInv DEF Session
  <2>3. CASE Measure(c)
    BY <2>3, MeasureIs, PausesIsInv
  <2> QED
    BY <1>1, <2>1, <2>2, <2>3, ConnectIsInv, CloseIsInv, EndSessionIsInv
<1>2. ASSUME NEW c \in Clients, NEW k \in 1 .. MaxOpens, NEW b \in Buffers[c],
             OpenJoin(c, k, b) \/ OpenNew(c, k, b)
      PROVE  ShareInv'
  BY <1>2, OpenJoinIsInv, OpenNewIsInv
<1>3. ASSUME NEW e \in EntryIds,
             Thread(e) \/ Delivery(e) \/ CreateFails(e) \/ RefillFails(e)
             \/ Push(e, TRUE) \/ Push(e, FALSE)
      PROVE  ShareInv'
  <2>1. CASE ListEmpty(e) \/ CreateFails(e)
    BY <2>1, EndsIs, EndsIsInv
  <2>2. CASE Delivery(e)
    <3>1. PICK len \in Lengths(e) : Refill(e, len)
      BY <2>2 DEF Delivery
    <3>2. len \in Nat
      BY LengthsAre
    <3> QED
      BY <3>1, <3>2, RefillIsInv
  <2>3. CASE Push(e, TRUE) \/ Push(e, FALSE)
    BY <2>3, PushIsInv
  <2>4. CASE Iterate(e) \/ RefillCancelled(e) \/ PushBegins(e) \/ Leave(e) \/ RefillFails(e)
    BY <2>4, IterateIsInv, RefillCancelledIsInv, PushBeginsIsInv, LeaveIsInv,
       RefillFailsIsInv
  <2> QED
    BY <1>3, <2>1, <2>2, <2>3, <2>4 DEF Thread
<1>4. CASE Stop
  BY <1>4, OutsideIsInv DEF Stop, ShareInv, TypeOK
<1>5. CASE UNCHANGED vars
  BY <1>5, ShareStutters
<1> QED
  BY <1>1, <1>2, <1>3, <1>4, <1>5 DEF Next

LEMMA Shared == Spec => []ShareInv
  BY InitShare, NextShare, PTL DEF Spec

\* Every variable has its type: what sessions and threads write into the structures
\* they share are legal values, with references that are never negative.
THEOREM ServerTypes == Spec => []TypeOK
<1>1. ShareInv => TypeOK
  BY DEF ShareInv
<1> QED
  BY <1>1, Shared, PTL

\* However sessions come and go, fail to open or lose their clients, the references of an
\* entry are its handles and its thread, and new clients are not sent to a freed one
\* (open_dev_helper, remove_thd_entry, dev_entry_put, rw_thd).
THEOREM ServerReferences == Spec => []ReferencesAreCounted
<1>1. ShareInv => ReferencesAreCounted
  BY DEF ShareInv, Counted, Current, Joined, ReferencesAreCounted
<1> QED
  BY <1>1, Shared, PTL

\* The buffer of the device is never opened by two entries, although a new one may be
\* made while the thread of the old one leaves (rw_thd, open_dev_helper).
THEOREM ServerOneBuffer == Spec => []OneBuffer
<1>1. ShareInv => OneBuffer
  <2> SUFFICES ASSUME ShareInv
               PROVE  OneBuffer
    OBVIOUS
  <2>1. ASSUME NEW e \in EntryIds, entries[e].buf
        PROVE  data = e
    <3>1. ~entries[e].closed /\ entries[e] # NewEntry
      BY <2>1, NewEntryIs DEF ShareInv, Phases
    <3>2. rw[e].pc \in Live
      BY <3>1 DEF ShareInv, Phases, TypeOK, RwThd, Live
    <3> QED
      BY <3>2 DEF ShareInv, Current
  <2> QED
    BY <2>1 DEF OneBuffer
<1> QED
  BY <1>1, Shared, PTL

-----------------------------------------------------------------------------
(* No wakeup is lost: the requests and what the thread knows of them. *)

\* A wait of a handle that is over left its event, and none begins.
Goes(t) ==
  /\ thds'[t].waitForOpen => thds[t].waitForOpen
  /\ thds[t].waitForOpen => thds'[t].waitForOpen \/ thds'[t].event
  /\ thds[t].nb >= 1 => thds'[t].nb >= 1 \/ thds'[t].event
  /\ thds[t].event => thds'[t].event

\* A thread at work on the handles of its list, and the sessions wait on.
LEMMA WorkIsWake ==
  ASSUME ShareInv, WakeInv, NEW e \in EntryIds,
         \A f \in EntryIds : f # e => entries'[f] = entries[f] /\ rw'[f] = rw[f],
         \A t \in Handles : t \notin entries[e].list => thds'[t] = thds[t],
         \A t \in entries[e].list : Same(thds'[t], thds[t]) /\ Goes(t),
         \A t \in Joined(e) : AskedAt(t, e)',
         entries'[e].cancelled => \A t \in entries'[e].list : thds'[t].waitForOpen,
         handles' = handles,
         \A c \in Clients : sess'[c].pc = sess[c].pc /\ sess'[c].thd = sess[c].thd
  PROVE  WakeInv'
<1>1. \A t \in Handles : Same(thds'[t], thds[t]) /\ (t \notin entries[e].list => thds'[t] = thds[t])
  BY SameIs
<1>2. \A f : Joined(f)' = Joined(f)
  BY <1>1 DEF Joined, Same
<1>3. \A t \in Handles : Goes(t)
  BY DEF Goes
<1>4. Asked'
  <2> SUFFICES ASSUME NEW f \in EntryIds, f # e, NEW t \in Joined(f)
               PROVE  AskedAt(t, f)'
    BY <1>2 DEF Asked
  <2>1. t \in Handles /\ t \notin entries[e].list
    BY ListIs DEF Joined
  <2>2. thds'[t] = thds[t] /\ entries'[f] = entries[f] /\ rw'[f] = rw[f]
    BY <2>1
  <2> QED
    BY <2>2 DEF WakeInv, Asked, AskedAt
<1>5. Abandoned'
  <2> SUFFICES ASSUME NEW f \in EntryIds, f # e, entries[f].cancelled, NEW t \in entries[f].list
               PROVE  thds'[t].waitForOpen
    BY DEF Abandoned
  <2>1. t \in Handles /\ t \notin entries[e].list /\ thds[t].waitForOpen
    BY ListIs DEF WakeInv, Abandoned
  <2> QED
    BY <2>1
<1>6. Open'
  <2>1. \A c \in Clients : \A i \in 1 .. Len(handles[c]) : handles[c][i] \in Handles
    BY DEF ShareInv, Held, Own
  <2> QED
    BY <1>3, <2>1 DEF WakeInv, Open, Goes
<1>7. Told'
  <2>1. \A c \in Clients : sess[c].pc \in {"open", "rw"} => sess[c].thd \in Handles
    BY OwnHandle
  <2> QED
    BY <1>3, <2>1 DEF WakeInv, Told, Goes
<1> QED
  BY <1>4, <1>5, <1>6, <1>7 DEF WakeInv

\* A session at work on its handle, of which the thread sees nothing.
LEMMA ListenIsWake ==
  ASSUME ShareInv, WakeInv, UNCHANGED <<entries, rw>>, NEW c \in Clients,
         \A t \in Handles : t[1] # c => thds'[t] = thds[t],
         \A t \in Handles :
           /\ Same(thds'[t], thds[t]) /\ thds'[t].nb = thds[t].nb
           /\ thds'[t].active = thds[t].active /\ thds'[t].waitForOpen = thds[t].waitForOpen
           /\ thds'[t].err \in {0, thds[t].err},
         \A d \in Clients : d # c => sess'[d] = sess[d] /\ handles'[d] = handles[d],
         \A i \in 1 .. Len(handles'[c]) :
           handles'[c][i] \in Handles /\ ~thds[handles'[c][i]].waitForOpen,
         LET t == sess'[c].thd IN
           /\ sess'[c].pc = "open" => thds'[t].waitForOpen \/ thds'[t].event
           /\ sess'[c].pc = "rw" => thds'[t].nb >= 1 \/ thds'[t].event
  PROVE  WakeInv'
<1>1. \A f : Joined(f)' = Joined(f)
  BY DEF Joined, Same
<1>2. Asked'
  <2> SUFFICES ASSUME NEW f \in EntryIds, NEW t \in Joined(f)
               PROVE  AskedAt(t, f)'
    BY <1>1 DEF Asked
  <2>1. t \in Handles /\ AskedAt(t, f)
    BY DEF WakeInv, Asked, Joined
  <2> QED
    BY <2>1 DEF AskedAt
<1>3. Abandoned'
  <2> SUFFICES ASSUME NEW f \in EntryIds, entries[f].cancelled, NEW t \in entries[f].list
               PROVE  thds'[t].waitForOpen
    BY DEF Abandoned
  <2>1. t \in Handles /\ thds[t].waitForOpen
    BY ListIs DEF WakeInv, Abandoned
  <2> QED
    BY <2>1
<1>4. Open'
  <2>1. \A d \in Clients : \A i \in 1 .. Len(handles[d]) : handles[d][i] \in Handles
    BY DEF ShareInv, Held, Own
  <2> QED
    BY <2>1 DEF WakeInv, Open
<1>5. Told'
  <2>1. \A d \in Clients : d # c /\ sess[d].pc \in {"open", "rw"} =>
          sess[d].thd \in Handles /\ sess[d].thd[1] # c
    BY OwnHandle
  <2> QED
    BY <2>1 DEF WakeInv, Told
<1> QED
  BY <1>2, <1>3, <1>4, <1>5 DEF WakeInv

\* A session that waits for nothing afterwards, and has its handles still.
LEMMA RestIsWake ==
  ASSUME ShareInv, WakeInv, UNCHANGED <<entries, thds, rw>>, NEW c \in Clients,
         \A d \in Clients : d # c => sess'[d] = sess[d] /\ handles'[d] = handles[d],
         handles'[c] \in {<<>>, handles[c]}, sess'[c].pc \in {"off", "idle", "ask"}
  PROVE  WakeInv'
<1>1. \A t \in Handles : Same(thds'[t], thds[t])
  BY SameIs
<1>2. \A i \in 1 .. Len(handles'[c]) :
        handles'[c][i] \in Handles /\ ~thds[handles'[c][i]].waitForOpen
  <2>1. \A i \in 1 .. Len(handles[c]) :
          handles[c][i] \in Handles /\ ~thds[handles[c][i]].waitForOpen
    BY DEF ShareInv, Held, Own, WakeInv, Open
  <2> QED
    BY <2>1
<1> QED
  BY <1>1, <1>2, ListenIsWake

\* Nothing changes that waiting is about.
LEMMA OutsideIsWake ==
  ASSUME WakeInv, UNCHANGED <<entries, thds, rw, sess, handles>>
  PROVE  WakeInv'
<1>1. \A f : Joined(f)' = Joined(f)
  BY DEF Joined
<1>2. Asked'
  BY <1>1 DEF WakeInv, Asked, AskedAt
<1>3. Abandoned' /\ Open' /\ Told'
  BY DEF WakeInv, Abandoned, Open, Told
<1> QED
  BY <1>2, <1>3 DEF WakeInv

LEMMA OpensIsWake ==
  ASSUME ShareInv, WakeInv, NEW c \in Clients, NEW t, NEW b, NEW e \in EntryIds,
         Waits(t, b, e), NEW stage \in {"check", "open"}, Opens(c, t, stage)
  PROVE  Open' /\ Told'
<1>1. \A u \in Handles : u # t => thds'[u] = thds[u]
  BY DEF Waits
<1>2. t \in Handles /\ t[1] = c /\ ~thds[t].used /\ thds'[t].waitForOpen
  BY WaitsIsOwned DEF Waits, Opens
<1>3. \A d \in Clients : \A i \in 1 .. Len(handles[d]) :
        handles[d][i] \in Handles /\ handles[d][i] # t
  BY <1>2 DEF ShareInv, Held, Own
<1>4. Open'
  BY <1>1, <1>3 DEF WakeInv, Open, Opens
<1>5. Told'
  <2>1. \A d \in Clients : d # c /\ sess[d].pc \in {"open", "rw"} =>
          sess[d].thd \in Handles /\ sess[d].thd # t
    BY <1>2, OwnHandle
  <2>2. /\ sess'[c].pc = stage /\ sess'[c].thd = t
        /\ \A d \in Clients : d # c => sess'[d] = sess[d]
    BY DEF Opens
  <2>3. ASSUME NEW d \in Clients, d # c
        PROVE  LET u == sess'[d].thd IN
               /\ sess'[d].pc = "open" => thds'[u].waitForOpen \/ thds'[u].event
               /\ sess'[d].pc = "rw" => thds'[u].nb >= 1 \/ thds'[u].event
    BY <1>1, <2>1, <2>2, <2>3 DEF WakeInv, Told
  <2> QED
    BY <1>2, <2>2, <2>3 DEF Told
<1> QED
  BY <1>4, <1>5

LEMMA CreatesIsWake ==
  ASSUME ShareInv, WakeInv, NEW c \in Clients, NEW t, NEW b, NEW e \in EntryIds,
         Creates(c, t, b, e)
  PROVE  WakeInv'
<1>1. Waits(t, b, e) /\ Opens(c, t, "check")
  BY DEF Creates
<1>2. Open' /\ Told'
  BY <1>1, OpensIsWake
<1>3. Joined(e) = {}
  BY JoinedIsFinite, FS_EmptySet DEF ShareInv, Counted, Creates
<1>4. Joined(e)' = {t} /\ \A f \in EntryIds : f # e => Joined(f)' = Joined(f)
  BY <1>1, <1>3, WaitsIsOwned
<1>5. AskedAt(t, e)'
  BY <1>1 DEF Creates, Waits, AskedAt, Serving
<1>6. ASSUME NEW f \in EntryIds, f # e, NEW u \in Joined(f)
      PROVE  u # t /\ thds'[u] = thds[u] /\ AskedAt(u, f)'
  <2>1. u \in Handles /\ u # t
    BY <1>1, <1>6, Constants DEF Waits, Joined, NewThd
  <2>2. thds'[u] = thds[u] /\ entries'[f] = entries[f] /\ rw'[f] = rw[f]
    BY <1>1, <1>6, <2>1 DEF Creates, Waits
  <2> QED
    BY <1>6, <2>1, <2>2 DEF WakeInv, Asked, AskedAt
<1>7. Asked'
  BY <1>4, <1>5, <1>6 DEF Asked
<1>8. Abandoned'
  BY <1>6, ListIs DEF WakeInv, Abandoned, Creates
<1> QED
  BY <1>2, <1>7, <1>8 DEF WakeInv

LEMMA JoinsIsWake ==
  ASSUME ShareInv, WakeInv, NEW c \in Clients, NEW t, NEW b, NEW e \in EntryIds,
         Joins(c, t, b, e)
  PROVE  WakeInv'
<1>1. Waits(t, b, e) /\ Opens(c, t, "open")
  BY DEF Joins
<1>2. Open' /\ Told'
  BY <1>1, OpensIsWake
<1>3. /\ t \notin Joined(e) /\ Joined(e)' = Joined(e) \cup {t}
      /\ \A f \in EntryIds : f # e => Joined(f)' = Joined(f)
  BY <1>1, WaitsIsOwned
<1>4. AskedAt(t, e)'
  BY <1>1 DEF Joins, Waits, AskedAt, Serving, Live
<1>5. ASSUME NEW f \in EntryIds, NEW u \in Joined(f)
      PROVE  u # t /\ thds'[u] = thds[u] /\ AskedAt(u, f)'
  <2>1. u \in Handles /\ u # t
    BY <1>1, <1>5, Constants DEF Waits, Joined, NewThd
  <2>2. thds'[u] = thds[u]
    BY <1>1, <1>5, <2>1 DEF Waits
  <2>3. AskedAt(u, f)
    BY DEF WakeInv, Asked
  <2>4. CASE f = e
    <3>1. /\ entries'[e].list = entries[e].list \cup {t} /\ entries'[e].updateMask
          /\ entries'[e].size = entries[e].size
          /\ rw[e].pc \in Serving => rw'[e].pc \in Serving
      BY DEF Joins, Serving
    <3> QED
      BY <2>1, <2>2, <2>3, <2>4, <3>1 DEF AskedAt
  <2>5. CASE f # e
    <3>1. entries'[f] = entries[f] /\ rw'[f] = rw[f]
      BY <2>5 DEF Joins
    <3> QED
      BY <2>1, <2>2, <2>3, <3>1 DEF AskedAt
  <2> QED
    BY <2>1, <2>2, <2>4, <2>5
<1>6. Asked'
  BY <1>3, <1>4, <1>5 DEF Asked
<1>7. Abandoned'
  <2> SUFFICES ASSUME NEW f \in EntryIds, entries'[f].cancelled, NEW u \in entries'[f].list
               PROVE  thds'[u].waitForOpen
    BY DEF Abandoned
  <2>1. entries[f].cancelled
    BY DEF Joins
  <2>2. CASE u \in entries[f].list
    BY <1>5, <2>1, <2>2, ListIs DEF WakeInv, Abandoned
  <2>3. CASE u \notin entries[f].list
    BY <1>1, <2>3 DEF Joins, Waits
  <2> QED
    BY <2>2, <2>3
<1> QED
  BY <1>2, <1>6, <1>7 DEF WakeInv

\* A handle is taken out of the list.
LEMMA RemovesIsWake ==
  ASSUME ShareInv, WakeInv, NEW c \in Clients, NEW t \in Handles, t[1] = c,
         NEW e \in EntryIds, t \in Joined(e), Removes(t, e),
         \A d \in Clients : d # c => sess'[d] = sess[d] /\ handles'[d] = handles[d],
         sess'[c].pc \in {"off", "idle"},
         \/ handles'[c] = handles[c]
         \/ handles[c] # <<>> /\ handles'[c] = Tail(handles[c])
  PROVE  WakeInv'
<1>1. thds'[t] = NewThd /\ ~NewThd.waitForOpen /\ NewThd.entry \notin EntryIds
  BY Constants DEF Removes, NewThd
<1>2. \A u \in Handles : u # t => thds'[u] = thds[u]
  BY DEF Removes
<1>3. Joined(e)' = Joined(e) \ {t} /\ \A f \in EntryIds : f # e => Joined(f)' = Joined(f)
  BY <1>1, <1>2 DEF Joined
<1>4. ASSUME NEW u \in Joined(e), u # t
      PROVE  AskedAt(u, e)'
  <2>1. AskedAt(u, e) /\ thds'[u] = thds[u] /\ u \in Handles
    BY <1>2, <1>4 DEF WakeInv, Asked, Joined
  <2>2. entries[e].ref # 1
    BY <1>4 DEF Removes
  <2>3. /\ entries'[e].list = entries[e].list \ {t} /\ entries'[e].size = entries[e].size
        /\ ~entries[e].closed => entries'[e].updateMask
        /\ rw[e].pc \in Serving => rw'[e].pc \in Serving
    BY <2>2 DEF Removes, Serving
  <2>4. entries[e].closed => u \notin entries[e].list
    BY DEF ShareInv, Listed
  <2> QED
    BY <1>4, <2>1, <2>3, <2>4 DEF AskedAt
<1>5. ASSUME NEW f \in EntryIds, f # e, NEW u \in Joined(f)
      PROVE  AskedAt(u, f)'
  <2>1. AskedAt(u, f) /\ u \in Handles /\ u # t
    BY <1>5 DEF WakeInv, Asked, Joined
  <2>2. thds'[u] = thds[u] /\ entries'[f] = entries[f] /\ rw'[f] = rw[f]
    BY <1>2, <1>5, <2>1 DEF Removes
  <2> QED
    BY <2>1, <2>2 DEF AskedAt
<1>6. Asked'
  BY <1>3, <1>4, <1>5 DEF Asked
<1>7. Abandoned'
  <2>1. ASSUME entries'[e].cancelled, NEW u \in entries'[e].list
        PROVE  thds'[u].waitForOpen
    <3>1. entries[e].ref # 1
      BY <2>1, NewEntryIs DEF Removes
    <3>2. u \in entries[e].list /\ u # t /\ entries[e].cancelled
      BY <2>1, <3>1 DEF Removes
    <3> QED
      BY <1>2, <3>2, ListIs DEF WakeInv, Abandoned
  <2>2. ASSUME NEW f \in EntryIds, f # e, entries'[f].cancelled, NEW u \in entries'[f].list
        PROVE  thds'[u].waitForOpen
    <3>1. entries[f].cancelled /\ u \in entries[f].list
      BY <2>2 DEF Removes
    <3>2. u \in Handles /\ u # t
      BY <2>2, <3>1, ListIs DEF Joined
    <3> QED
      BY <1>2, <3>1, <3>2 DEF WakeInv, Abandoned
  <2> QED
    BY <2>1, <2>2 DEF Abandoned
<1>8. Open'
  <2>1. ASSUME NEW d \in Clients, NEW i \in 1 .. Len(handles'[d])
        PROVE  \E j \in 1 .. Len(handles[d]) : handles'[d][i] = handles[d][j]
    <3>1. CASE handles'[d] = handles[d]
      BY <3>1
    <3>2. CASE handles[d] # <<>> /\ handles'[d] = Tail(handles[d])
      <4>1. handles[d] \in Seq(Handles) /\ Injective(handles[d])
        BY DEF ShareInv, TypeOK, Held
      <4>2. i + 1 \in 1 .. Len(handles[d]) /\ handles'[d][i] = handles[d][i + 1]
        BY <2>1, <3>2, <4>1, Popped
      <4> QED
        BY <4>2
    <3> QED
      BY <3>1, <3>2
  <2>2. \A d \in Clients : \A i \in 1 .. Len(handles[d]) :
          handles[d][i] \in Handles /\ ~thds[handles[d][i]].waitForOpen
    BY DEF ShareInv, Held, Own, WakeInv, Open
  <2>3. \A u \in Handles : thds'[u].waitForOpen => thds[u].waitForOpen
    BY <1>1, <1>2
  <2>4. ASSUME NEW d \in Clients, NEW i \in 1 .. Len(handles'[d])
        PROVE  ~thds'[handles'[d][i]].waitForOpen
    <3>1. PICK j \in 1 .. Len(handles[d]) : handles'[d][i] = handles[d][j]
      BY <2>1, <2>4
    <3> QED
      BY <2>2, <2>3, <3>1
  <2> QED
    BY <2>4 DEF Open
<1>9. Told'
  <2>1. \A d \in Clients : d # c /\ sess[d].pc \in {"open", "rw"} =>
          sess[d].thd \in Handles /\ sess[d].thd # t
    BY OwnHandle
  <2> QED
    BY <1>2, <2>1 DEF WakeInv, Told
<1> QED
  BY <1>6, <1>7, <1>8, <1>9 DEF WakeInv

LEMMA EndOpenIsWake ==
  ASSUME ShareInv, WakeInv, NEW c \in Clients, sess[c].pc \in {"check", "open"},
         NEW err, EndOpen(c, sess[c].thd, err), err < 0,
         sess' = [sess EXCEPT ![c] = Idle(@)]
  PROVE  WakeInv'
<1>1. PICK t \in Handles : t = sess[c].thd /\ t[1] = c /\ thds[t].used
  BY OwnHandle
<1>2. RemoveThd(t) /\ thds' = [thds EXCEPT ![t] = NewThd] /\ handles' = handles
  BY <1>1 DEF EndOpen
<1>3. PICK e \in EntryIds : t \in Joined(e) /\ Removes(t, e)
  BY <1>1, <1>2, RemoveIs
<1>4. sess'[c].pc = "idle" /\ \A d \in Clients : d # c => sess'[d] = sess[d]
  <2>1. Idle(sess[c]).pc = "idle"
    BY IdleIs DEF ShareInv, TypeOK
  <2> QED
    BY <2>1 DEF ShareInv, TypeOK
<1> QED
  BY <1>1, <1>2, <1>3, <1>4, RemovesIsWake

\* The handle that was opened does not wait for the buffer any more.
LEMMA OpenedIsWake ==
  ASSUME ShareInv, WakeInv, UNCHANGED <<entries, rw>>, NEW c \in Clients, NEW t \in Handles,
         t[1] = c, ~thds[t].waitForOpen, handles' = [handles EXCEPT ![c] = <<t>> \o @],
         sess' = [sess EXCEPT ![c] = Idle(@)],
         \A u \in Handles : u # t => thds'[u] = thds[u],
         Same(thds'[t], thds[t]), thds'[t].nb = thds[t].nb, thds'[t].active = thds[t].active,
         thds'[t].waitForOpen = thds[t].waitForOpen, thds'[t].err = thds[t].err
  PROVE  WakeInv'
<1>1. sess'[c].pc = "idle" /\ \A d \in Clients : d # c => sess'[d] = sess[d]
  <2>1. Idle(sess[c]).pc = "idle"
    BY IdleIs DEF ShareInv, TypeOK
  <2> QED
    BY <2>1 DEF ShareInv, TypeOK
<1> DEFINE q == handles[c]
           p == <<t>> \o q
<1>2. q \in Seq(Handles)
  BY DEF ShareInv, TypeOK
<1>3. Len(p) = Len(q) + 1 /\ \A i \in 1 .. Len(p) : p[i] = IF i = 1 THEN t ELSE q[i - 1]
  BY <1>2
<1>4. handles'[c] = p /\ \A d \in Clients : d # c => handles'[d] = handles[d]
  BY DEF ShareInv, TypeOK
<1>5. \A i \in 1 .. Len(q) : q[i] \in Handles /\ ~thds[q[i]].waitForOpen
  BY DEF ShareInv, Held, Own, WakeInv, Open
<1>6. Len(q) \in Nat
  BY <1>2
<1> HIDE DEF p, q
<1>7. \A i \in 1 .. Len(p) : p[i] \in Handles /\ ~thds[p[i]].waitForOpen
  <2> SUFFICES ASSUME NEW i \in 1 .. Len(p)
               PROVE  p[i] \in Handles /\ ~thds[p[i]].waitForOpen
    OBVIOUS
  <2>1. i = 1 \/ i - 1 \in 1 .. Len(q)
    BY <1>3, <1>6
  <2> QED
    BY <1>3, <1>5, <2>1
<1>8. \A u \in Handles : Same(thds'[u], thds[u])
  BY SameIs
<1>9. \A u \in Handles :
        /\ thds'[u].nb = thds[u].nb
        /\ thds'[u].active = thds[u].active /\ thds'[u].waitForOpen = thds[u].waitForOpen
        /\ thds'[u].err \in {0, thds[u].err}
  OBVIOUS
<1>10. \A u \in Handles : u[1] # c => thds'[u] = thds[u]
  OBVIOUS
<1> QED
  BY <1>1, <1>4, <1>7, <1>8, <1>9, <1>10, ListenIsWake

LEMMA CheckOpenIsWake ==
  ASSUME ShareInv, WakeInv, NEW c \in Clients, CheckOpen(c)
  PROVE  WakeInv'
<1>1. sess[c].pc = "check" /\ TypeOK
  BY DEF CheckOpen, ShareInv
<1>2. PICK t \in Handles : t = sess[c].thd /\ t[1] = c /\ thds[t].used
  BY <1>1, OwnHandle
<1>3. CASE thds[t].waitForOpen
  <2>1. UNCHANGED <<entries, thds, rw, handles>> /\ sess' = [sess EXCEPT ![c].pc = "open"]
    BY <1>2, <1>3 DEF CheckOpen
  <2>2. sess'[c].thd = t /\ sess'[c].pc = "open" /\ \A d \in Clients : d # c => sess'[d] = sess[d]
    BY <1>1, <1>2, <2>1 DEF TypeOK, Interpreter
  <2>3. \A i \in 1 .. Len(handles[c]) :
          handles[c][i] \in Handles /\ ~thds[handles[c][i]].waitForOpen
    BY DEF ShareInv, Held, Own, WakeInv, Open
  <2>4. \A u \in Handles : Same(thds'[u], thds[u])
    BY <2>1, SameIs
  <2> QED
    BY <1>3, <2>1, <2>2, <2>3, <2>4, ListenIsWake
<1>4. CASE ~thds[t].waitForOpen
  <2>1. EndOpen(c, t, thds[t].err) /\ sess' = [sess EXCEPT ![c] = Idle(@)]
    BY <1>2, <1>4 DEF CheckOpen
  <2>2. CASE thds[t].err < 0
    BY <1>1, <1>2, <2>1, <2>2, EndOpenIsWake
  <2>3. CASE ~(thds[t].err < 0)
    <3>1. handles' = [handles EXCEPT ![c] = <<t>> \o @] /\ UNCHANGED <<entries, rw, thds>>
      BY <2>1, <2>3 DEF EndOpen
    <3>2. Same(thds[t], thds[t])
      BY SameIs
    <3> QED
      BY <1>2, <1>4, <2>1, <3>1, <3>2, OpenedIsWake
  <2> QED
    BY <2>2, <2>3
<1> QED
  BY <1>3, <1>4

LEMMA OpenWaitIsWake ==
  ASSUME ShareInv, WakeInv, NEW c \in Clients, OpenWait(c)
  PROVE  WakeInv'
<1>1. sess[c].pc = "open" /\ TypeOK
  BY DEF OpenWait, ShareInv
<1>2. PICK t \in Handles : t = sess[c].thd /\ t[1] = c /\ thds[t].used
  BY <1>1, OwnHandle
<1> DEFINE Read == thds' = [thds EXCEPT ![t].event = FALSE]
<1>3. ASSUME Read
      PROVE  /\ \A u \in Handles : u # t => thds'[u] = thds[u]
             /\ Same(thds'[t], thds[t]) /\ thds'[t].nb = thds[t].nb
             /\ thds'[t].active = thds[t].active
             /\ thds'[t].waitForOpen = thds[t].waitForOpen /\ thds'[t].err = thds[t].err
  BY <1>1, <1>2, <1>3, EventRead
<1>4. CASE thds[t].waitForOpen
  <2>1. Read /\ UNCHANGED <<entries, rw, sess, handles>>
    BY <1>2, <1>4 DEF OpenWait
  <2>2. \A u \in Handles : Same(thds'[u], thds[u])
    BY <1>3, <2>1, SameIs
  <2>3. \A i \in 1 .. Len(handles[c]) :
          handles[c][i] \in Handles /\ ~thds[handles[c][i]].waitForOpen
    BY DEF ShareInv, Held, Own, WakeInv, Open
  <2>4. \A u \in Handles :
          /\ thds'[u].nb = thds[u].nb
          /\ thds'[u].active = thds[u].active /\ thds'[u].waitForOpen = thds[u].waitForOpen
          /\ thds'[u].err \in {0, thds[u].err}
          /\ u[1] # c => thds'[u] = thds[u]
    BY <1>2, <1>3, <2>1
  <2> HIDE DEF Read
  <2> QED
    BY <1>1, <1>2, <1>4, <2>1, <2>2, <2>3, <2>4, ListenIsWake
<1>5. CASE ~thds[t].waitForOpen /\ thds[t].err < 0
  <2>1. EndOpen(c, t, thds[t].err) /\ sess' = [sess EXCEPT ![c] = Idle(@)]
    BY <1>2, <1>5 DEF OpenWait
  <2> QED
    BY <1>1, <1>2, <1>5, <2>1, EndOpenIsWake
<1>6. CASE ~thds[t].waitForOpen /\ ~(thds[t].err < 0)
  <2>1. /\ handles' = [handles EXCEPT ![c] = <<t>> \o @] /\ Read
        /\ UNCHANGED <<entries, rw>> /\ sess' = [sess EXCEPT ![c] = Idle(@)]
    BY <1>2, <1>6 DEF OpenWait
  <2> HIDE DEF Read
  <2> QED
    BY <1>2, <1>3, <1>6, <2>1, OpenedIsWake
<1> QED
  BY <1>4, <1>5, <1>6

LEMMA OpenBrokenIsWake ==
  ASSUME ShareInv, WakeInv, NEW c \in Clients, OpenBroken(c)
  PROVE  WakeInv'
<1>1. /\ sess[c].pc = "open" /\ EndOpen(c, sess[c].thd, Failed)
      /\ sess' = [sess EXCEPT ![c] = Idle(@)]
  BY DEF OpenBroken
<1>2. Failed < 0 /\ sess[c].pc \in {"check", "open"}
  BY <1>1, Constants
<1> QED
  BY <1>1, <1>2, EndOpenIsWake

\* The first handle of a session is closed.
LEMMA CloseIsWake ==
  ASSUME ShareInv, WakeInv, NEW c \in Clients, handles[c] # <<>>,
         RemoveThd(Head(handles[c])), thds' = [thds EXCEPT ![Head(handles[c])] = NewThd],
         handles' = [handles EXCEPT ![c] = Tail(@)],
         \A d \in Clients : d # c => sess'[d] = sess[d], sess'[c].pc \in {"off", "idle"}
  PROVE  WakeInv'
<1>1. PICK t \in Handles : t = Head(handles[c]) /\ t[1] = c /\ thds[t].used
  BY OwnHandle
<1>2. PICK e \in EntryIds : t \in Joined(e) /\ Removes(t, e)
  BY <1>1, RemoveIs
<1>3. handles'[c] = Tail(handles[c]) /\ \A d \in Clients : d # c => handles'[d] = handles[d]
  BY DEF ShareInv, TypeOK
<1> QED
  BY <1>1, <1>2, <1>3, RemovesIsWake

LEMMA SessionEndsIsWake ==
  ASSUME ShareInv, WakeInv, NEW c \in Clients, Close(c) \/ EndSession(c)
  PROVE  WakeInv'
<1>1. /\ \A d \in Clients : d # c => sess'[d] = sess[d]
      /\ sess'[c].pc \in {"off", "idle"}
  <2>1. CASE Close(c)
    <3> DEFINE s == [sess[c] EXCEPT !.left = 0, !.extra = FALSE]
    <3>1. sess' = [sess EXCEPT ![c] = s] /\ sess[c].pc = "idle"
      BY <2>1 DEF Close, ShareInv, TypeOK
    <3>2. s.pc = sess[c].pc
      BY SessionFields DEF ShareInv, TypeOK
    <3> HIDE DEF s
    <3> QED
      BY <3>1, <3>2 DEF ShareInv, TypeOK
  <2>2. CASE EndSession(c)
    BY <2>2, NoSessionIs DEF EndSession, ShareInv, TypeOK
  <2> QED
    BY <2>1, <2>2
<1>2. CASE handles[c] = <<>>
  <2>1. UNCHANGED <<entries, thds, rw, handles>>
    BY <1>2 DEF Close, EndSession
  <2> QED
    BY <1>1, <2>1, RestIsWake
<1>3. CASE handles[c] # <<>>
  <2>1. /\ RemoveThd(Head(handles[c])) /\ thds' = [thds EXCEPT ![Head(handles[c])] = NewThd]
        /\ handles' = [handles EXCEPT ![c] = Tail(@)]
    BY <1>3 DEF Close, EndSession
  <2> QED
    BY <1>1, <1>3, <2>1, CloseIsWake
<1> QED
  BY <1>2, <1>3

LEMMA AsksIsWake ==
  ASSUME ShareInv, WakeInv, NEW c \in Clients, NEW t \in Handles, NEW e \in EntryIds,
         Asks(c, t, e)
  PROVE  WakeInv'
<1>1. /\ handles[c] # <<>> /\ t = Head(handles[c]) /\ thds[t].used /\ thds[t].entry = e
      /\ ~entries[e].closed /\ t[1] = c
  BY OwnHandle DEF Asks
<1>2. rw[e].pc \in Live /\ t \in entries[e].list
  BY <1>1, LiveIs
<1>3. ~thds[t].waitForOpen
  <2>1. handles[c] \in Seq(Handles) /\ Injective(handles[c])
    BY DEF ShareInv, TypeOK, Held
  <2>2. 1 \in 1 .. Len(handles[c]) /\ t = handles[c][1]
    BY <1>1, <2>1, Popped
  <2> QED
    BY <2>2 DEF WakeInv, Open
<1>4. Request(t) \in Nat /\ Request(t) >= 1
  BY <1>1, RequestIs
<1>5. /\ \A f \in EntryIds : f # e => rw'[f] = rw[f]
      /\ rw'[e].pc = IF rw[e].pc = "asleep" THEN "top" ELSE rw[e].pc
      /\ rw[e].pc # "asleep" => rw'[e] = rw[e]
  BY WokenIs DEF Asks, ShareInv, TypeOK
<1>6. \A u \in Handles : u # t => thds'[u] = thds[u]
  BY DEF Asks
<1>7. \A f : Joined(f)' = Joined(f)
  BY <1>6 DEF Joined, Asks, Same
<1>8. AskedAt(t, e)'
  BY <1>2, <1>3, <1>4, <1>5 DEF Asks, AskedAt, Serving, Live
<1>9. ASSUME NEW f \in EntryIds, NEW u \in Joined(f), u # t
      PROVE  AskedAt(u, f)'
  <2>1. AskedAt(u, f) /\ thds'[u] = thds[u]
    BY <1>6, <1>9 DEF WakeInv, Asked, Joined
  <2>2. entries'[f] = entries[f] /\ (rw[f].pc \in Serving => rw'[f].pc \in Serving)
    BY <1>5 DEF Asks, Serving
  <2> QED
    BY <2>1, <2>2 DEF AskedAt
<1>10. Asked'
  <2>1. \A f \in EntryIds : t \in Joined(f) => f = e
    BY <1>1 DEF Joined
  <2> QED
    BY <1>7, <1>8, <1>9, <2>1 DEF Asked
<1>11. \A u \in Handles : thds'[u].waitForOpen = thds[u].waitForOpen
  BY <1>6 DEF Asks
<1>12. Abandoned'
  <2>1. \A f \in EntryIds : \A u \in entries[f].list : u \in Handles
    BY ListIs
  <2> QED
    BY <1>11, <2>1 DEF WakeInv, Abandoned, Asks
<1>13. Open'
  <2>1. \A d \in Clients : \A i \in 1 .. Len(handles[d]) : handles[d][i] \in Handles
    BY DEF ShareInv, Held, Own
  <2> QED
    BY <1>11, <2>1 DEF WakeInv, Open, Asks
<1>14. Told'
  <2>1. \A d \in Clients : d # c /\ sess[d].pc \in {"open", "rw"} =>
          sess[d].thd \in Handles /\ sess[d].thd # t
    BY <1>1, OwnHandle
  <2>2. ASSUME NEW d \in Clients, d # c
        PROVE  LET u == sess'[d].thd IN
               /\ sess'[d].pc = "open" => thds'[u].waitForOpen \/ thds'[u].event
               /\ sess'[d].pc = "rw" => thds'[u].nb >= 1 \/ thds'[u].event
    BY <1>6, <2>1, <2>2 DEF WakeInv, Told, Asks
  <2>3. sess'[c].pc = "rw" /\ sess'[c].thd = t /\ thds'[t].nb >= 1
    BY <1>4 DEF Asks
  <2> QED
    BY <2>2, <2>3 DEF Told
<1> QED
  BY <1>10, <1>12, <1>13, <1>14 DEF WakeInv

LEMMA PausesIsWake ==
  ASSUME ShareInv, WakeInv, NEW c \in Clients, Pauses(c)
  PROVE  WakeInv'
BY RestIsWake DEF Pauses

LEMMA RwWaitIsWake ==
  ASSUME ShareInv, WakeInv, NEW c \in Clients, RwWait(c)
  PROVE  WakeInv'
<1>1. PICK t \in Handles : thds[t].used /\ (Answers(c, t) \/ Reads(c, t))
  BY RwWaitIs
<1>2. t[1] = c /\ thds[t].entry \in EntryIds
  BY <1>1, OwnHandle DEF Answers, Reads
<1>3. \A u \in Handles :
        /\ Same(thds'[u], thds[u]) /\ thds'[u].nb = thds[u].nb
        /\ thds'[u].active = thds[u].active /\ thds'[u].waitForOpen = thds[u].waitForOpen
        /\ thds'[u].err \in {0, thds[u].err}
        /\ u[1] # c => thds'[u] = thds[u]
  <2>1. \A u \in Handles : u # t => thds'[u] = thds[u]
    BY <1>1 DEF Answers, Reads
  <2>2. /\ Same(thds'[t], thds[t]) /\ thds'[t].nb = thds[t].nb
        /\ thds'[t].active = thds[t].active /\ thds'[t].waitForOpen = thds[t].waitForOpen
        /\ thds'[t].err \in {0, thds[t].err}
    <3>1. thds[t].active \in BOOLEAN /\ thds'[t].active \in BOOLEAN
      BY <1>1 DEF Answers, Reads, ShareInv, TypeOK, ThdEntry
    <3> QED
      BY <1>1, <3>1 DEF Answers, Reads
  <2> QED
    BY <1>2, <2>1, <2>2, SameIs
<1>4. /\ UNCHANGED <<entries, rw, handles>>
      /\ \A d \in Clients : d # c => sess'[d] = sess[d]
      /\ \/ sess'[c].pc = "idle"
         \/ /\ sess'[c].pc = "rw" /\ sess'[c].thd = t
            /\ thds'[t].nb = thds[t].nb /\ thds[t].active
  BY <1>1 DEF Answers, Reads
<1>5. thds[t].active => thds[t].nb >= 1
  BY <1>2 DEF WakeInv, Asked, AskedAt, Joined
<1>6. \A i \in 1 .. Len(handles[c]) :
        handles[c][i] \in Handles /\ ~thds[handles[c][i]].waitForOpen
  BY DEF ShareInv, Held, Own, WakeInv, Open
<1> QED
  BY <1>3, <1>4, <1>5, <1>6, ListenIsWake

LEMMA RwBrokenIsWake ==
  ASSUME ShareInv, WakeInv, NEW c \in Clients, RwBroken(c) \/ Connect(c)
  PROVE  WakeInv'
<1>1. /\ \A d \in Clients : d # c => sess'[d] = sess[d] /\ handles'[d] = handles[d]
      /\ sess'[c].pc = "idle"
  <2>1. CASE RwBroken(c)
    <3> DEFINE l == LastLine(sess[c])
               s == Idle(l)
    <3>1. sess' = [sess EXCEPT ![c] = s] /\ handles' = handles
      BY <2>1 DEF RwBroken, ShareInv, TypeOK
    <3>2. l \in Interpreter
      BY LastLineIs DEF ShareInv, TypeOK
    <3> HIDE DEF l
    <3>3. s.pc = "idle"
      BY <3>2, IdleIs
    <3> HIDE DEF s
    <3> QED
      BY <3>1, <3>3 DEF ShareInv, TypeOK
  <2>2. CASE Connect(c)
    <3> DEFINE s == [NoSession EXCEPT !.pc = "idle"]
    <3>1. sess' = [sess EXCEPT ![c] = s] /\ handles' = [handles EXCEPT ![c] = <<>>]
      BY <2>2 DEF Connect
    <3>2. s.pc = "idle"
      BY NoSessionIs
    <3> HIDE DEF s
    <3> QED
      BY <3>1, <3>2 DEF ShareInv, TypeOK
  <2> QED
    BY <2>1, <2>2
<1>2. UNCHANGED <<entries, thds, rw>> /\ handles'[c] \in {<<>>, handles[c]}
  BY DEF RwBroken, Connect, ShareInv, TypeOK
<1> QED
  BY <1>1, <1>2, RestIsWake

\* While the thread is in its loop, all handles of the entry are in the list.
LEMMA AllListed ==
  ASSUME ShareInv, NEW e \in EntryIds, rw[e].pc \in Live
  PROVE  entries[e].list = Joined(e) /\ ~entries[e].closed
  BY DEF ShareInv, Listed, Phases

LEMMA EndsIsWake ==
  ASSUME ShareInv, WakeInv, NEW e \in EntryIds, NEW code, Ends(e, code)
  PROVE  WakeInv'
<1>1. rw[e].pc \in Live
  BY DEF Ends, Live
<1>2. entries[e].list = Joined(e)
  BY <1>1, AllListed
<1>3. \A t \in entries[e].list : Same(thds'[t], thds[t]) /\ Goes(t)
  BY DEF Ends, Goes
<1>4. \A t \in Joined(e) : AskedAt(t, e)'
  BY <1>2 DEF Ends, AskedAt
<1> QED
  BY <1>3, <1>4, WorkIsWake DEF Ends

LEMMA TurnsIsWake ==
  ASSUME ShareInv, ShareInv', WakeInv, NEW e \in EntryIds, NEW n \in DevEntry, Turns(e, n)
  PROVE  WakeInv'
<1>1. rw[e].pc \in Live
  BY DEF Turns, Live
<1>2. entries[e].list = Joined(e)
  BY <1>1, AllListed
<1>3. n.size \in Nat /\ n.size >= 1 /\ n = entries'[e] /\ entries[e].updateMask \in BOOLEAN
  <2>1. n.buf
    BY DEF Turns, ShareInv, Sized
  <2> QED
    BY <2>1 DEF Turns, ShareInv, Sized, DevEntry, TypeOK
<1> DEFINE updated == entries[e].updateMask
<1>4. ASSUME NEW t \in entries[e].list
      PROVE  /\ thds[t] \in ThdEntry /\ AskedAt(t, e) /\ t \in n.list
             /\ Goes(t) /\ AskedAt(t, e)'
  <2>1. thds[t] \in ThdEntry /\ AskedAt(t, e) /\ t \in n.list
    BY <1>2, ListIs DEF WakeInv, Asked, Turns
  <2> DEFINE r == thds'[t]
             opened == updated /\ thds[t].waitForOpen
             ready == thds[t].err = 0 /\ thds[t].nb >= n.size
  <2>2. /\ r.waitForOpen = (thds[t].waitForOpen /\ ~updated)
        /\ opened => r.event /\ r.nb = 0 /\ r.err = 0 /\ ~r.active
        /\ ~opened /\ ready /\ updated => r.event /\ r.nb = 0 /\ r.err = thds[t].nb /\ ~r.active
        /\ ~opened /\ ~(ready /\ updated) =>
             r.event = thds[t].event /\ r.nb = thds[t].nb /\ r.err = thds[t].err /\ r.active = ready
    <3>1. r = Refreshed(thds[t], n, updated)
      BY DEF Turns
    <3> HIDE DEF r
    <3> QED
      BY <1>3, <2>1, <3>1, RefreshedIs
  <2>3. rw'[e].pc = "asleep" => ~r.active
    BY DEF Turns
  <2>4. rw'[e].pc \in {"refill", "push", "asleep"} /\ thds[t].nb \in Nat
    BY <2>1 DEF Turns, ThdEntry
  <2>5. thds[t].waitForOpen => updated
    BY <2>1 DEF AskedAt
  <2>6. ~r.waitForOpen
    BY <2>2, <2>5
  <2> HIDE DEF r
  <2>7. Goes(t)
    BY <2>2, <2>5 DEF Goes, r
  <2>8. \/ r.nb = 0 /\ ~r.active
        \/ r.nb = thds[t].nb /\ r.err = thds[t].err /\ (r.active <=> ready)
    <3>1. r.active \in BOOLEAN
      BY <2>1, ListIs DEF Turns, ThdEntry, r
    <3>2. CASE opened
      BY <2>2, <3>2
    <3>3. CASE ~opened /\ ready /\ updated
      BY <2>2, <3>3
    <3>4. CASE ~opened /\ ~(ready /\ updated)
      BY <2>2, <3>1, <3>4
    <3> QED
      BY <3>2, <3>3, <3>4
  <2>11. r.active => r.nb >= 1 /\ rw'[e].pc \in Serving
    BY <1>3, <2>3, <2>4, <2>8 DEF Serving, r
  <2>9. r.nb >= 1 => r.err = 0 /\ (r.active \/ r.nb < n.size)
    BY <1>3, <2>1, <2>4, <2>8 DEF AskedAt
  <2>10. AskedAt(t, e)'
    BY <1>3, <2>1, <2>6, <2>9, <2>11 DEF AskedAt, r
  <2> QED
    BY <2>1, <2>7, <2>10
<1>5. n.cancelled => \A t \in n.list : thds'[t].waitForOpen
  <2> SUFFICES ASSUME n.cancelled
               PROVE  FALSE
    OBVIOUS
  <2>1. ~updated /\ entries[e].cancelled
    BY DEF Turns
  <2>2. PICK t \in entries[e].list : TRUE
    BY DEF Turns
  <2>3. thds[t].waitForOpen
    BY <2>1, <2>2 DEF WakeInv, Abandoned
  <2> QED
    BY <1>4, <2>1, <2>2, <2>3 DEF AskedAt
<1>6. \A t \in entries[e].list : Same(thds'[t], thds[t])
  BY DEF Turns
<1> QED
  BY <1>2, <1>3, <1>4, <1>5, <1>6, WorkIsWake DEF Turns

LEMMA RefillCancelledIsWake ==
  ASSUME ShareInv, WakeInv, NEW e \in EntryIds, RefillCancelled(e)
  PROVE  WakeInv'
<1>1. /\ TypeOK /\ rw[e].pc = "refill" /\ rw' = [rw EXCEPT ![e] = At("top")]
      /\ UNCHANGED <<data, entries, thds, sess, handles, hung, stop>>
  BY DEF ShareInv, RefillCancelled
<1>2. rw'[e].pc = "top" /\ \A f \in EntryIds : f # e => rw'[f] = rw[f]
  <2>1. At("top").pc = "top"
    BY AtIs
  <2> QED
    BY <1>1, <2>1 DEF TypeOK
<1>3. \A t \in entries[e].list : Same(thds'[t], thds[t]) /\ Goes(t)
  BY <1>1, SameIs DEF Goes
<1>4. \A t \in Joined(e) : AskedAt(t, e)'
  BY <1>1, <1>2 DEF WakeInv, Asked, AskedAt, Serving
<1>5. entries'[e].cancelled => \A t \in entries'[e].list : thds'[t].waitForOpen
  BY <1>1 DEF WakeInv, Abandoned
<1> QED
  BY <1>1, <1>2, <1>3, <1>4, <1>5, WorkIsWake

LEMMA PushBeginsIsWake ==
  ASSUME ShareInv, WakeInv, NEW e \in EntryIds, PushBegins(e)
  PROVE  WakeInv'
<1>1. Begins(e)
  BY PushBeginsIs
<1>2. \A t \in entries[e].list : Same(thds'[t], thds[t]) /\ Goes(t)
  BY <1>1, SameIs DEF Begins, Goes
<1>3. \A t \in Joined(e) : AskedAt(t, e)'
  BY <1>1 DEF Begins, WakeInv, Asked, AskedAt, Serving
<1>4. entries'[e].cancelled => \A t \in entries'[e].list : thds'[t].waitForOpen
  BY <1>1 DEF Begins, WakeInv, Abandoned
<1> QED
  BY <1>1, <1>2, <1>3, <1>4, WorkIsWake DEF Begins

\* A thread that gives to a part of its list, and goes on.
LEMMA ServesIsWake ==
  ASSUME ShareInv, WakeInv, NEW e \in EntryIds, rw[e].pc \in Serving, rw'[e].pc \in Serving,
         \A f \in EntryIds : f # e => rw'[f] = rw[f], entries' = entries, handles' = handles,
         \A c \in Clients : sess'[c].pc = sess[c].pc /\ sess'[c].thd = sess[c].thd,
         NEW S, S \subseteq entries[e].list, \A t \in S : thds[t].active,
         \A t \in Handles : t \notin S => thds'[t] = thds[t],
         \A t \in S : LET h == thds'[t] IN
           /\ Same(h, thds[t]) /\ h.waitForOpen = thds[t].waitForOpen
           /\ \/ h.nb = 0 /\ ~h.active /\ h.event
              \/ /\ h.nb >= 1 /\ h.active /\ h.err = thds[t].err
                 /\ h.event = thds[t].event
  PROVE  WakeInv'
<1>1. \A t \in entries[e].list : t \in Handles /\ t \in Joined(e)
  BY ListIs
<1>2. ASSUME NEW t \in S
      PROVE  /\ Same(thds'[t], thds[t]) /\ Goes(t) /\ AskedAt(t, e)'
             /\ ~thds[t].waitForOpen
  <2>1. /\ AskedAt(t, e) /\ thds[t].active /\ t \in entries[e].list
        /\ thds[t].nb >= 1 /\ thds[t].err = 0 /\ ~thds[t].waitForOpen
    BY <1>1 DEF WakeInv, Asked, AskedAt
  <2>2. Goes(t)
    BY <2>1 DEF Goes
  <2>3. AskedAt(t, e)'
    BY <2>1 DEF AskedAt
  <2> QED
    BY <2>1, <2>2, <2>3
<1>3. ASSUME NEW t \in Joined(e), t \notin S
      PROVE  AskedAt(t, e)'
  <2>1. AskedAt(t, e) /\ thds'[t] = thds[t]
    BY <1>3 DEF WakeInv, Asked, Joined
  <2> QED
    BY <2>1 DEF AskedAt
<1>4. \A t \in entries[e].list : Same(thds'[t], thds[t]) /\ Goes(t)
  <2>1. ASSUME NEW t \in entries[e].list, t \notin S
        PROVE  Same(thds'[t], thds[t]) /\ Goes(t)
    <3>1. thds'[t] = thds[t]
      BY <1>1, <2>1
    <3> QED
      BY <3>1, SameIs DEF Goes
  <2> QED
    BY <1>2, <2>1
<1>5. entries'[e].cancelled => \A t \in entries'[e].list : thds'[t].waitForOpen
  <2> SUFFICES ASSUME entries[e].cancelled, NEW t \in entries[e].list
               PROVE  thds'[t].waitForOpen
    OBVIOUS
  <2>1. thds[t].waitForOpen
    BY DEF WakeInv, Abandoned
  <2>2. thds'[t] = thds[t]
    BY <1>1, <1>2, <2>1
  <2> QED
    BY <2>1, <2>2
<1>6. \A t \in Joined(e) : AskedAt(t, e)'
  BY <1>2, <1>3
<1>7. \A t \in Handles : t \notin entries[e].list => thds'[t] = thds[t]
  OBVIOUS
<1> QED
  BY <1>4, <1>5, <1>6, <1>7, WorkIsWake

LEMMA FailsIsWake ==
  ASSUME ShareInv, WakeInv, NEW e \in EntryIds, Fails(e)
  PROVE  WakeInv'
<1>1. rw[e].pc \in Serving /\ rw'[e].pc \in Serving
  BY DEF Fails, Serving
<1>2. Readers(e) \subseteq entries[e].list /\ \A t \in Readers(e) : thds[t].active
  BY DEF Readers
<1>3. \A t \in Readers(e) : LET h == thds'[t] IN
        /\ Same(h, thds[t]) /\ h.waitForOpen = thds[t].waitForOpen
        /\ \/ h.nb = 0 /\ ~h.active /\ h.event
           \/ /\ h.nb >= 1 /\ h.active /\ h.err = thds[t].err
              /\ h.event = thds[t].event
  BY DEF Fails
<1> QED
  BY <1>1, <1>2, <1>3, ServesIsWake DEF Fails

\* Whoever is given something has its answer, or waits on for the rest.
LEMMA GivenServes ==
  ASSUME NEW thd \in ThdEntry, NEW entry \in DevEntry, entry.size >= 1, NEW len \in Nat,
         NEW size \in Nat, NEW c, size >= 1, thd.active
  PROVE  LET g == Given(thd, entry, len, size, c) IN
         /\ Same(g, thd) /\ g.waitForOpen = thd.waitForOpen
         /\ \/ g.nb = 0 /\ ~g.active /\ g.event
            \/ g.nb >= 1 /\ g.active /\ g.err = thd.err /\ g.event = thd.event
<1> DEFINE g == Given(thd, entry, len, size, c)
           left == thd.nb - ToSend(entry, thd, len)
<1>1. /\ g \in ThdEntry /\ Same(g, thd) /\ g.waitForOpen = thd.waitForOpen
      /\ Gone(c) => g.err = Failed /\ g.nb = 0 /\ ~g.active /\ g.event
      /\ ~Gone(c) =>
           /\ left \in Nat /\ ~g.newClient /\ g.header = Header(entry, thd)
           /\ left < size => g.err = left /\ g.nb = 0 /\ ~g.active /\ g.event
           /\ left >= size =>
                /\ g.err = thd.err /\ g.nb = left /\ g.active = thd.active
                /\ g.event = thd.event
  BY GivenIs
<1> HIDE DEF g, left
<1>2. left \in Nat => left < size \/ (left >= size /\ left >= 1)
  OBVIOUS
<1> QED
  BY <1>1, <1>2 DEF g

LEMMA RefillsIsWake ==
  ASSUME ShareInv, WakeInv, NEW e \in EntryIds, NEW len \in Nat, Refills(e, len)
  PROVE  WakeInv'
<1>1. rw[e].pc \in Serving /\ rw'[e].pc \in Serving
  BY DEF Refills, Serving
<1>2. Readers(e) \subseteq entries[e].list /\ \A t \in Readers(e) : thds[t].active
  BY DEF Readers
<1>3. ASSUME NEW t \in Readers(e)
      PROVE  LET h == thds'[t] IN
             /\ Same(h, thds[t]) /\ h.waitForOpen = thds[t].waitForOpen
             /\ \/ h.nb = 0 /\ ~h.active /\ h.event
                \/ /\ h.nb >= 1 /\ h.active /\ h.err = thds[t].err
                   /\ h.event = thds[t].event
  <2> DEFINE g == Given(thds[t], entries[e], len, rw[e].size, t[1])
  <2>1. thds'[t] = g
    BY <1>3 DEF Refills
  <2>2. /\ thds[t] \in ThdEntry /\ entries[e] \in DevEntry /\ entries[e].size >= 1
        /\ rw[e].size \in Nat /\ rw[e].size >= 1 /\ thds[t].active
    BY <1>2, SentIs DEF Refills
  <2>3. /\ Same(g, thds[t]) /\ g.waitForOpen = thds[t].waitForOpen
        /\ \/ g.nb = 0 /\ ~g.active /\ g.event
           \/ /\ g.nb >= 1 /\ g.active /\ g.err = thds[t].err
              /\ g.event = thds[t].event
    BY <2>2, GivenServes
  <2> QED
    BY <2>1, <2>3
<1> QED
  BY <1>1, <1>2, <1>3, ServesIsWake DEF Refills

LEMMA PushesIsWake ==
  ASSUME ShareInv, WakeInv, NEW e \in EntryIds, NEW ok \in BOOLEAN, Pushes(e, ok)
  PROVE  WakeInv'
<1>1. rw[e].pc \in Serving /\ rw'[e].pc \in Serving
  BY DEF Pushes, Serving
<1>2. Writers(e) \subseteq entries[e].list /\ \A t \in Writers(e) : thds[t].active
  BY DEF Writers
<1>3. ASSUME NEW t \in Writers(e)
      PROVE  LET h == thds'[t] IN
             /\ Same(h, thds[t]) /\ h.waitForOpen = thds[t].waitForOpen
             /\ \/ h.nb = 0 /\ ~h.active /\ h.event
                \/ /\ h.nb >= 1 /\ h.active /\ h.err = thds[t].err
                   /\ h.event = thds[t].event
  <2> DEFINE g == Taken(thds[t], entries[e], t[1])
             p == Pushed(g, ok, rw[e].size)
  <2>1. ~entries[e].cancelled
    <3>1. ~thds[t].waitForOpen /\ t \in entries[e].list
      BY <1>2, ListIs DEF WakeInv, Asked, AskedAt
    <3> QED
      BY <3>1 DEF WakeInv, Abandoned
  <2>2. thds'[t] = p
    BY <1>3, <2>1 DEF Pushes
  <2>3. /\ thds[t] \in ThdEntry /\ entries[e] \in DevEntry
        /\ rw[e].size \in Nat /\ rw[e].size >= 1
    BY <1>2, ListIs DEF ShareInv, Sized, Pushes, TypeOK, RwThd
  <2>4. /\ g \in ThdEntry /\ Same(g, thds[t]) /\ g.waitForOpen = thds[t].waitForOpen
        /\ Gone(t[1]) => g.nb = 0 /\ ~g.active /\ g.event
        /\ ~Gone(t[1]) =>
             g.err = thds[t].err /\ g.active = thds[t].active /\ g.event = thds[t].event
    BY <2>3, TakenIs
  <2> HIDE DEF g
  <2>5. /\ Same(p, g) /\ p.waitForOpen = g.waitForOpen
        /\ ~g.active => p = g
        /\ g.active /\ ~ok => p.nb = 0 /\ ~p.active /\ p.event
        /\ g.active /\ ok /\ g.nb < rw[e].size => p.nb = 0 /\ ~p.active /\ p.event
        /\ g.active /\ ok /\ g.nb >= rw[e].size => p = g
    BY <2>3, <2>4, PushedIs
  <2>6. Same(p, thds[t])
    BY <2>4, <2>5, SameIs
  <2>7. thds[t].active /\ g.nb \in Nat
    BY <1>2, <2>4 DEF ThdEntry
  <2>8. g.nb < rw[e].size \/ (g.nb >= rw[e].size /\ g.nb >= 1)
    BY <2>3, <2>7
  <2> HIDE DEF p
  <2>9. p.waitForOpen = thds[t].waitForOpen
    BY <2>4, <2>5
  <2>10. CASE Gone(t[1])
    BY <2>2, <2>4, <2>5, <2>6, <2>9, <2>10
  <2>11. CASE ~Gone(t[1])
    BY <2>2, <2>4, <2>5, <2>6, <2>7, <2>8, <2>9, <2>11
  <2> QED
    BY <2>10, <2>11
<1>4. \A c \in Clients : sess'[c].pc = sess[c].pc /\ sess'[c].thd = sess[c].thd
  <2> SUFFICES ASSUME NEW c \in Clients
               PROVE  sess'[c].pc = sess[c].pc /\ sess'[c].thd = sess[c].thd
    OBVIOUS
  <2>1. sess[c] \in Interpreter
    BY DEF ShareInv, TypeOK
  <2>2. LET l == Line(sess[c], TRUE) IN l.pc = sess[c].pc /\ l.thd = sess[c].thd
    BY <2>1, LineIs
  <2>3. sess'[c] \in {sess[c], Line(sess[c], TRUE)}
    BY DEF Pushes
  <2> QED
    BY <2>2, <2>3
<1> QED
  BY <1>1, <1>2, <1>3, <1>4, ServesIsWake DEF Pushes

LEMMA LeavesIsWake ==
  ASSUME ShareInv, WakeInv, NEW e \in EntryIds, Leaves(e)
  PROVE  WakeInv'
<1>1. entries[e].list = {} /\ rw[e].pc \notin Serving
  BY DEF Leaves, ShareInv, Phases, Listed, Serving
<1>2. \A t \in Joined(e) : AskedAt(t, e)'
  BY <1>1 DEF WakeInv, Asked, AskedAt, Leaves
<1>3. entries'[e].list = {}
  BY <1>1, NewEntryIs DEF Leaves
<1>4. \A c \in Clients : sess'[c].pc = sess[c].pc /\ sess'[c].thd = sess[c].thd
  BY DEF Leaves
<1> QED
  BY <1>1, <1>2, <1>3, <1>4, WorkIsWake DEF Leaves

LEMMA InitWake == Init => WakeInv
<1> SUFFICES ASSUME Init
             PROVE  WakeInv
  OBVIOUS
<1>1. \A e \in EntryIds : Joined(e) = {} /\ entries[e] = NewEntry
  BY Constants DEF Init, Joined, NewThd
<1>2. Asked /\ Abandoned
  BY <1>1, NewEntryIs DEF Asked, Abandoned
<1>3. Open /\ Told
  BY NoSessionIs DEF Init, Open, Told
<1> QED
  BY <1>2, <1>3 DEF WakeInv

LEMMA NextWake == ShareInv /\ ShareInv' /\ WakeInv /\ [Next]_vars => WakeInv'
<1> SUFFICES ASSUME ShareInv, ShareInv', WakeInv, [Next]_vars
             PROVE  WakeInv'
  OBVIOUS
<1>1. ASSUME NEW c \in Clients,
             Connect(c) \/ Hangup(c) \/ Session(c) \/ Close(c) \/ EndSession(c) \/ Measure(c)
      PROVE  WakeInv'
  <2>1. CASE Hangup(c)
    BY <2>1, OutsideIsWake DEF Hangup
  <2>2. CASE Rw(c)
    BY <2>2, RwIs, AsksIsWake, PausesIsWake
  <2>3. CASE Session(c)
    BY <2>2, <2>3, CheckOpenIsWake, OpenWaitIsWake, OpenBrokenIsWake, RwWaitIsWake,
       RwBrokenIsWake DEF Session
  <2>4. CASE Measure(c)
    BY <2>4, MeasureIs, PausesIsWake
  <2> QED
    BY <1>1, <2>1, <2>3, <2>4, RwBrokenIsWake, SessionEndsIsWake
<1>2. ASSUME NEW c \in Clients, NEW k \in 1 .. MaxOpens, NEW b \in Buffers[c],
             OpenJoin(c, k, b) \/ OpenNew(c, k, b)
      PROVE  WakeInv'
  <2>1. CASE OpenJoin(c, k, b)
    BY <2>1, OpenJoinIs, JoinsIsWake
  <2>2. CASE OpenNew(c, k, b)
    BY <2>2, OpenNewIs, CreatesIsWake
  <2> QED
    BY <1>2, <2>1, <2>2
<1>3. ASSUME NEW e \in EntryIds,
             Thread(e) \/ Delivery(e) \/ CreateFails(e) \/ RefillFails(e)
             \/ Push(e, TRUE) \/ Push(e, FALSE)
      PROVE  WakeInv'
  <2>1. CASE ListEmpty(e) \/ CreateFails(e)
    BY <2>1, EndsIs, EndsIsWake
  <2>2. CASE Delivery(e)
    <3>1. PICK len \in Lengths(e) : Refill(e, len)
      BY <2>2 DEF Delivery
    <3>2. len \in Nat
      BY LengthsAre
    <3> QED
      BY <3>1, <3>2, RefillIs, RefillsIsWake
  <2>3. CASE Push(e, TRUE) \/ Push(e, FALSE)
    BY <2>3, PushIs, PushesIsWake
  <2>4. CASE Iterate(e)
    BY <2>4, IterateIs, TurnsIsWake
  <2>5. CASE RefillCancelled(e) \/ PushBegins(e) \/ Leave(e) \/ RefillFails(e)
    BY <2>5, RefillCancelledIsWake, PushBeginsIsWake, LeaveIs, LeavesIsWake,
       RefillFailsIs, FailsIsWake
  <2> QED
    BY <1>3, <2>1, <2>2, <2>3, <2>4, <2>5 DEF Thread
<1>4. CASE Stop
  BY <1>4, OutsideIsWake DEF Stop
<1>5. CASE UNCHANGED vars
  BY <1>5, OutsideIsWake DEF vars
<1> QED
  BY <1>1, <1>2, <1>3, <1>4, <1>5 DEF Next

LEMMA Woke == Spec => []WakeInv
  BY InitWake, NextWake, Shared, PTL DEF Spec

\* A session that waits has its event coming, or is in the list of a thread that has still
\* to serve it and does not sleep; the one exception is a request that became smaller than
\* a sample when the mask grew (signal_thread, thd_entry_event_wait, rw_thd).
THEOREM ServerWakeups == Spec => []NoLostWakeup
<1>1. ShareInv /\ WakeInv => NoLostWakeup
  <2> SUFFICES ASSUME ShareInv, WakeInv, NEW c \in Clients, sess[c].pc \in {"open", "rw"},
                      ~thds[sess[c].thd].event
               PROVE  LET t == sess[c].thd IN
                      /\ t \in entries[thds[t].entry].list
                      /\ sess[c].pc = "open" => thds[t].waitForOpen
                      /\ sess[c].pc = "rw" => thds[t].active \/ Outgrown(t)
                      /\ ~Outgrown(t) => rw[thds[t].entry].pc \in Serving
    BY DEF NoLostWakeup, Serving
  <2>1. PICK t \in Handles : t = sess[c].thd /\ thds[t].entry \in EntryIds
    BY OwnHandle
  <2>2. PICK e \in EntryIds : e = thds[t].entry
    BY <2>1
  <2>3. AskedAt(t, e)
    BY <2>2 DEF WakeInv, Asked, Joined
  <2>4. /\ sess[c].pc = "open" => thds[t].waitForOpen
        /\ sess[c].pc = "rw" => thds[t].nb >= 1
    BY <2>1 DEF WakeInv, Told
  <2>5. thds[t].nb \in Nat /\ entries[e].size \in Nat
    BY DEF ShareInv, TypeOK, ThdEntry, DevEntry
  <2>6. thds[t].nb >= 1 => thds[t].active \/ Outgrown(t)
    BY <2>2, <2>3, <2>5 DEF AskedAt, Outgrown
  <2> QED
    BY <2>1, <2>2, <2>3, <2>4, <2>6 DEF AskedAt, Serving
<1> QED
  BY <1>1, Shared, Woke, PTL

-----------------------------------------------------------------------------
(* The mask of an answer: what the buffer has, and what the clients were told of it. *)

\* The buffer is not made again, and what the clients ask of it stays as it was.
LEMMA KeepsCover ==
  ASSUME ShareInv, Covered,
         \A f \in EntryIds : \A t \in entries'[f].list :
           /\ t \in entries[f].list /\ Same(thds'[t], thds[t])
           /\ entries'[f].mask = entries[f].mask /\ entries'[f].count = entries[f].count
           /\ thds[t].waitForOpen => thds'[t].waitForOpen
  PROVE  Covered'
  BY DEF Covered, Same

\* Nobody who was told a mask is given data under another one.
LEMMA KeepsHeaders ==
  ASSUME Headed,
         \A f \in EntryIds : \A t \in Handles : LET h == thds'[t] IN
           h.entry = f /\ h.active /\ ~h.writer /\ ~h.newClient =>
             /\ thds[t].entry = f /\ thds[t].active /\ ~thds[t].writer
             /\ ~thds[t].newClient /\ h.header = thds[t].header
             /\ entries'[f].mask = entries[f].mask
  PROVE  Headed'
  BY DEF Headed, Joined

\* Steps that leave the entries, the requests and their masks alone.
LEMMA AsideIsTold ==
  ASSUME ShareInv, Covered, Headed, entries' = entries,
         \A t \in Handles :
           /\ Same(thds'[t], thds[t]) /\ thds'[t].waitForOpen = thds[t].waitForOpen
           /\ thds'[t].active => \/ /\ thds[t].active /\ thds'[t].header = thds[t].header
                                    /\ thds'[t].newClient = thds[t].newClient
                                 \/ thds'[t].newClient
  PROVE  Covered' /\ Headed'
<1>1. \A f \in EntryIds : \A t \in entries[f].list : t \in Handles
  BY ListIs
<1>2. Covered'
  BY <1>1, KeepsCover
<1>3. Headed'
  BY KeepsHeaders DEF Same
<1> QED
  BY <1>2, <1>3

LEMMA CreatesIsTold ==
  ASSUME ShareInv, WakeInv, Covered, Headed, NEW c \in Clients, NEW t, NEW b,
         NEW e \in EntryIds, Creates(c, t, b, e)
  PROVE  Covered' /\ Headed'
<1>1. /\ t \in Handles /\ thds'[t].waitForOpen /\ ~thds'[t].active /\ ~thds[t].used
      /\ \A u \in Handles : u # t => thds'[u] = thds[u]
  BY WaitsIsOwned DEF Creates, Waits
<1>2. \A f \in EntryIds : \A u \in entries[f].list : u \in Handles /\ u # t
  BY <1>1, ListIs
<1>3. /\ entries'[e].list = {t} /\ rw[e].pc = "none"
      /\ \A f \in EntryIds : f # e => entries'[f] = entries[f]
  BY DEF Creates
<1>4. Covered'
  <2> SUFFICES ASSUME NEW f \in EntryIds, NEW u \in entries'[f].list, ~thds'[u].waitForOpen
               PROVE  /\ thds'[u].mask \subseteq entries'[f].mask
                      /\ thds'[u].count <= entries'[f].count
    BY DEF Covered
  <2>1. f # e
    BY <1>1, <1>3
  <2>2. u \in entries[f].list /\ thds'[u] = thds[u] /\ entries'[f] = entries[f]
    BY <1>1, <1>2, <1>3, <2>1
  <2> QED
    BY <2>2 DEF Covered
<1>5. Headed'
  <2>1. \A u \in Handles : thds[u].entry = e => ~thds[u].active
    BY <1>3 DEF WakeInv, Asked, AskedAt, Joined, Serving
  <2>2. ASSUME NEW f \in EntryIds, NEW u \in Handles, thds'[u].entry = f, thds'[u].active,
               ~thds'[u].newClient
        PROVE  /\ thds[u].entry = f /\ thds'[u] = thds[u] /\ entries'[f] = entries[f]
    BY <1>1, <1>3, <2>1, <2>2
  <2> QED
    BY <2>2, KeepsHeaders
<1> QED
  BY <1>4, <1>5

LEMMA JoinsIsTold ==
  ASSUME ShareInv, Covered, Headed, NEW c \in Clients, NEW t, NEW b,
         NEW e \in EntryIds, Joins(c, t, b, e)
  PROVE  Covered' /\ Headed'
<1>1. /\ t \in Handles /\ thds'[t].waitForOpen /\ ~thds'[t].active /\ ~thds[t].used
      /\ \A u \in Handles : u # t => thds'[u] = thds[u]
  BY WaitsIsOwned DEF Joins, Waits
<1>2. \A f \in EntryIds : \A u \in entries[f].list : u \in Handles /\ u # t
  BY <1>1, ListIs
<1>3. \A f \in EntryIds :
        /\ entries'[f].list \subseteq entries[f].list \cup {t}
        /\ entries'[f].mask = entries[f].mask /\ entries'[f].count = entries[f].count
  BY DEF Joins
<1>4. Covered'
  <2> SUFFICES ASSUME NEW f \in EntryIds, NEW u \in entries'[f].list, ~thds'[u].waitForOpen
               PROVE  /\ thds'[u].mask \subseteq entries'[f].mask
                      /\ thds'[u].count <= entries'[f].count
    BY DEF Covered
  <2>1. u \in entries[f].list /\ thds'[u] = thds[u]
    BY <1>1, <1>2, <1>3
  <2> QED
    BY <1>3, <2>1 DEF Covered
<1>5. Headed'
  BY <1>1, <1>3, KeepsHeaders
<1> QED
  BY <1>4, <1>5

LEMMA RemovesIsTold ==
  ASSUME ShareInv, Covered, Headed, NEW t \in Handles, NEW e \in EntryIds, t \in Joined(e),
         Removes(t, e)
  PROVE  Covered' /\ Headed'
<1>1. /\ thds'[t] = NewThd /\ \A u \in Handles : u # t => thds'[u] = thds[u]
  BY DEF Removes
<1>2. ~NewThd.active
  BY DEF NewThd
<1>3. ASSUME NEW f \in EntryIds
      PROVE  \/ /\ entries'[f].list \subseteq entries[f].list
                /\ t \notin entries'[f].list
                /\ entries'[f].mask = entries[f].mask /\ entries'[f].count = entries[f].count
             \/ entries'[f].list = {} /\ \A u \in Handles : thds[u].entry = f => u = t
  <2>1. CASE f # e
    <3>1. t \notin entries[f].list
      BY <2>1, ListIs DEF Joined
    <3> QED
      BY <2>1, <3>1 DEF Removes
  <2>2. CASE f = e /\ entries[e].ref = 1
    BY <2>2, NewEntryIs DEF Removes, Joined
  <2>3. CASE f = e /\ entries[e].ref # 1
    BY <2>3 DEF Removes
  <2> QED
    BY <2>1, <2>2, <2>3
<1>4. Covered'
  <2>1. ASSUME NEW f \in EntryIds, NEW u \in entries'[f].list
        PROVE  /\ u \in entries[f].list /\ thds'[u] = thds[u] /\ Same(thds'[u], thds[u])
               /\ entries'[f].mask = entries[f].mask /\ entries'[f].count = entries[f].count
    <3>1. /\ u \in entries[f].list /\ u # t
          /\ entries'[f].mask = entries[f].mask /\ entries'[f].count = entries[f].count
      BY <1>3
    <3>2. u \in Handles
      BY <3>1, ListIs
    <3> QED
      BY <1>1, <3>1, <3>2, SameIs
  <2> QED
    BY <2>1, KeepsCover
<1>5. Headed'
  <2>1. ASSUME NEW f \in EntryIds, NEW u \in Handles, thds'[u].entry = f, thds'[u].active
        PROVE  /\ u # t /\ thds'[u] = thds[u] /\ entries'[f].mask = entries[f].mask
    BY <1>1, <1>2, <1>3, <2>1
  <2> QED
    BY <2>1, KeepsHeaders
<1> QED
  BY <1>4, <1>5

LEMMA EndsIsTold ==
  ASSUME ShareInv, Covered, Headed, NEW e \in EntryIds, NEW code, Ends(e, code)
  PROVE  Covered' /\ Headed'
<1>1. entries[e].list = Joined(e)
  BY AllListed DEF Ends, Live
<1>2. \A f \in EntryIds : f # e => entries'[f] = entries[f] /\ Joined(f) \cap Joined(e) = {}
  BY DEF Ends, Joined
<1>3. \A u \in Handles : \/ u \notin entries[e].list /\ thds'[u] = thds[u]
                         \/ u \in entries[e].list /\ ~thds'[u].active
  BY DEF Ends
<1>4. Covered'
  <2>1. ASSUME NEW f \in EntryIds, NEW u \in entries'[f].list
        PROVE  u \in entries[f].list /\ thds'[u] = thds[u] /\ entries'[f] = entries[f]
    <3>1. f # e
      BY <2>1 DEF Ends
    <3>2. u \in entries[f].list /\ entries'[f] = entries[f]
      BY <1>2, <3>1
    <3>3. u \in Handles /\ u \in Joined(f)
      BY <3>2, ListIs
    <3> QED
      BY <1>1, <1>2, <1>3, <3>1, <3>2, <3>3
  <2> QED
    BY <2>1, SameIs, KeepsCover
<1>5. Headed'
  <2>1. ASSUME NEW f \in EntryIds, NEW u \in Handles, thds'[u].entry = f, thds'[u].active
        PROVE  thds'[u] = thds[u] /\ entries'[f] = entries[f]
    BY <1>1, <1>2, <1>3, <2>1 DEF Joined
  <2> QED
    BY <2>1, KeepsHeaders
<1> QED
  BY <1>4, <1>5

LEMMA LeavesIsTold ==
  ASSUME ShareInv, WakeInv, Covered, Headed, NEW e \in EntryIds, Leaves(e)
  PROVE  Covered' /\ Headed'
<1>1. entries[e].list = {} /\ rw[e].pc \notin Serving
  BY DEF Leaves, ShareInv, Phases, Listed, Serving
<1>2. entries'[e].list = {} /\ \A f \in EntryIds : f # e => entries'[f] = entries[f]
  BY <1>1, NewEntryIs DEF Leaves
<1>3. \A u \in Handles : thds'[u] = thds[u]
  BY DEF Leaves
<1>4. Covered'
  BY <1>2, <1>3, ListIs, SameIs, KeepsCover
<1>5. Headed'
  <2>1. \A u \in Handles : thds[u].entry = e => ~thds[u].active
    BY <1>1 DEF WakeInv, Asked, AskedAt, Joined
  <2> QED
    BY <1>2, <1>3, <2>1, KeepsHeaders
<1> QED
  BY <1>4, <1>5

\* The thread has nothing to give, or makes the buffer again: a request goes on only when
\* the mask stays what it was.
LEMMA TurnsIsTold ==
  ASSUME ShareInv, ShareInv', WakeInv, Covered, Headed, NEW e \in EntryIds,
         NEW n \in DevEntry, Turns(e, n)
  PROVE  Covered' /\ Headed'
<1> DEFINE updated == entries[e].updateMask
<1>1. entries[e].list = Joined(e)
  BY AllListed DEF Turns, Live
<1>2. n.size \in Nat /\ n.size >= 1 /\ n = entries'[e] /\ updated \in BOOLEAN
  <2>1. n.buf
    BY DEF Turns, ShareInv, Sized
  <2> QED
    BY <2>1 DEF Turns, ShareInv, Sized, DevEntry, TypeOK
<1>3. \A f \in EntryIds : f # e => entries'[f] = entries[f]
  BY DEF Turns
<1>4. \A f \in EntryIds : \A t \in entries[f].list : t \in Handles /\ t \in Joined(f)
  BY ListIs
<1>5. \A t \in Handles : t \notin entries[e].list => thds'[t] = thds[t]
  BY DEF Turns
<1>6. ASSUME NEW t \in entries[e].list
      PROVE  /\ Same(thds'[t], thds[t])
             /\ thds'[t].waitForOpen = (thds[t].waitForOpen /\ ~updated)
             /\ thds'[t].active =>
                  /\ thds[t].active /\ n = entries[e]
                  /\ thds'[t].newClient = thds[t].newClient /\ thds'[t].header = thds[t].header
  <2>1. thds[t] \in ThdEntry /\ AskedAt(t, e)
    BY <1>1, <1>4 DEF WakeInv, Asked, ShareInv, TypeOK
  <2> DEFINE r == thds'[t]
             opened == updated /\ thds[t].waitForOpen
             ready == thds[t].err = 0 /\ thds[t].nb >= n.size
  <2>2. /\ Same(r, thds[t]) /\ r.newClient = thds[t].newClient /\ r.header = thds[t].header
        /\ r.waitForOpen = (thds[t].waitForOpen /\ ~updated)
        /\ opened => ~r.active
        /\ ~opened /\ ready /\ updated => ~r.active
        /\ ~opened /\ ~(ready /\ updated) => r.active = ready
    <3>1. r = Refreshed(thds[t], n, updated)
      BY DEF Turns
    <3> HIDE DEF r
    <3> QED
      BY <1>2, <2>1, <3>1, RefreshedIs
  <2> HIDE DEF r
  <2>3. ASSUME r.active
        PROVE  thds[t].active /\ n = entries[e]
    <3>1. ready /\ ~updated
      BY <2>2, <2>3
    <3>2. n = entries[e]
      BY <3>1 DEF Turns
    <3>3. thds[t].nb \in Nat
      BY <2>1 DEF ThdEntry
    <3> QED
      BY <1>2, <2>1, <3>1, <3>2, <3>3 DEF AskedAt
  <2> QED
    BY <2>2, <2>3 DEF r
<1>7. Covered'
  <2> SUFFICES ASSUME NEW f \in EntryIds, NEW t \in entries'[f].list, ~thds'[t].waitForOpen
               PROVE  /\ thds'[t].mask \subseteq entries'[f].mask
                      /\ thds'[t].count <= entries'[f].count
    BY DEF Covered
  <2>1. CASE f # e
    <3>1. t \in entries[f].list /\ entries'[f] = entries[f] /\ t \in Handles
      BY <1>3, <1>4, <2>1
    <3>2. thds'[t] = thds[t]
      BY <1>1, <1>4, <1>5, <2>1, <3>1 DEF Joined
    <3> QED
      BY <3>1, <3>2 DEF Covered
  <2>2. CASE f = e
    <3>1. t \in entries[e].list
      BY <1>2, <2>2 DEF Turns
    <3>2. thds'[t].mask = thds[t].mask /\ thds'[t].count = thds[t].count
      BY <1>6, <3>1 DEF Same
    <3>3. CASE updated
      BY <1>2, <2>2, <3>1, <3>2, <3>3 DEF Turns
    <3>4. CASE ~updated
      <4>1. ~thds[t].waitForOpen /\ n = entries[e]
        BY <1>6, <3>1, <3>4 DEF Turns
      <4> QED
        BY <1>2, <2>2, <3>1, <3>2, <4>1 DEF Covered
    <3> QED
      BY <1>2, <3>3, <3>4
  <2> QED
    BY <2>1, <2>2
<1>8. Headed'
  <2>1. ASSUME NEW f \in EntryIds, NEW t \in Handles, thds'[t].entry = f, thds'[t].active
        PROVE  /\ thds[t].entry = f /\ thds[t].active /\ thds'[t].writer = thds[t].writer
               /\ thds'[t].newClient = thds[t].newClient /\ thds'[t].header = thds[t].header
               /\ entries'[f].mask = entries[f].mask
    <3>1. CASE t \in entries[e].list
      <4>1. f = e
        BY <1>4, <1>6, <2>1, <3>1 DEF Same, Joined
      <4> QED
        BY <1>2, <1>6, <2>1, <3>1, <4>1 DEF Same
    <3>2. CASE t \notin entries[e].list
      <4>1. thds'[t] = thds[t]
        BY <1>5, <3>2
      <4>2. f # e
        BY <1>1, <2>1, <3>2, <4>1 DEF Joined
      <4> QED
        BY <1>3, <2>1, <4>1, <4>2
    <3> QED
      BY <3>1, <3>2
  <2> QED
    BY <2>1, KeepsHeaders
<1> QED
  BY <1>7, <1>8

LEMMA FailsIsTold ==
  ASSUME ShareInv, Covered, Headed, NEW e \in EntryIds, Fails(e)
  PROVE  Covered' /\ Headed'
<1>1. \A t \in Handles :
        \/ thds'[t] = thds[t]
        \/ /\ Same(thds'[t], thds[t]) /\ thds'[t].waitForOpen = thds[t].waitForOpen
           /\ ~thds'[t].active
  BY DEF Fails
<1>2. entries' = entries
  BY DEF Fails
<1> QED
  BY <1>1, <1>2, SameIs, AsideIsTold

\* What is sent at the head of an answer is the mask of the buffer.
LEMMA RefillsIsTold ==
  ASSUME ShareInv, Covered, Headed, NEW e \in EntryIds, NEW len \in Nat, Refills(e, len)
  PROVE  Covered' /\ Headed'
<1>1. entries' = entries /\ \A t \in Handles : t \notin Readers(e) => thds'[t] = thds[t]
  BY DEF Refills
<1>2. ASSUME NEW t \in Readers(e)
      PROVE  /\ Same(thds'[t], thds[t]) /\ thds'[t].waitForOpen = thds[t].waitForOpen
             /\ thds'[t].active => thds'[t].header = Header(entries[e], thds[t])
  <2> DEFINE g == Given(thds[t], entries[e], len, rw[e].size, t[1])
             left == thds[t].nb - ToSend(entries[e], thds[t], len)
  <2>1. /\ thds[t] \in ThdEntry /\ entries[e] \in DevEntry /\ entries[e].size >= 1
        /\ rw[e].size \in Nat
    BY <1>2, SentIs DEF Refills
  <2>2. /\ g \in ThdEntry /\ Same(g, thds[t]) /\ g.waitForOpen = thds[t].waitForOpen
        /\ Gone(t[1]) => g.err = Failed /\ g.nb = 0 /\ ~g.active /\ g.event
        /\ ~Gone(t[1]) =>
             /\ left \in Nat /\ ~g.newClient /\ g.header = Header(entries[e], thds[t])
             /\ left < rw[e].size => g.err = left /\ g.nb = 0 /\ ~g.active /\ g.event
             /\ left >= rw[e].size =>
                  /\ g.err = thds[t].err /\ g.nb = left /\ g.active = thds[t].active
                  /\ g.event = thds[t].event
    BY <2>1, GivenIs
  <2>3. thds'[t] = g
    BY <1>2 DEF Refills
  <2> HIDE DEF g, left
  <2> QED
    BY <2>2, <2>3
<1>3. Covered'
  <2>1. \A f \in EntryIds : \A t \in entries[f].list : t \in Handles
    BY ListIs
  <2> QED
    BY <1>1, <1>2, <2>1, SameIs, KeepsCover
<1>4. Headed'
  <2> SUFFICES ASSUME NEW f \in EntryIds, NEW t \in Handles, thds'[t].entry = f,
                      thds'[t].active, ~thds'[t].writer, ~thds'[t].newClient
               PROVE  Demux \/ thds'[t].header = entries[f].mask
    BY <1>1 DEF Headed, Joined
  <2>1. CASE t \notin Readers(e)
    BY <1>1, <2>1 DEF Headed, Joined
  <2>2. CASE t \in Readers(e)
    <3>1. /\ thds'[t].header = Header(entries[e], thds[t])
          /\ thds[t].active /\ ~thds[t].writer /\ thds[t].entry = f /\ f = e
      BY <1>2, <2>2, ListIs DEF Same, Readers
    <3>2. CASE thds[t].newClient
      BY <3>1, <3>2 DEF Header
    <3>3. CASE ~thds[t].newClient
      BY <3>1, <3>3 DEF Header, Headed, Joined
    <3> QED
      BY <3>2, <3>3
  <2> QED
    BY <2>1, <2>2
<1> QED
  BY <1>3, <1>4

LEMMA PushesIsTold ==
  ASSUME ShareInv, Covered, Headed, NEW e \in EntryIds, NEW ok \in BOOLEAN, Pushes(e, ok)
  PROVE  Covered' /\ Headed'
<1>1. entries' = entries /\ \A t \in Handles : t \notin Writers(e) => thds'[t] = thds[t]
  BY DEF Pushes
<1>2. ASSUME NEW t \in Writers(e)
      PROVE  Same(thds'[t], thds[t]) /\ thds'[t].waitForOpen = thds[t].waitForOpen
  <2> DEFINE g == Taken(thds[t], entries[e], t[1])
             p == Pushed(g, ok, rw[e].size)
  <2>1. /\ thds[t] \in ThdEntry /\ entries[e] \in DevEntry /\ rw[e].size \in Nat
        /\ g \in ThdEntry
    BY <1>2, ListIs DEF Writers, Pushes, ShareInv, TypeOK, RwThd
  <2>2. g.waitForOpen = thds[t].waitForOpen
    BY <2>1, TakenIs
  <2>3. thds'[t] \in {g, p} /\ Same(thds'[t], thds[t])
    BY <1>2 DEF Pushes
  <2> HIDE DEF g
  <2>4. p.waitForOpen = g.waitForOpen
    BY <2>1, PushedIs
  <2> QED
    BY <2>2, <2>3, <2>4
<1>3. Covered'
  <2>1. \A f \in EntryIds : \A t \in entries[f].list : t \in Handles
    BY ListIs
  <2> QED
    BY <1>1, <1>2, <2>1, SameIs, KeepsCover
<1>4. Headed'
  <2>1. \A t \in Handles : ~thds'[t].writer => t \notin Writers(e)
    BY <1>2 DEF Same, Writers
  <2> QED
    BY <1>1, <2>1, KeepsHeaders
<1> QED
  BY <1>3, <1>4

LEMMA AsksIsTold ==
  ASSUME ShareInv, Covered, Headed, NEW c \in Clients, NEW t \in Handles, NEW e \in EntryIds,
         Asks(c, t, e)
  PROVE  Covered' /\ Headed'
<1>1. /\ entries' = entries /\ \A u \in Handles : u # t => thds'[u] = thds[u]
      /\ Same(thds'[t], thds[t]) /\ thds'[t].waitForOpen = thds[t].waitForOpen
      /\ thds'[t].newClient
  BY DEF Asks
<1> QED
  BY <1>1, SameIs, AsideIsTold

LEMMA RwWaitIsTold ==
  ASSUME ShareInv, Covered, Headed, NEW c \in Clients, RwWait(c)
  PROVE  Covered' /\ Headed'
<1>1. PICK t \in Handles : thds[t].used /\ (Answers(c, t) \/ Reads(c, t))
  BY RwWaitIs
<1>2. entries' = entries /\ \A u \in Handles : u # t => thds'[u] = thds[u]
  BY <1>1 DEF Answers, Reads
<1>3. /\ Same(thds'[t], thds[t]) /\ thds'[t].waitForOpen = thds[t].waitForOpen
      /\ thds'[t].active => /\ thds[t].active /\ thds'[t].header = thds[t].header
                            /\ thds'[t].newClient = thds[t].newClient
  BY <1>1 DEF Answers, Reads
<1> QED
  BY <1>2, <1>3, SameIs, AsideIsTold

LEMMA EndOpenIsTold ==
  ASSUME ShareInv, Covered, Headed, NEW c \in Clients, sess[c].pc \in {"check", "open"},
         NEW err, EndOpen(c, sess[c].thd, err)
  PROVE  Covered' /\ Headed'
<1>1. PICK t \in Handles : t = sess[c].thd /\ thds[t].used
  BY OwnHandle
<1>2. CASE err < 0
  <2>1. RemoveThd(t) /\ thds' = [thds EXCEPT ![t] = NewThd]
    BY <1>1, <1>2 DEF EndOpen
  <2>2. PICK e \in EntryIds : t \in Joined(e) /\ Removes(t, e)
    BY <1>1, <2>1, RemoveIs
  <2> QED
    BY <2>2, RemovesIsTold
<1>3. CASE ~(err < 0)
  <2>1. entries' = entries /\ thds' = thds
    BY <1>3 DEF EndOpen
  <2> QED
    BY <2>1, SameIs, AsideIsTold
<1> QED
  BY <1>2, <1>3

LEMMA OpenIsTold ==
  ASSUME ShareInv, Covered, Headed, NEW c \in Clients,
         CheckOpen(c) \/ OpenWait(c) \/ OpenBroken(c)
  PROVE  Covered' /\ Headed'
<1>1. PICK t \in Handles : t = sess[c].thd /\ thds[t].used /\ sess[c].pc \in {"check", "open"}
  BY OwnHandle DEF CheckOpen, OpenWait, OpenBroken
<1>2. \/ \E err : EndOpen(c, sess[c].thd, err)
      \/ entries' = entries /\ (thds' = thds \/ thds' = [thds EXCEPT ![t].event = FALSE])
  BY <1>1 DEF CheckOpen, OpenWait, OpenBroken
<1>3. CASE \E err : EndOpen(c, sess[c].thd, err)
  BY <1>1, <1>3, EndOpenIsTold
<1>4. CASE entries' = entries /\ thds' = thds
  BY <1>4, SameIs, AsideIsTold
<1>5. CASE entries' = entries /\ thds' = [thds EXCEPT ![t].event = FALSE]
  <2>1. /\ \A u \in Handles : Same(thds'[u], thds[u])
        /\ \A u \in Handles : u # t => thds'[u] = thds[u]
        /\ thds'[t].active = thds[t].active /\ thds'[t].newClient = thds[t].newClient
        /\ thds'[t].waitForOpen = thds[t].waitForOpen /\ thds'[t].header = thds[t].header
    BY <1>1, <1>5, EventRead DEF ShareInv
  <2> QED
    BY <1>5, <2>1, AsideIsTold
<1> QED
  BY <1>2, <1>3, <1>4, <1>5

LEMMA SessionEndsIsTold ==
  ASSUME ShareInv, Covered, Headed, NEW c \in Clients, Close(c) \/ EndSession(c)
  PROVE  Covered' /\ Headed'
<1>1. CASE handles[c] = <<>>
  <2>1. entries' = entries /\ thds' = thds
    BY <1>1 DEF Close, EndSession
  <2> QED
    BY <2>1, SameIs, AsideIsTold
<1>2. CASE handles[c] # <<>>
  <2>1. PICK t \in Handles : t = Head(handles[c]) /\ thds[t].used
    BY <1>2, OwnHandle
  <2>2. RemoveThd(t) /\ thds' = [thds EXCEPT ![t] = NewThd]
    BY <1>2, <2>1 DEF Close, EndSession
  <2>3. PICK e \in EntryIds : t \in Joined(e) /\ Removes(t, e)
    BY <2>1, <2>2, RemoveIs
  <2> QED
    BY <2>3, RemovesIsTold
<1> QED
  BY <1>1, <1>2

LEMMA StandsIsTold ==
  ASSUME ShareInv, Covered, Headed, UNCHANGED <<entries, thds>>
  PROVE  Covered' /\ Headed'
  BY SameIs, AsideIsTold

LEMMA InitTold == Init => Covered /\ Headed
<1> SUFFICES ASSUME Init
             PROVE  Covered /\ Headed
  OBVIOUS
<1>1. \A e \in EntryIds : Joined(e) = {} /\ entries[e] = NewEntry
  BY Constants DEF Init, Joined, NewThd
<1> QED
  BY <1>1, NewEntryIs DEF Covered, Headed

LEMMA NextTold == ShareInv /\ ShareInv' /\ WakeInv /\ MaskInv /\ [Next]_vars => MaskInv'
<1> SUFFICES ASSUME ShareInv, ShareInv', WakeInv, Covered, Headed, [Next]_vars
             PROVE  Covered' /\ Headed'
  BY DEF MaskInv
<1>1. ASSUME NEW c \in Clients,
             Connect(c) \/ Hangup(c) \/ Session(c) \/ Close(c) \/ EndSession(c) \/ Measure(c)
      PROVE  Covered' /\ Headed'
  <2>1. CASE Connect(c) \/ Hangup(c) \/ RwBroken(c)
    BY <2>1, StandsIsTold DEF Connect, Hangup, RwBroken
  <2>2. CASE Pauses(c) \/ Measure(c)
    BY <2>2, MeasureIs, StandsIsTold DEF Pauses
  <2>3. CASE Session(c)
    BY <2>1, <2>2, <2>3, OpenIsTold, RwIs, AsksIsTold, RwWaitIsTold DEF Session
  <2> QED
    BY <1>1, <2>1, <2>2, <2>3, SessionEndsIsTold
<1>2. ASSUME NEW c \in Clients, NEW k \in 1 .. MaxOpens, NEW b \in Buffers[c],
             OpenJoin(c, k, b) \/ OpenNew(c, k, b)
      PROVE  Covered' /\ Headed'
  <2>1. CASE OpenJoin(c, k, b)
    BY <2>1, OpenJoinIs, JoinsIsTold
  <2>2. CASE OpenNew(c, k, b)
    BY <2>2, OpenNewIs, CreatesIsTold
  <2> QED
    BY <1>2, <2>1, <2>2
<1>3. ASSUME NEW e \in EntryIds,
             Thread(e) \/ Delivery(e) \/ CreateFails(e) \/ RefillFails(e)
             \/ Push(e, TRUE) \/ Push(e, FALSE)
      PROVE  Covered' /\ Headed'
  <2>1. CASE ListEmpty(e) \/ CreateFails(e)
    BY <2>1, EndsIs, EndsIsTold
  <2>2. CASE Delivery(e)
    <3>1. PICK len \in Lengths(e) : Refill(e, len)
      BY <2>2 DEF Delivery
    <3>2. len \in Nat
      BY LengthsAre
    <3> QED
      BY <3>1, <3>2, RefillIs, RefillsIsTold
  <2>3. CASE Push(e, TRUE) \/ Push(e, FALSE)
    BY <2>3, PushIs, PushesIsTold
  <2>4. CASE Iterate(e)
    BY <2>4, IterateIs, TurnsIsTold
  <2>5. CASE RefillCancelled(e) \/ PushBegins(e)
    BY <2>5, StandsIsTold DEF RefillCancelled, PushBegins
  <2>6. CASE Leave(e) \/ RefillFails(e)
    BY <2>6, LeaveIs, LeavesIsTold, RefillFailsIs, FailsIsTold
  <2> QED
    BY <1>3, <2>1, <2>2, <2>3, <2>4, <2>5, <2>6 DEF Thread
<1>4. CASE Stop \/ UNCHANGED vars
  BY <1>4, StandsIsTold DEF Stop, vars
<1> QED
  BY <1>1, <1>2, <1>3, <1>4 DEF Next

LEMMA ToldMasks == Spec => []MaskInv
<1>1. Init => MaskInv
  BY InitTold DEF MaskInv
<1> QED
  BY <1>1, NextTold, Shared, Woke, PTL DEF Spec

\* While a session waits for its answer only the thread changes what it has of it.
LEMMA LeftIs ==
  ASSUME ShareInv, [Next]_vars, NEW c \in Clients, sess[c].pc = "rw", sess'[c].pc = "rw",
         sess'[c].left # sess[c].left
  PROVE  \E e \in EntryIds : \/ \E len \in Nat : Refills(e, len)
                             \/ \E ok \in BOOLEAN : Pushes(e, ok)
<1>1. sess' # sess /\ sess'[c] # sess[c] /\ sess \in [Clients -> Interpreter]
  BY DEF ShareInv, TypeOK
<1>2. ASSUME NEW d \in Clients,
             Connect(d) \/ Hangup(d) \/ Session(d) \/ Close(d) \/ EndSession(d) \/ Measure(d)
      PROVE  FALSE
  <2>1. CASE d = c
    <3>1. Hangup(d) \/ RwWait(d) \/ RwBroken(d)
      BY <1>2, <2>1 DEF Connect, Session, CheckOpen, OpenWait, OpenBroken, Close, EndSession, Rw,
         Measure
    <3>2. CASE Hangup(d)
      BY <1>1, <3>2 DEF Hangup
    <3>3. CASE RwWait(d)
      <4>1. \E t \in Handles : Answers(d, t) \/ Reads(d, t)
        BY <3>3, RwWaitIs
      <4> QED
        BY <1>1, <2>1, <4>1 DEF Answers, Reads
    <3>4. CASE RwBroken(d)
      <4> DEFINE l == LastLine(sess[c])
      <4>1. sess'[c] = Idle(l)
        BY <1>1, <2>1, <3>4 DEF RwBroken
      <4>2. l \in Interpreter
        BY <1>1, LastLineIs
      <4> HIDE DEF l
      <4>3. Idle(l).pc = "idle"
        BY <4>2, IdleIs
      <4> QED
        BY <4>1, <4>3
    <3> QED
      BY <3>1, <3>2, <3>3, <3>4
  <2>2. CASE d # c
    <3>1. \/ sess' = sess
          \/ \E s : sess' = [sess EXCEPT ![d] = s]
          \/ \E t \in Handles : Answers(d, t) \/ Reads(d, t)
          \/ \E t \in Handles : \E e \in EntryIds : Asks(d, t, e)
          \/ CheckOpen(d) \/ Close(d) \/ Pauses(d)
      BY <1>2, RwWaitIs, RwIs, MeasureIs
         DEF Connect, Hangup, Session, OpenWait, OpenBroken, EndSession, RwBroken
    <3>2. sess'[c] = sess[c]
      <4>1. CASE sess' = sess \/ \E s : sess' = [sess EXCEPT ![d] = s]
        BY <1>1, <2>2, <4>1
      <4>2. CASE \E t \in Handles : Answers(d, t) \/ Reads(d, t)
        BY <2>2, <4>2 DEF Answers, Reads
      <4>3. CASE \E t \in Handles : \E e \in EntryIds : Asks(d, t, e)
        BY <2>2, <4>3 DEF Asks
      <4>4. CASE CheckOpen(d)
        BY <1>1, <2>2, <4>4 DEF CheckOpen
      <4>5. CASE Close(d) \/ Pauses(d)
        BY <1>1, <2>2, <4>5 DEF Close, Pauses
      <4> QED
        BY <3>1, <4>1, <4>2, <4>3, <4>4, <4>5
    <3> QED
      BY <1>1, <3>2
  <2> QED
    BY <2>1, <2>2
<1>3. ASSUME NEW d \in Clients, NEW k \in 1 .. MaxOpens, NEW b \in Buffers[d],
             OpenJoin(d, k, b) \/ OpenNew(d, k, b)
      PROVE  FALSE
  <2>1. \E t \in Handles, e \in EntryIds : Creates(d, t, b, e) \/ Joins(d, t, b, e)
    BY <1>3, OpenNewIs, OpenJoinIs
  <2>2. \E stage, t : Opens(d, t, stage)
    BY <2>1 DEF Creates, Joins
  <2> QED
    BY <1>1, <2>2 DEF Opens
<1>4. ASSUME NEW e \in EntryIds,
             Thread(e) \/ Delivery(e) \/ CreateFails(e) \/ RefillFails(e)
             \/ Push(e, TRUE) \/ Push(e, FALSE)
      PROVE  \/ \E len \in Nat : Refills(e, len)
             \/ \E ok \in BOOLEAN : Pushes(e, ok)
  <2>1. Delivery(e) \/ Push(e, TRUE) \/ Push(e, FALSE)
    BY <1>1, <1>4 DEF Thread, ListEmpty, Iterate, RefillCancelled, PushBegins, Leave, CreateFails,
       RefillFails
  <2>2. CASE Delivery(e)
    <3>1. PICK len \in Lengths(e) : Refill(e, len)
      BY <2>2 DEF Delivery
    <3>2. len \in Nat
      BY LengthsAre
    <3> QED
      BY <3>1, <3>2, RefillIs
  <2> QED
    BY <2>1, <2>2, PushIs
<1>5. CASE Stop \/ UNCHANGED vars
  BY <1>1, <1>5 DEF Stop, vars
<1> QED
  BY <1>2, <1>3, <1>4, <1>5 DEF Next

\* The data of an answer is taken under the mask that was sent at its head, whoever else
\* opens or leaves the device in the middle (send_data, mask_updated in rw_thd).
THEOREM ServerOneMask == Spec => OneMaskPerAnswer
<1> DEFINE Takes(c) ==
      LET t == sess[c].thd IN
      sess[c].pc = "rw" /\ ~thds[t].writer /\ sess'[c].pc = "rw"
        /\ sess'[c].left < sess[c].left =>
          /\ thds[t].mask \subseteq entries[thds[t].entry].mask
          /\ Demux \/ thds'[t].header = entries[thds[t].entry].mask
<1>1. ShareInv /\ WakeInv /\ MaskInv /\ [Next]_vars => [\A c \in Clients : Takes(c)]_vars
  <2> SUFFICES ASSUME ShareInv, WakeInv, MaskInv, [Next]_vars, NEW c \in Clients,
                      sess[c].pc = "rw", ~thds[sess[c].thd].writer, sess'[c].pc = "rw",
                      sess'[c].left < sess[c].left
               PROVE  LET t == sess[c].thd IN
                      /\ thds[t].mask \subseteq entries[thds[t].entry].mask
                      /\ Demux \/ thds'[t].header = entries[thds[t].entry].mask
    OBVIOUS
  <2>1. PICK t \in Handles : t = sess[c].thd /\ t[1] = c
    BY OwnHandle
  <2>2. sess'[c].left # sess[c].left
    <3>1. sess[c].left \in Int
      BY DEF ShareInv, TypeOK, Interpreter
    <3> QED
      BY <3>1
  <2>3. PICK e \in EntryIds : \/ \E len \in Nat : Refills(e, len)
                              \/ \E ok \in BOOLEAN : Pushes(e, ok)
    BY <2>2, LeftIs
  <2>4. PICK len \in Nat : Refills(e, len)
    <3>1. ASSUME NEW ok \in BOOLEAN, Pushes(e, ok)
          PROVE  FALSE
      BY <2>1, <2>2, <3>1 DEF Pushes, Writers
    <3> QED
      BY <2>3, <3>1
  <2>5. t \in Readers(e) /\ ~Gone(c)
    BY <2>1, <2>2, <2>4 DEF Refills
  <2>6. /\ t \in entries[e].list /\ thds[t].entry = e /\ thds[t].active /\ ~thds[t].writer
        /\ ~thds[t].waitForOpen
    BY <2>5, ListIs DEF Readers, WakeInv, Asked, AskedAt, Joined
  <2>7. thds[t].mask \subseteq entries[e].mask
    BY <2>6 DEF MaskInv, Covered
  <2>8. thds'[t].header = Header(entries[e], thds[t])
    <3> DEFINE g == Given(thds[t], entries[e], len, rw[e].size, t[1])
               left == thds[t].nb - ToSend(entries[e], thds[t], len)
    <3>1. /\ thds[t] \in ThdEntry /\ entries[e] \in DevEntry /\ entries[e].size >= 1
          /\ rw[e].size \in Nat
      BY <2>4, <2>5, SentIs DEF Refills
    <3>2. /\ g \in ThdEntry /\ Same(g, thds[t]) /\ g.waitForOpen = thds[t].waitForOpen
          /\ Gone(t[1]) => g.err = Failed /\ g.nb = 0 /\ ~g.active /\ g.event
          /\ ~Gone(t[1]) =>
               /\ left \in Nat /\ ~g.newClient /\ g.header = Header(entries[e], thds[t])
               /\ left < rw[e].size => g.err = left /\ g.nb = 0 /\ ~g.active /\ g.event
               /\ left >= rw[e].size =>
                    /\ g.err = thds[t].err /\ g.nb = left /\ g.active = thds[t].active
                    /\ g.event = thds[t].event
      BY <3>1, GivenIs
    <3>3. thds'[t] = g
      BY <2>4, <2>5 DEF Refills
    <3> HIDE DEF g, left
    <3> QED
      BY <2>1, <2>5, <3>2, <3>3
  <2>9. Demux \/ Header(entries[e], thds[t]) = entries[e].mask
    BY <2>6 DEF Header, MaskInv, Headed, Joined
  <2> QED
    BY <2>1, <2>6, <2>7, <2>8, <2>9
<1> QED
  BY <1>1, Shared, Woke, ToldMasks, PTL DEF Spec, OneMaskPerAnswer

-----------------------------------------------------------------------------
(* The answers: the two sides agree where the next one starts. *)

\* The request of a session that waits is not over without a word: what its thread does to
\* one that is under way brings the answer further, on both sides.
LEMMA WorkIsInStep ==
  ASSUME ShareInv, WakeInv, InStep, UNCHANGED <<handles, hung, stop>>,
         \A t \in Handles : LET h == thds'[t] IN
           /\ Same(h, thds[t]) /\ (h.active => thds[t].active)
           /\ thds[t].nb = 0 => h.nb = 0
           /\ ~thds[t].active /\ ~thds[t].waitForOpen /\ (thds[t].nb >= 1 \/ thds[t].err # 0) =>
                h.nb >= 1 \/ h.err # 0,
         \A f \in EntryIds : entries[f].closed /\ Joined(f) # {} => entries'[f].closed,
         \A c \in Clients :
           /\ sess'[c].pc = sess[c].pc /\ sess'[c].thd = sess[c].thd
           /\ sess[c].pc # "rw" => sess'[c] = sess[c]
           /\ sess[c].pc = "rw" /\ ~Gone(c) =>
                \/ sess'[c] = sess[c] /\ thds'[sess[c].thd] = thds[sess[c].thd]
                \/ Progress(c, sess[c].thd)'
  PROVE  InStep'
<1> SUFFICES ASSUME NEW c \in Clients
             PROVE  QuietAt(c)' /\ AnsweringAt(c)' /\ MarkedAt(c)'
  BY DEF InStep
<1>0. PICK q, left : q = handles[c] /\ left = sess[c].left
  OBVIOUS
<1>1. /\ handles' = handles /\ (Gone(c)' <=> Gone(c))
      /\ QuietAt(c) /\ AnsweringAt(c) /\ MarkedAt(c)
  BY DEF Gone, InStep
<1>2. \A i \in 1 .. Len(q) : /\ q[i] \in Handles /\ thds[q[i]].entry \in EntryIds
                             /\ q[i] \in Joined(thds[q[i]].entry)
                             /\ ~thds[q[i]].waitForOpen
  BY <1>0 DEF ShareInv, Held, Own, Owned, Joined, WakeInv, Open
<1>3. QuietAt(c)'
  <2>1. sess[c].pc \in {"check", "open"} => sess[c].thd \in Handles
    BY OwnHandle
  <2> QED
    BY <1>0, <1>1, <1>2, <2>1 DEF QuietAt
<1>4. AnsweringAt(c)'
  <2> SUFFICES ASSUME sess[c].pc = "rw", ~Gone(c)
               PROVE  Progress(c, sess[c].thd)'
    BY <1>1 DEF AnsweringAt
  <2>1. PICK t \in Handles : t = sess[c].thd /\ thds[t].entry \in EntryIds /\ sess'[c].thd = t
    BY OwnHandle
  <2>2. CASE sess'[c] = sess[c] /\ thds'[t] = thds[t]
    <3>1. Progress(c, t)
      BY <1>1, <2>1 DEF AnsweringAt
    <3>2. entries[thds[t].entry].closed => entries'[thds[t].entry].closed
      BY <2>1 DEF Joined
    <3>3. Request(t)' = Request(t)
      BY <2>2 DEF Request
    <3>4. Progress(c, t)'
      BY <2>2, <3>1, <3>2, <3>3 DEF Progress
    <3> QED
      BY <2>1, <3>4
  <2> QED
    BY <2>1, <2>2
<1>5. MarkedAt(c)'
  <2> SUFFICES ASSUME sess[c].pc \in {"idle", "check", "open", "ask"}, ~Gone(c)
               PROVE  /\ left # 0 => \E i \in 1 .. Len(q) : Mark(q[i], left)'
                      /\ sess[c].extra =>
                           \E i \in 1 .. Len(q) : entries'[thds'[q[i]].entry].closed
    BY <1>0, <1>1 DEF MarkedAt
  <2>2. \A i \in 1 .. Len(q) : ~thds[q[i]].active
    BY <1>0, <1>1 DEF QuietAt
  <2>3. ASSUME left # 0
        PROVE  \E i \in 1 .. Len(q) : Mark(q[i], left)'
    <3>1. PICK i \in 1 .. Len(q) : Mark(q[i], left)
      BY <1>0, <1>1, <2>3 DEF MarkedAt
    <3>2. Mark(q[i], left)'
      BY <1>2, <2>2, <3>1 DEF Mark, Same
    <3> QED
      BY <3>2
  <2>4. ASSUME sess[c].extra
        PROVE  \E i \in 1 .. Len(q) : entries'[thds'[q[i]].entry].closed
    <3>1. PICK i \in 1 .. Len(q) : entries[thds[q[i]].entry].closed
      BY <1>0, <1>1, <2>4 DEF MarkedAt
    <3> QED
      BY <1>2, <3>1 DEF Same
  <2> QED
    BY <2>3, <2>4
<1> QED
  BY <1>3, <1>4, <1>5

\* A session keeps to its own handles.
LEMMA SessionIsInStep ==
  ASSUME ShareInv, InStep, NEW c \in Clients,
         \A t \in Handles : t[1] # c => thds'[t] = thds[t],
         \A d \in Clients : d # c =>
           /\ sess'[d] = sess[d] /\ handles'[d] = handles[d] /\ hung'[d] = hung[d],
         stop => stop',
         \A f \in EntryIds : entries[f].closed /\ (\E t \in Joined(f) : t[1] # c) =>
           entries'[f].closed,
         QuietAt(c)', AnsweringAt(c)', MarkedAt(c)'
  PROVE  InStep'
<1> SUFFICES ASSUME NEW d \in Clients, d # c
             PROVE  QuietAt(d)' /\ AnsweringAt(d)' /\ MarkedAt(d)'
  BY DEF InStep
<1>0. PICK q, left : q = handles[d] /\ left = sess[d].left
  OBVIOUS
<1>1. /\ handles'[d] = q /\ sess'[d] = sess[d] /\ (Gone(d) => Gone(d)')
      /\ QuietAt(d) /\ AnsweringAt(d) /\ MarkedAt(d)
  BY <1>0 DEF Gone, InStep
<1>2. \A i \in 1 .. Len(q) :
        /\ thds'[q[i]] = thds[q[i]]
        /\ entries[thds[q[i]].entry].closed => entries'[thds[q[i]].entry].closed
  <2> SUFFICES ASSUME NEW i \in 1 .. Len(q)
               PROVE  /\ thds'[q[i]] = thds[q[i]]
                      /\ entries[thds[q[i]].entry].closed => entries'[thds[q[i]].entry].closed
    OBVIOUS
  <2>1. /\ q[i] \in Handles /\ q[i][1] = d /\ thds[q[i]].entry \in EntryIds
        /\ q[i] \in Joined(thds[q[i]].entry)
    BY <1>0 DEF ShareInv, Held, Own, Owned, Joined
  <2> QED
    BY <2>1
<1>3. sess[d].pc \in {"check", "open", "rw"} => LET t == sess[d].thd IN
        /\ thds'[t] = thds[t]
        /\ entries[thds[t].entry].closed => entries'[thds[t].entry].closed
  <2> SUFFICES ASSUME sess[d].pc \in {"check", "open", "rw"}
               PROVE  LET t == sess[d].thd IN
                      /\ thds'[t] = thds[t]
                      /\ entries[thds[t].entry].closed => entries'[thds[t].entry].closed
    OBVIOUS
  <2>1. PICK t \in Handles : t = sess[d].thd /\ t[1] = d /\ thds[t].entry \in EntryIds
    BY OwnHandle
  <2>2. t \in Joined(thds[t].entry)
    BY DEF Joined
  <2> QED
    BY <2>1, <2>2
<1>4. QuietAt(d)'
  BY <1>0, <1>1, <1>2, <1>3 DEF QuietAt
<1>5. AnsweringAt(d)'
  <2> SUFFICES ASSUME sess[d].pc = "rw", ~Gone(d)
               PROVE  Progress(d, sess[d].thd)'
    BY <1>1 DEF AnsweringAt
  <2>1. PICK t : t = sess[d].thd
    OBVIOUS
  <2>2. /\ Progress(d, t) /\ thds'[t] = thds[t]
        /\ entries[thds[t].entry].closed => entries'[thds[t].entry].closed
    BY <1>1, <1>3, <2>1 DEF AnsweringAt
  <2>3. Request(t)' = Request(t)
    BY <2>2 DEF Request
  <2>4. Progress(d, t)'
    BY <1>1, <2>2, <2>3 DEF Progress
  <2> QED
    BY <1>1, <2>1, <2>4
<1>6. MarkedAt(d)'
  <2> SUFFICES ASSUME sess[d].pc \in {"idle", "check", "open", "ask"}, ~Gone(d)
               PROVE  /\ left # 0 => \E i \in 1 .. Len(q) : Mark(q[i], left)'
                      /\ sess[d].extra =>
                           \E i \in 1 .. Len(q) : entries'[thds'[q[i]].entry].closed
    BY <1>0, <1>1 DEF MarkedAt
  <2>1. /\ left # 0 => \E i \in 1 .. Len(q) : Mark(q[i], left)
        /\ sess[d].extra => \E i \in 1 .. Len(q) : entries[thds[q[i]].entry].closed
    BY <1>0, <1>1 DEF MarkedAt
  <2>2. \A i \in 1 .. Len(q) : Mark(q[i], left) => Mark(q[i], left)'
    BY <1>2 DEF Mark
  <2> QED
    BY <1>2, <2>1, <2>2
<1> QED
  BY <1>4, <1>5, <1>6

\* A session that waits for its answer.
LEMMA Answering ==
  ASSUME ShareInv, WakeInv, InStep, NEW c \in Clients, sess[c].pc = "rw", ~Gone(c)
  PROVE  \E t \in Handles :
           /\ t = sess[c].thd /\ t[1] = c /\ thds[t] \in ThdEntry /\ Progress(c, t)
           /\ thds[t].entry \in EntryIds /\ AskedAt(t, thds[t].entry) /\ ~thds[t].waitForOpen
           /\ Request(t) \in Nat /\ Request(t) >= 1 /\ t \in Joined(thds[t].entry)
           /\ handles[c] # <<>> /\ t = Head(handles[c])
<1>1. PICK t \in Handles : /\ t = sess[c].thd /\ t[1] = c /\ thds[t].used
                           /\ thds[t].entry \in EntryIds
  BY OwnHandle
<1>2. Request(t) \in Nat /\ Request(t) >= 1
  BY <1>1, RequestIs
<1>3. thds[t] \in ThdEntry /\ t \in Joined(thds[t].entry)
  BY <1>1 DEF ShareInv, TypeOK, Joined
<1>4. AskedAt(t, thds[t].entry)
  BY <1>1, <1>3 DEF WakeInv, Asked
<1>5. handles[c] # <<>> /\ t = Head(handles[c])
  BY <1>1 DEF ShareInv, Held
<1>6. ~thds[t].waitForOpen
  <2>1. handles[c] \in Seq(Handles) /\ Injective(handles[c])
    BY DEF ShareInv, TypeOK, Held
  <2>2. 1 \in 1 .. Len(handles[c]) /\ t = handles[c][1]
    BY <1>5, <2>1, Popped
  <2> QED
    BY <2>2 DEF WakeInv, Open
<1>7. Progress(c, t)
  BY <1>1 DEF InStep, AnsweringAt
<1> QED
  BY <1>1, <1>2, <1>3, <1>4, <1>5, <1>6, <1>7

LEMMA EndsIsInStep ==
  ASSUME ShareInv, WakeInv, InStep, NEW e \in EntryIds, NEW code, Ends(e, code)
  PROVE  InStep'
<1>1. \A t \in Handles : t \notin entries[e].list => thds'[t] = thds[t]
  BY DEF Ends
<1>2. \A t \in entries[e].list : LET h == thds'[t] IN
        /\ Same(h, thds[t]) /\ h.err = Failed /\ h.nb = 0 /\ ~h.active
        /\ h.newClient = thds[t].newClient
  BY DEF Ends
<1>3. \A t \in Handles : LET h == thds'[t] IN
        /\ Same(h, thds[t]) /\ (h.active => thds[t].active)
        /\ thds[t].nb = 0 => h.nb = 0
        /\ ~thds[t].active /\ ~thds[t].waitForOpen /\ (thds[t].nb >= 1 \/ thds[t].err # 0) =>
             h.nb >= 1 \/ h.err # 0
  BY <1>1, <1>2, SameIs, Constants
<1>4. entries'[e].closed /\ \A f \in EntryIds : f # e => entries'[f] = entries[f]
  BY DEF Ends
<1>5. \A c \in Clients : sess'[c] = sess[c]
  BY DEF Ends
<1>6. ASSUME NEW c \in Clients, sess[c].pc = "rw", ~Gone(c)
      PROVE  thds'[sess[c].thd] = thds[sess[c].thd] \/ Progress(c, sess[c].thd)'
  <2>1. PICK t \in Handles : t = sess[c].thd /\ Progress(c, t) /\ thds[t] \in ThdEntry
    BY <1>6, Answering
  <2>2. CASE t \in entries[e].list
    <3>1. /\ Same(thds'[t], thds[t]) /\ thds'[t].err = Failed /\ thds'[t].nb = 0
          /\ thds'[t].newClient = thds[t].newClient
      BY <1>2, <2>2
    <3>2. thds[t].entry = e
      BY <2>2, ListIs
    <3>3. Request(t)' = Request(t)
      BY <3>1 DEF Request, Same
    <3>4. entries'[thds'[t].entry].closed
      BY <1>4, <3>1, <3>2 DEF Same
    <3>5. Progress(c, t)'
      BY <1>5, <2>1, <3>1, <3>3, <3>4, Constants DEF Progress, Same
    <3> QED
      BY <1>5, <2>1, <3>5
  <2> QED
    BY <1>1, <2>1, <2>2
<1> QED
  BY <1>3, <1>4, <1>5, <1>6, WorkIsInStep DEF Ends

LEMMA TurnsIsInStep ==
  ASSUME ShareInv, ShareInv', WakeInv, InStep, NEW e \in EntryIds,
         NEW n \in DevEntry, Turns(e, n)
  PROVE  InStep'
<1> DEFINE updated == entries[e].updateMask
<1>1. entries[e].list = Joined(e)
  BY AllListed DEF Turns, Live
<1>2. n.size \in Nat /\ n.size >= 1 /\ n = entries'[e] /\ updated \in BOOLEAN
  <2>1. n.buf
    BY DEF Turns, ShareInv, Sized
  <2> QED
    BY <2>1 DEF Turns, ShareInv, Sized, DevEntry, TypeOK
<1>3. \A t \in Handles : t \notin entries[e].list => thds'[t] = thds[t]
  BY DEF Turns
<1>4. ASSUME NEW t \in entries[e].list
      PROVE  LET h == thds'[t] IN
             /\ Same(h, thds[t]) /\ h.newClient = thds[t].newClient
             /\ h.active => thds[t].active
             /\ thds[t].nb = 0 => h.nb = 0
             /\ ~thds[t].waitForOpen =>
                  \/ h.nb = thds[t].nb /\ h.err = thds[t].err
                  \/ h.nb = 0 /\ h.err = thds[t].nb /\ thds[t].nb >= 1
  <2>1. thds[t] \in ThdEntry /\ AskedAt(t, e)
    BY <1>1, ListIs DEF WakeInv, Asked, ShareInv, TypeOK
  <2> DEFINE r == thds'[t]
             opened == updated /\ thds[t].waitForOpen
             ready == thds[t].err = 0 /\ thds[t].nb >= n.size
  <2>2. /\ Same(r, thds[t]) /\ r.newClient = thds[t].newClient
        /\ opened => r.nb = 0 /\ ~r.active
        /\ ~opened /\ ready /\ updated => r.nb = 0 /\ r.err = thds[t].nb /\ ~r.active
        /\ ~opened /\ ~(ready /\ updated) =>
             r.nb = thds[t].nb /\ r.err = thds[t].err /\ r.active = ready
    <3>1. r = Refreshed(thds[t], n, updated)
      BY DEF Turns
    <3> HIDE DEF r
    <3> QED
      BY <1>2, <2>1, <3>1, RefreshedIs
  <2>3. thds[t].nb \in Nat
    BY <2>1 DEF ThdEntry
  <2> HIDE DEF r
  <2>4. r.active => thds[t].active
    <3> SUFFICES ASSUME r.active
                 PROVE  thds[t].active
      OBVIOUS
    <3>1. ready /\ ~updated
      BY <2>2
    <3>2. n = entries[e]
      BY <3>1 DEF Turns
    <3> QED
      BY <1>2, <2>1, <2>3, <3>1, <3>2 DEF AskedAt
  <2>5. CASE opened
    BY <2>2, <2>4, <2>5 DEF r
  <2>6. CASE ~opened /\ ready /\ updated
    BY <1>2, <2>2, <2>3, <2>6 DEF r
  <2>7. CASE ~opened /\ ~(ready /\ updated)
    BY <2>2, <2>4, <2>7 DEF r
  <2> QED
    BY <2>5, <2>6, <2>7
<1>5. \A t \in Handles : LET h == thds'[t] IN
        /\ Same(h, thds[t]) /\ (h.active => thds[t].active)
        /\ thds[t].nb = 0 => h.nb = 0
        /\ ~thds[t].active /\ ~thds[t].waitForOpen /\ (thds[t].nb >= 1 \/ thds[t].err # 0) =>
             h.nb >= 1 \/ h.err # 0
  <2> SUFFICES ASSUME NEW t \in Handles
               PROVE  LET h == thds'[t] IN
                      /\ Same(h, thds[t]) /\ (h.active => thds[t].active)
                      /\ thds[t].nb = 0 => h.nb = 0
                      /\ ~thds[t].active /\ ~thds[t].waitForOpen
                         /\ (thds[t].nb >= 1 \/ thds[t].err # 0) => h.nb >= 1 \/ h.err # 0
    OBVIOUS
  <2>1. CASE t \in entries[e].list
    <3>1. thds[t].nb \in Nat
      BY DEF ShareInv, TypeOK, ThdEntry
    <3> QED
      BY <1>4, <2>1, <3>1
  <2>2. CASE t \notin entries[e].list
    BY <1>3, <2>2, SameIs
  <2> QED
    BY <2>1, <2>2
<1>6. \A f \in EntryIds : entries'[f].closed = entries[f].closed
  BY <1>2 DEF Turns
<1>7. \A c \in Clients : sess'[c] = sess[c]
  BY DEF Turns
<1>8. ASSUME NEW c \in Clients, sess[c].pc = "rw", ~Gone(c)
      PROVE  thds'[sess[c].thd] = thds[sess[c].thd] \/ Progress(c, sess[c].thd)'
  <2>1. PICK t \in Handles : /\ t = sess[c].thd /\ Progress(c, t) /\ thds[t] \in ThdEntry
                             /\ ~thds[t].waitForOpen
    BY <1>8, Answering
  <2>2. CASE t \in entries[e].list
    <3>1. /\ Same(thds'[t], thds[t]) /\ thds'[t].newClient = thds[t].newClient
          /\ \/ thds'[t].nb = thds[t].nb /\ thds'[t].err = thds[t].err
             \/ thds'[t].nb = 0 /\ thds'[t].err = thds[t].nb /\ thds[t].nb >= 1
      BY <1>4, <2>1, <2>2
    <3>2. thds[t].entry = e
      BY <2>2, ListIs
    <3>3. Request(t)' = Request(t)
      BY <3>1 DEF Request, Same
    <3>4. entries'[thds'[t].entry].closed = entries[thds[t].entry].closed
      BY <1>6, <3>1, <3>2 DEF Same
    <3>5. Progress(c, t)'
      <4>1. CASE thds'[t].nb = thds[t].nb /\ thds'[t].err = thds[t].err
        BY <1>7, <2>1, <3>1, <3>3, <3>4, <4>1 DEF Progress, Same
      <4>2. CASE thds'[t].nb = 0 /\ thds'[t].err = thds[t].nb /\ thds[t].nb >= 1
        BY <1>7, <2>1, <3>1, <3>3, <4>2 DEF Progress, Same
      <4> QED
        BY <3>1, <4>1, <4>2
    <3> QED
      BY <1>7, <2>1, <3>5
  <2> QED
    BY <1>3, <2>1, <2>2
<1> QED
  BY <1>5, <1>6, <1>7, <1>8, WorkIsInStep DEF Turns

\* Steps that change nothing but handles that are active, and the answers that wait for them.
LEMMA ServesIsInStep ==
  ASSUME ShareInv, WakeInv, InStep, UNCHANGED <<entries, handles, hung, stop>>,
         NEW S, \A t \in S : t \in Handles /\ thds[t].active /\ thds[t].nb >= 1,
         \A t \in Handles : t \notin S => thds'[t] = thds[t],
         \A t \in S : Same(thds'[t], thds[t]),
         \A c \in Clients :
           /\ sess'[c].pc = sess[c].pc /\ sess'[c].thd = sess[c].thd
           /\ ~(sess[c].pc = "rw" /\ sess[c].thd \in S) => sess'[c] = sess[c]
           /\ sess[c].pc = "rw" /\ sess[c].thd \in S /\ ~Gone(c) =>
                Progress(c, sess[c].thd)'
  PROVE  InStep'
<1>1. \A t \in Handles : LET h == thds'[t] IN
        /\ Same(h, thds[t]) /\ (h.active => thds[t].active)
        /\ thds[t].nb = 0 => h.nb = 0
        /\ ~thds[t].active /\ ~thds[t].waitForOpen /\ (thds[t].nb >= 1 \/ thds[t].err # 0) =>
             h.nb >= 1 \/ h.err # 0
  <2>1. \A t \in S : thds[t].nb # 0
    OBVIOUS
  <2> QED
    BY <2>1, SameIs
<1>2. ASSUME NEW c \in Clients, sess[c].pc = "rw", ~Gone(c), sess[c].thd \notin S
      PROVE  sess'[c] = sess[c] /\ thds'[sess[c].thd] = thds[sess[c].thd]
  <2>1. sess[c].thd \in Handles
    BY <1>2, OwnHandle
  <2> QED
    BY <1>2, <2>1
<1>3. \A c \in Clients :
        /\ sess'[c].pc = sess[c].pc /\ sess'[c].thd = sess[c].thd
        /\ sess[c].pc # "rw" => sess'[c] = sess[c]
        /\ sess[c].pc = "rw" /\ ~Gone(c) =>
             \/ sess'[c] = sess[c] /\ thds'[sess[c].thd] = thds[sess[c].thd]
             \/ Progress(c, sess[c].thd)'
  BY <1>2
<1>4. \A f \in EntryIds : entries[f].closed /\ Joined(f) # {} => entries'[f].closed
  OBVIOUS
<1> QED
  BY <1>1, <1>3, <1>4, WorkIsInStep

LEMMA FailsIsInStep ==
  ASSUME ShareInv, WakeInv, InStep, NEW e \in EntryIds, Fails(e)
  PROVE  InStep'
<1>1. \A t \in Readers(e) :
        /\ t \in Handles /\ thds[t].active /\ ~thds[t].writer /\ thds[t].nb >= 1
        /\ thds'[t].nb = 0 /\ thds'[t].err = Failed /\ Same(thds'[t], thds[t])
  BY ListIs DEF Fails, Readers, WakeInv, Asked, AskedAt, Joined
<1>2. \A c \in Clients : sess'[c] = sess[c]
  BY DEF Fails
<1>3. ASSUME NEW c \in Clients, sess[c].pc = "rw", sess[c].thd \in Readers(e), ~Gone(c)
      PROVE  Progress(c, sess[c].thd)'
  <2>1. PICK t \in Handles : t = sess[c].thd /\ Progress(c, t) /\ thds[t] \in ThdEntry
    BY <1>3, Answering
  <2>2. Request(t)' = Request(t)
    BY <1>1, <1>3, <2>1 DEF Request, Same
  <2>3. Progress(c, t)'
    BY <1>1, <1>2, <1>3, <2>1, <2>2, Constants DEF Progress, Same
  <2> QED
    BY <1>2, <2>1, <2>3
<1> QED
  BY <1>1, <1>2, <1>3, ServesIsInStep DEF Fails

LEMMA RefillsIsInStep ==
  ASSUME ShareInv, WakeInv, InStep, NEW e \in EntryIds, NEW len \in Nat, Refills(e, len)
  PROVE  InStep'
<1>1. \A t \in Readers(e) :
        /\ t \in Handles /\ thds[t].active /\ ~thds[t].writer /\ thds[t].nb >= 1
        /\ Same(thds'[t], thds[t])
  BY ListIs DEF Refills, Readers, WakeInv, Asked, AskedAt, Joined
<1>2. \A c \in Clients :
        /\ sess'[c].pc = sess[c].pc /\ sess'[c].thd = sess[c].thd
        /\ ~(sess[c].pc = "rw" /\ sess[c].thd \in Readers(e)) => sess'[c] = sess[c]
  <2> SUFFICES ASSUME NEW c \in Clients, ~(sess[c].pc = "rw" /\ sess[c].thd \in Readers(e))
               PROVE  sess'[c] = sess[c]
    BY DEF Refills
  <2>1. sess[c] \in Interpreter /\ sess'[c] \in Interpreter
    BY DEF ShareInv, TypeOK, Refills
  <2>2. /\ sess'[c].pc = sess[c].pc /\ sess'[c].thd = sess[c].thd /\ sess'[c].nb = sess[c].nb
        /\ sess'[c].left = sess[c].left /\ sess'[c].extra = sess[c].extra
    BY DEF Refills
  <2> QED
    BY <2>1, <2>2 DEF Interpreter
<1>3. ASSUME NEW c \in Clients, sess[c].pc = "rw", sess[c].thd \in Readers(e), ~Gone(c)
      PROVE  Progress(c, sess[c].thd)'
  <2>1. PICK t \in Handles : /\ t = sess[c].thd /\ t[1] = c /\ Progress(c, t)
                             /\ thds[t] \in ThdEntry
    BY <1>3, Answering
  <2> DEFINE g == Given(thds[t], entries[e], len, rw[e].size, t[1])
             rest == thds[t].nb - ToSend(entries[e], thds[t], len)
  <2>2. /\ entries[e] \in DevEntry /\ entries[e].size >= 1 /\ rw[e].size \in Nat
        /\ rw[e].size >= 1 /\ ToSend(entries[e], thds[t], len) \in 0 .. thds[t].nb
    BY <1>3, <2>1, SentIs DEF Refills
  <2>3. /\ g \in ThdEntry /\ Same(g, thds[t]) /\ g.waitForOpen = thds[t].waitForOpen
        /\ Gone(t[1]) => g.err = Failed /\ g.nb = 0 /\ ~g.active /\ g.event
        /\ ~Gone(t[1]) =>
             /\ rest \in Nat /\ ~g.newClient /\ g.header = Header(entries[e], thds[t])
             /\ rest < rw[e].size => g.err = rest /\ g.nb = 0 /\ ~g.active /\ g.event
             /\ rest >= rw[e].size =>
                  /\ g.err = thds[t].err /\ g.nb = rest /\ g.active = thds[t].active
                  /\ g.event = thds[t].event
    BY <2>1, <2>2, GivenIs
  <2>4. thds'[t] = g
    BY <1>3, <2>1 DEF Refills
  <2>5. /\ sess'[c].left = sess[c].left - ToSend(entries[e], thds[t], len)
        /\ sess'[c].nb = sess[c].nb /\ sess'[c].extra = sess[c].extra
    BY <1>3, <2>1 DEF Refills
  <2>6. /\ thds[t].nb \in Nat /\ thds[t].nb >= 1 /\ ~thds[t].writer
        /\ sess[c].left = thds[t].nb /\ sess[c].left \in 0 .. sess[c].nb /\ sess[c].nb \in Nat
        /\ ~sess[c].extra /\ sess[c].nb = Request(t)
    BY <1>1, <1>3, <2>1 DEF Progress, ThdEntry, ShareInv, TypeOK, Interpreter
  <2>7. sess'[c].left = rest /\ rest \in 0 .. sess[c].nb
    BY <2>2, <2>5, <2>6
  <2> HIDE DEF g, rest
  <2>8. \/ thds'[t].nb = 0 /\ thds'[t].err = rest
        \/ thds'[t].nb = rest /\ rest >= 1
    BY <2>1, <1>3, <2>2, <2>3, <2>4, <2>7
  <2>9. Request(t)' = Request(t) /\ ~thds'[t].writer
    BY <2>3, <2>4, <2>6 DEF Request, Same
  <2>10. Progress(c, t)'
    BY <2>5, <2>6, <2>7, <2>8, <2>9 DEF Progress
  <2> QED
    BY <1>2, <2>1, <2>10
<1> QED
  BY <1>1, <1>2, <1>3, ServesIsInStep DEF Refills

\* What a client asked for fits into the buffer of the entry, so it is taken at once.
LEMMA AllReceived ==
  ASSUME NEW thd \in ThdEntry, NEW entry \in DevEntry, thd.count <= entry.count,
         thd.nb = thd.count * SampleSize(thd.mask)
  PROVE  ToReceive(entry, thd) = thd.nb
<1> DEFINE own == SampleSize(thd.mask)
           room == own * entry.count
<1>1. own \in Nat /\ thd.count \in Nat /\ entry.count \in Nat /\ thd.nb \in Nat
  BY MasksAre DEF ThdEntry, DevEntry
<1> HIDE DEF own
<1>2. own * thd.count = thd.nb /\ own * thd.count <= room /\ room \in Nat
  BY <1>1, Products DEF own
<1> HIDE DEF room
<1>3. room >= thd.nb
  BY <1>1, <1>2
<1>4. Min({room, thd.nb}) = thd.nb
  <2>1. Min({room, thd.nb}) <= thd.nb /\ Min({room, thd.nb}) \in {room, thd.nb}
    BY <1>1, <1>2, MinOfTwo
  <2> QED
    BY <1>1, <1>2, <1>3, <2>1
<1> QED
  BY <1>4 DEF ToReceive, own, room

LEMMA PushesIsInStep ==
  ASSUME ShareInv, WakeInv, Covered, InStep, NEW e \in EntryIds, NEW ok \in BOOLEAN,
         Pushes(e, ok)
  PROVE  InStep'
<1>1. \A t \in Writers(e) :
        /\ t \in Handles /\ thds[t].active /\ thds[t].writer /\ thds[t].nb >= 1
        /\ t \in entries[e].list /\ thds[t].err = 0 /\ ~thds[t].waitForOpen
        /\ Same(thds'[t], thds[t])
  BY ListIs DEF Pushes, Writers, WakeInv, Asked, AskedAt, Joined
<1>2. \A c \in Clients :
        /\ sess'[c].pc = sess[c].pc /\ sess'[c].thd = sess[c].thd
        /\ ~(sess[c].pc = "rw" /\ sess[c].thd \in Writers(e)) => sess'[c] = sess[c]
  <2> SUFFICES ASSUME NEW c \in Clients
               PROVE  sess'[c].pc = sess[c].pc /\ sess'[c].thd = sess[c].thd
    BY DEF Pushes
  <2>1. sess[c] \in Interpreter
    BY DEF ShareInv, TypeOK
  <2>2. LET l == Line(sess[c], TRUE) IN l.pc = sess[c].pc /\ l.thd = sess[c].thd
    BY <2>1, LineIs
  <2>3. sess'[c] \in {sess[c], Line(sess[c], TRUE)}
    BY DEF Pushes
  <2> QED
    BY <2>2, <2>3
<1>3. ASSUME NEW c \in Clients, sess[c].pc = "rw", sess[c].thd \in Writers(e), ~Gone(c)
      PROVE  Progress(c, sess[c].thd)'
  <2>1. PICK t \in Handles : /\ t = sess[c].thd /\ t[1] = c /\ Progress(c, t)
                             /\ thds[t] \in ThdEntry
    BY <1>3, Answering
  <2> DEFINE g == Taken(thds[t], entries[e], t[1])
             p == Pushed(g, ok, rw[e].size)
  <2>2. /\ thds[t].nb >= 1 /\ thds[t].nb \in Nat /\ thds[t].err = 0 /\ thds[t].writer
        /\ thds[t].active /\ ~thds[t].waitForOpen /\ t \in entries[e].list
        /\ Same(thds'[t], thds[t])
    BY <1>1, <1>3, <2>1 DEF ThdEntry
  <2>3. /\ entries[e] \in DevEntry /\ rw[e].size \in Nat /\ rw[e].size >= 1
        /\ ~entries[e].cancelled
    <3>1. ~entries[e].cancelled
      BY <2>2 DEF WakeInv, Abandoned
    <3> QED
      BY <3>1, ListIs DEF ShareInv, Sized, Pushes, TypeOK, RwThd
  <2>4. thds'[t] = p
    BY <1>3, <2>1, <2>3 DEF Pushes
  <2>5. /\ sess[c].nb = Request(t) /\ ~sess[c].extra /\ thds[t].nb = sess[c].nb
        /\ sess[c].left = IF thds[t].newClient THEN 2 ELSE 1
    BY <2>1, <2>2 DEF Progress
  <2>6. ToReceive(entries[e], thds[t]) = thds[t].nb
    <3>1. thds[t].count <= entries[e].count
      BY <2>2 DEF Covered
    <3>2. thds[t].nb = thds[t].count * SampleSize(thds[t].mask)
      BY <2>5 DEF Request
    <3> QED
      BY <2>1, <2>3, <3>1, <3>2, AllReceived
  <2>7. g \in ThdEntry /\ g.nb = 0 /\ ~g.newClient /\ g.active /\ g.err = 0
    <3>1. /\ g \in ThdEntry
          /\ ~Gone(t[1]) => /\ g.nb = thds[t].nb - ToReceive(entries[e], thds[t])
                            /\ ~g.newClient /\ g.err = thds[t].err /\ g.active = thds[t].active
      BY <2>1, <2>3, TakenIs
    <3> HIDE DEF g
    <3>2. ~Gone(t[1]) /\ thds[t].nb - ToReceive(entries[e], thds[t]) = 0
      BY <1>3, <2>1, <2>2, <2>6
    <3>3. thds[t].active /\ thds[t].err = 0
      BY <2>2
    <3> QED
      BY <3>1, <3>2, <3>3
  <2> HIDE DEF g
  <2>8. /\ p.newClient = g.newClient
        /\ g.active /\ ~ok => p.err = Failed /\ p.nb = 0
        /\ g.active /\ ok /\ g.nb < rw[e].size => p.err = g.nb /\ p.nb = 0
    BY <2>3, <2>7, PushedIs
  <2> HIDE DEF p
  <2>9. ~thds'[t].newClient /\ thds'[t].nb = 0 /\ thds'[t].err \in {Failed, 0}
    BY <2>3, <2>4, <2>7, <2>8
  <2>10. sess'[c].left = 1 /\ sess'[c].nb = sess[c].nb /\ sess'[c].extra = sess[c].extra
    <3>1. CASE thds[t].newClient
      <4> DEFINE l == Line(sess[c], TRUE)
      <4>1. sess'[c] = l
        BY <1>3, <2>1, <3>1 DEF Pushes
      <4>2. /\ l.nb = sess[c].nb
            /\ sess[c].left # 0 => l.extra = sess[c].extra /\ l.left = sess[c].left - 1
        <5>1. sess[c] \in Interpreter
          BY DEF ShareInv, TypeOK
        <5> QED
          BY <5>1, LineIs
      <4> HIDE DEF l
      <4> QED
        BY <2>5, <3>1, <4>1, <4>2
    <3>2. CASE ~thds[t].newClient
      <4>1. sess'[c] = sess[c]
        BY <1>3, <2>1, <3>2 DEF Pushes
      <4> QED
        BY <2>5, <3>2, <4>1
    <3> QED
      BY <3>1, <3>2
  <2>11. Request(t)' = Request(t) /\ thds'[t].writer
    BY <2>2 DEF Request, Same
  <2>12. Progress(c, t)'
    BY <2>5, <2>9, <2>10, <2>11 DEF Progress
  <2> QED
    BY <1>2, <2>1, <2>12
<1> QED
  BY <1>1, <1>2, <1>3, ServesIsInStep DEF Pushes

\* Steps in which no answer gets on, and none is cut short.
LEMMA StandsIsInStep ==
  ASSUME ShareInv, WakeInv, InStep, UNCHANGED <<thds, sess, handles>>,
         \A c \in Clients : Gone(c) => Gone(c)',
         \A f \in EntryIds : entries[f].closed /\ Joined(f) # {} => entries'[f].closed
  PROVE  InStep'
<1>1. \A f \in EntryIds : \A t \in Joined(f) : entries[f].closed => entries'[f].closed
  OBVIOUS
<1> SUFFICES ASSUME NEW c \in Clients
             PROVE  QuietAt(c)' /\ AnsweringAt(c)' /\ MarkedAt(c)'
  BY DEF InStep
<1>2. QuietAt(c) /\ AnsweringAt(c) /\ MarkedAt(c) /\ (Gone(c) => Gone(c)')
  BY DEF InStep
<1>3. \A i \in 1 .. Len(handles[c]) :
        entries[thds[handles[c][i]].entry].closed => entries'[thds[handles[c][i]].entry].closed
  <2> SUFFICES ASSUME NEW i \in 1 .. Len(handles[c])
               PROVE  entries[thds[handles[c][i]].entry].closed =>
                        entries'[thds[handles[c][i]].entry].closed
    OBVIOUS
  <2>1. /\ handles[c][i] \in Handles /\ thds[handles[c][i]].entry \in EntryIds
        /\ handles[c][i] \in Joined(thds[handles[c][i]].entry)
    BY DEF ShareInv, Held, Own, Owned, Joined
  <2> QED
    BY <1>1, <2>1
<1>4. QuietAt(c)'
  BY <1>2 DEF QuietAt
<1>5. AnsweringAt(c)'
  <2> SUFFICES ASSUME sess[c].pc = "rw", ~Gone(c)
               PROVE  Progress(c, sess[c].thd)'
    BY <1>2 DEF AnsweringAt
  <2>1. PICK t \in Handles : /\ t = sess[c].thd /\ Progress(c, t) /\ thds[t].entry \in EntryIds
                             /\ t \in Joined(thds[t].entry)
    BY Answering
  <2>2. Request(t)' = Request(t)
    BY DEF Request
  <2>3. entries[thds[t].entry].closed => entries'[thds[t].entry].closed
    BY <1>1, <2>1
  <2>4. Progress(c, t)'
    BY <2>1, <2>2, <2>3 DEF Progress
  <2> QED
    BY <2>1, <2>4
<1>6. MarkedAt(c)'
  BY <1>2, <1>3 DEF MarkedAt, Mark
<1> QED
  BY <1>4, <1>5, <1>6

LEMMA LeavesIsInStep ==
  ASSUME ShareInv, WakeInv, InStep, NEW e \in EntryIds, Leaves(e)
  PROVE  InStep'
<1>1. \A f \in EntryIds : entries[f].closed /\ Joined(f) # {} => entries'[f].closed
  BY DEF Leaves
<1>2. UNCHANGED <<thds, sess, handles, hung, stop>>
  BY DEF Leaves
<1> QED
  BY <1>1, <1>2, StandsIsInStep DEF Gone

\* A session that asks for nothing, whatever it does with its handles.
LEMMA CalmIsInStep ==
  ASSUME ShareInv, InStep, NEW c \in Clients, UNCHANGED <<hung, stop>>,
         sess[c].pc \in {"idle", "check", "open", "ask"},
         sess'[c].pc \in {"idle", "check", "open", "ask"},
         \A t \in Handles : t[1] # c => thds'[t] = thds[t],
         \A d \in Clients : d # c => sess'[d] = sess[d] /\ handles'[d] = handles[d],
         sess'[c].pc \in {"check", "open"} => thds'[sess'[c].thd].nb = 0,
         ~Gone(c) => \A j \in 1 .. Len(handles'[c]) : ~thds'[handles'[c][j]].active,
         \/ sess'[c].left = 0 /\ ~sess'[c].extra
         \/ /\ sess'[c].left = sess[c].left /\ sess'[c].extra = sess[c].extra
            /\ \A i \in 1 .. Len(handles[c]) : LET t == handles[c][i] IN
                 /\ \E j \in 1 .. Len(handles'[c]) : handles'[c][j] = t
                 /\ Same(thds'[t], thds[t]) /\ thds'[t].nb = thds[t].nb
                 /\ thds'[t].err = thds[t].err,
         \A f \in EntryIds :
           entries[f].closed /\ (\E t \in Joined(f) : thds'[t].entry = f) => entries'[f].closed
  PROVE  InStep'
<1>1. QuietAt(c)'
  BY DEF QuietAt, Gone
<1>2. AnsweringAt(c)'
  BY DEF AnsweringAt
<1>3. MarkedAt(c)'
  <2>1. PICK left, extra : left = sess'[c].left /\ extra = sess'[c].extra
    OBVIOUS
  <2>2. PICK p : p = handles'[c]
    OBVIOUS
  <2> SUFFICES ASSUME ~Gone(c)
               PROVE  /\ left # 0 => \E j \in 1 .. Len(p) : Mark(p[j], left)'
                      /\ extra => \E j \in 1 .. Len(p) : entries'[thds'[p[j]].entry].closed
    BY <2>1, <2>2 DEF MarkedAt, Gone
  <2>3. CASE left = 0 /\ ~extra
    BY <2>3
  <2>4. CASE ~(left = 0 /\ ~extra)
    <3>1. /\ left = sess[c].left /\ extra = sess[c].extra
          /\ \A i \in 1 .. Len(handles[c]) : LET t == handles[c][i] IN
               /\ \E j \in 1 .. Len(p) : p[j] = t
               /\ Same(thds'[t], thds[t]) /\ thds'[t].nb = thds[t].nb
               /\ thds'[t].err = thds[t].err
      BY <2>1, <2>2, <2>4
    <3>2. /\ left # 0 => \E i \in 1 .. Len(handles[c]) : Mark(handles[c][i], left)
          /\ extra => \E i \in 1 .. Len(handles[c]) :
               entries[thds[handles[c][i]].entry].closed
      BY <3>1 DEF InStep, MarkedAt
    <3>3. ASSUME left # 0
          PROVE  \E j \in 1 .. Len(p) : Mark(p[j], left)'
      <4>1. PICK i \in 1 .. Len(handles[c]) : Mark(handles[c][i], left)
        BY <3>2, <3>3
      <4>2. PICK t : t = handles[c][i]
        OBVIOUS
      <4>3. PICK j \in 1 .. Len(p) : p[j] = t
        BY <3>1, <4>2
      <4>4. Mark(t, left)'
        BY <3>1, <4>1, <4>2 DEF Mark, Same
      <4> QED
        BY <4>3, <4>4
    <3>4. ASSUME extra
          PROVE  \E j \in 1 .. Len(p) : entries'[thds'[p[j]].entry].closed
      <4>1. PICK i \in 1 .. Len(handles[c]) : entries[thds[handles[c][i]].entry].closed
        BY <3>2, <3>4
      <4>2. PICK t \in Handles : t = handles[c][i] /\ thds[t].entry \in EntryIds
        BY DEF ShareInv, Held, Own, Owned
      <4>3. PICK j \in 1 .. Len(p) : p[j] = t
        BY <3>1, <4>2
      <4>4. t \in Joined(thds[t].entry) /\ thds'[t].entry = thds[t].entry
        BY <3>1, <4>2 DEF Joined, Same
      <4>5. entries'[thds'[t].entry].closed
        BY <4>1, <4>2, <4>4
      <4> QED
        BY <4>3, <4>5
    <3> QED
      BY <3>3, <3>4
  <2> QED
    BY <2>3, <2>4
<1>4. \A f \in EntryIds : entries[f].closed /\ (\E t \in Joined(f) : t[1] # c) =>
        entries'[f].closed
  BY DEF Joined
<1> QED
  BY <1>1, <1>2, <1>3, <1>4, SessionIsInStep

\* Of the handles of a session that asks for nothing none is active.
LEMMA CalmHandles ==
  ASSUME ShareInv, InStep, NEW c \in Clients, sess[c].pc \in {"idle", "check", "open", "ask"}
  PROVE  \A i \in 1 .. Len(handles[c]) :
           /\ handles[c][i] \in Handles /\ handles[c][i][1] = c /\ thds[handles[c][i]].used
           /\ thds[handles[c][i]] \in ThdEntry
           /\ ~Gone(c) => ~thds[handles[c][i]].active
  BY DEF ShareInv, TypeOK, Held, Own, InStep, QuietAt

LEMMA OpensIsInStep ==
  ASSUME ShareInv, InStep, NEW c \in Clients, NEW t, NEW b, NEW e \in EntryIds,
         Waits(t, b, e), NEW stage \in {"check", "open"}, Opens(c, t, stage),
         \A f \in EntryIds : entries[f].closed /\ Joined(f) # {} => entries'[f].closed
  PROVE  InStep'
<1>1. /\ t \in Handles /\ t[1] = c /\ ~thds[t].used /\ thds'[t].nb = 0
      /\ \A u \in Handles : u # t => thds'[u] = thds[u]
  BY WaitsIsOwned DEF Waits, Opens
<1>2. /\ sess[c].pc = "idle" /\ sess'[c].pc = stage /\ sess'[c].thd = t
      /\ sess'[c].left = sess[c].left /\ sess'[c].extra = sess[c].extra
      /\ \A d \in Clients : d # c => sess'[d] = sess[d]
      /\ UNCHANGED <<handles, hung, stop>>
  BY DEF Opens
<1>3. \A i \in 1 .. Len(handles[c]) : /\ thds'[handles[c][i]] = thds[handles[c][i]]
                                      /\ ~Gone(c) => ~thds[handles[c][i]].active
  BY <1>1, <1>2, CalmHandles
<1>4. \A u \in Handles : u[1] # c => thds'[u] = thds[u]
  BY <1>1
<1>5. sess'[c].pc \in {"check", "open"} => thds'[sess'[c].thd].nb = 0
  BY <1>1, <1>2
<1>6. \A i \in 1 .. Len(handles[c]) : LET u == handles[c][i] IN
        /\ \E j \in 1 .. Len(handles'[c]) : handles'[c][j] = u
        /\ Same(thds'[u], thds[u]) /\ thds'[u].nb = thds[u].nb /\ thds'[u].err = thds[u].err
  BY <1>2, <1>3, SameIs
<1>7. \A f \in EntryIds :
        entries[f].closed /\ (\E u \in Joined(f) : thds'[u].entry = f) => entries'[f].closed
  OBVIOUS
<1> QED
  BY <1>2, <1>3, <1>4, <1>5, <1>6, <1>7, CalmIsInStep

LEMMA OpenNewIsInStep ==
  ASSUME ShareInv, InStep, NEW c \in Clients, NEW t, NEW b, NEW e \in EntryIds,
         Creates(c, t, b, e) \/ Joins(c, t, b, e)
  PROVE  InStep'
<1>1. Waits(t, b, e)
  BY DEF Creates, Joins
<1>2. PICK stage \in {"check", "open"} : Opens(c, t, stage)
  BY DEF Creates, Joins
<1>3. \A f \in EntryIds : entries[f].closed /\ Joined(f) # {} => entries'[f].closed
  <2>1. CASE Creates(c, t, b, e)
    <3>1. Joined(e) = {}
      <4>1. Cardinality(Joined(e)) = 0
        <5>1. Cardinality(Joined(e)) \in Nat
          BY JoinedIsFinite
        <5> QED
          BY <2>1, <5>1 DEF Creates, ShareInv, Counted
      <4> QED
        BY <4>1, JoinedIsFinite, FS_EmptySet
    <3> QED
      BY <2>1, <3>1 DEF Creates
  <2>2. CASE Joins(c, t, b, e)
    BY <2>2 DEF Joins
  <2> QED
    BY <2>1, <2>2
<1> QED
  BY <1>1, <1>2, <1>3, OpensIsInStep

\* A handle that is taken back leaves the others as they are.
LEMMA RemovesIsCalm ==
  ASSUME ShareInv, NEW t \in Handles, NEW e \in EntryIds, t \in Joined(e), Removes(t, e)
  PROVE  /\ \A u \in Handles : u # t => thds'[u] = thds[u]
         /\ \A f \in EntryIds :
              entries[f].closed /\ (\E u \in Joined(f) : thds'[u].entry = f) =>
                entries'[f].closed
<1>1. thds'[t].entry = NoEntry /\ \A u \in Handles : u # t => thds'[u] = thds[u]
  BY DEF Removes, NewThd
<1>2. ASSUME NEW f \in EntryIds, entries[f].closed, NEW u \in Joined(f), thds'[u].entry = f
      PROVE  entries'[f].closed
  <2>1. u # t
    BY <1>1, <1>2, Constants
  <2>2. CASE f # e
    BY <1>2, <2>2 DEF Removes
  <2>3. CASE f = e
    BY <1>2, <2>1, <2>3 DEF Removes
  <2> QED
    BY <2>2, <2>3
<1> QED
  BY <1>1, <1>2

LEMMA EndOpenIsInStep ==
  ASSUME ShareInv, WakeInv, InStep, NEW c \in Clients, sess[c].pc \in {"check", "open"},
         UNCHANGED <<hung, stop>>,
         NEW err, EndOpen(c, sess[c].thd, err), err < 0,
         sess' = [sess EXCEPT ![c] = Idle(@)]
  PROVE  InStep'
<1>1. PICK t \in Handles : t = sess[c].thd /\ t[1] = c /\ thds[t].used
  BY OwnHandle
<1>2. RemoveThd(t) /\ thds' = [thds EXCEPT ![t] = NewThd] /\ handles' = handles
  BY <1>1 DEF EndOpen
<1>3. PICK e \in EntryIds : t \in Joined(e) /\ Removes(t, e)
  BY <1>1, <1>2, RemoveIs
<1>4. /\ \A u \in Handles : u # t => thds'[u] = thds[u]
      /\ \A f \in EntryIds :
           entries[f].closed /\ (\E u \in Joined(f) : thds'[u].entry = f) => entries'[f].closed
  BY <1>3, RemovesIsCalm
<1>5. /\ sess'[c].pc = "idle" /\ sess'[c].left = sess[c].left /\ sess'[c].extra = sess[c].extra
      /\ \A d \in Clients : d # c => sess'[d] = sess[d]
  <2>1. /\ Idle(sess[c]).pc = "idle" /\ Idle(sess[c]).left = sess[c].left
        /\ Idle(sess[c]).extra = sess[c].extra
    BY IdleIs DEF ShareInv, TypeOK
  <2> QED
    BY <2>1 DEF ShareInv, TypeOK
<1>6. \A i \in 1 .. Len(handles[c]) : /\ thds'[handles[c][i]] = thds[handles[c][i]]
                                      /\ ~Gone(c) => ~thds[handles[c][i]].active
  <2>1. \A i \in 1 .. Len(handles[c]) : handles[c][i] # t
    BY <1>1 DEF ShareInv, Held
  <2> QED
    BY <1>4, <2>1, CalmHandles
<1>7. \A u \in Handles : u[1] # c => thds'[u] = thds[u]
  BY <1>1, <1>4
<1>8. \A i \in 1 .. Len(handles[c]) : LET u == handles[c][i] IN
        /\ \E j \in 1 .. Len(handles'[c]) : handles'[c][j] = u
        /\ Same(thds'[u], thds[u]) /\ thds'[u].nb = thds[u].nb /\ thds'[u].err = thds[u].err
  BY <1>2, <1>6, SameIs
<1>9. /\ ~Gone(c) => \A j \in 1 .. Len(handles'[c]) : ~thds'[handles'[c][j]].active
      /\ \A d \in Clients : d # c => handles'[d] = handles[d]
      /\ sess[c].pc \in {"idle", "check", "open", "ask"}
  BY <1>2, <1>6
<1> QED
  BY <1>4, <1>5, <1>7, <1>8, <1>9, CalmIsInStep

LEMMA OpenedIsInStep ==
  ASSUME ShareInv, WakeInv, InStep, UNCHANGED <<entries, hung, stop>>, NEW c \in Clients,
         NEW t \in Handles, t = sess[c].thd, t[1] = c, sess[c].pc \in {"check", "open"},
         handles' = [handles EXCEPT ![c] = <<t>> \o @],
         sess' = [sess EXCEPT ![c] = Idle(@)],
         \A u \in Handles : u # t => thds'[u] = thds[u],
         Same(thds'[t], thds[t]), thds'[t].nb = thds[t].nb, thds'[t].active = thds[t].active,
         thds'[t].err = thds[t].err
  PROVE  InStep'
<1>1. /\ sess'[c].pc = "idle" /\ sess'[c].left = sess[c].left /\ sess'[c].extra = sess[c].extra
      /\ \A d \in Clients : d # c => sess'[d] = sess[d]
  <2>1. /\ Idle(sess[c]).pc = "idle" /\ Idle(sess[c]).left = sess[c].left
        /\ Idle(sess[c]).extra = sess[c].extra
    BY IdleIs DEF ShareInv, TypeOK
  <2> QED
    BY <2>1 DEF ShareInv, TypeOK
<1>2. ~thds[t].active
  <2>1. thds[t].nb = 0
    BY DEF InStep, QuietAt
  <2>2. thds[t].entry \in EntryIds
    BY OwnHandle
  <2> QED
    BY <2>1, <2>2 DEF WakeInv, Asked, AskedAt, Joined
<1>3. PICK q, p : q = handles[c] /\ p = handles'[c]
  OBVIOUS
<1>4. /\ \A d \in Clients : d # c => handles'[d] = handles[d]
      /\ p[1] = t /\ Len(p) = Len(q) + 1 /\ Len(q) \in Nat
      /\ \A i \in 1 .. Len(q) : p[i + 1] = q[i]
  <2>1. q \in Seq(Handles) /\ Injective(q) /\ (\A i \in 1 .. Len(q) : q[i] # t)
    BY <1>3 DEF ShareInv, TypeOK, Held
  <2>2. p = <<t>> \o q /\ \A d \in Clients : d # c => handles'[d] = handles[d]
    BY <1>3 DEF ShareInv, TypeOK
  <2> QED
    BY <2>1, <2>2, Prepended
<1>5. \A u \in Handles : Same(thds'[u], thds[u]) /\ thds'[u].nb = thds[u].nb
        /\ thds'[u].err = thds[u].err /\ thds'[u].active = thds[u].active
  BY SameIs
<1>6. \A i \in 1 .. Len(q) : q[i] \in Handles /\ (~Gone(c) => ~thds[q[i]].active)
  BY <1>3, CalmHandles
<1>7. ASSUME ~Gone(c), NEW j \in 1 .. Len(p)
      PROVE  ~thds'[p[j]].active
  <2>1. CASE j = 1
    BY <1>2, <1>4, <1>5, <2>1
  <2>2. CASE j # 1
    <3>1. PICK i \in 1 .. Len(q) : j = i + 1
      <4>1. j - 1 \in 1 .. Len(q)
        BY <1>4, <2>2
      <4> QED
        BY <4>1
    <3> QED
      BY <1>4, <1>5, <1>6, <1>7, <3>1
  <2> QED
    BY <2>1, <2>2
<1>8. ASSUME NEW i \in 1 .. Len(q)
      PROVE  /\ \E j \in 1 .. Len(p) : p[j] = q[i]
             /\ Same(thds'[q[i]], thds[q[i]]) /\ thds'[q[i]].nb = thds[q[i]].nb
             /\ thds'[q[i]].err = thds[q[i]].err
  <2>1. i + 1 \in 1 .. Len(p) /\ p[i + 1] = q[i]
    BY <1>4
  <2> QED
    BY <1>5, <1>6, <2>1
<1>9. \A u \in Handles : u[1] # c => thds'[u] = thds[u]
  OBVIOUS
<1>10. sess[c].pc \in {"idle", "check", "open", "ask"}
  OBVIOUS
<1>11. ~Gone(c) => \A j \in 1 .. Len(handles'[c]) : ~thds'[handles'[c][j]].active
  BY <1>3, <1>7
<1>12. \A i \in 1 .. Len(handles[c]) : LET u == handles[c][i] IN
         /\ \E j \in 1 .. Len(handles'[c]) : handles'[c][j] = u
         /\ Same(thds'[u], thds[u]) /\ thds'[u].nb = thds[u].nb
         /\ thds'[u].err = thds[u].err
  BY <1>3, <1>8
<1> QED
  BY <1>1, <1>4, <1>9, <1>10, <1>11, <1>12, CalmIsInStep

\* The first look at wait_for_open, and the event that ends the wait.
LEMMA OpenIsInStep ==
  ASSUME ShareInv, WakeInv, InStep, NEW c \in Clients, CheckOpen(c) \/ OpenWait(c)
  PROVE  InStep'
<1>1. sess[c].pc \in {"check", "open"} /\ TypeOK /\ UNCHANGED <<hung, stop>>
  BY DEF CheckOpen, OpenWait, ShareInv
<1>2. PICK t \in Handles : t = sess[c].thd /\ t[1] = c /\ thds[t].used
  BY <1>1, OwnHandle
<1> DEFINE Read == thds' = [thds EXCEPT ![t].event = FALSE]
<1>3. ASSUME thds' = thds \/ Read
      PROVE  /\ \A u \in Handles : u # t => thds'[u] = thds[u]
             /\ Same(thds'[t], thds[t]) /\ thds'[t].nb = thds[t].nb
             /\ thds'[t].active = thds[t].active /\ thds'[t].err = thds[t].err
  BY <1>1, <1>2, <1>3, EventRead, SameIs
<1>4. CASE thds[t].waitForOpen
  <2>1. /\ entries' = entries /\ handles' = handles /\ (thds' = thds \/ Read)
        /\ sess' = [sess EXCEPT ![c].pc = "open"] \/ (sess' = sess /\ sess[c].pc = "open")
    BY <1>2, <1>4 DEF CheckOpen, OpenWait
  <2>2. /\ sess'[c].pc = "open" /\ sess'[c].thd = t /\ sess'[c].left = sess[c].left
        /\ sess'[c].extra = sess[c].extra /\ \A d \in Clients : d # c => sess'[d] = sess[d]
    BY <1>1, <1>2, <2>1 DEF TypeOK, Interpreter
  <2>3. \A u \in Handles :
          /\ Same(thds'[u], thds[u]) /\ thds'[u].nb = thds[u].nb /\ thds'[u].err = thds[u].err
          /\ thds'[u].active = thds[u].active
    BY <1>3, <2>1, SameIs
  <2>4. thds'[sess'[c].thd].nb = 0
    BY <1>1, <1>2, <2>2, <2>3 DEF InStep, QuietAt
  <2>5. \A i \in 1 .. Len(handles[c]) :
          handles[c][i] \in Handles /\ (~Gone(c) => ~thds[handles[c][i]].active)
    BY <1>1, CalmHandles
  <2>6. \A u \in Handles : u[1] # c => thds'[u] = thds[u]
    BY <1>2, <1>3, <2>1
  <2>7. /\ ~Gone(c) => \A j \in 1 .. Len(handles'[c]) : ~thds'[handles'[c][j]].active
        /\ \A i \in 1 .. Len(handles[c]) : LET u == handles[c][i] IN
             /\ \E j \in 1 .. Len(handles'[c]) : handles'[c][j] = u
             /\ Same(thds'[u], thds[u]) /\ thds'[u].nb = thds[u].nb
             /\ thds'[u].err = thds[u].err
    BY <2>1, <2>3, <2>5
  <2>8. /\ sess[c].pc \in {"idle", "check", "open", "ask"}
        /\ \A d \in Clients : d # c => handles'[d] = handles[d]
        /\ \A f \in EntryIds : entries[f].closed => entries'[f].closed
    BY <1>1, <2>1
  <2> HIDE DEF Read
  <2> QED
    BY <1>1, <2>2, <2>4, <2>6, <2>7, <2>8, CalmIsInStep
<1>5. CASE ~thds[t].waitForOpen /\ thds[t].err < 0
  <2>1. EndOpen(c, t, thds[t].err) /\ sess' = [sess EXCEPT ![c] = Idle(@)]
    BY <1>2, <1>5 DEF CheckOpen, OpenWait
  <2> QED
    BY <1>1, <1>2, <1>5, <2>1, EndOpenIsInStep
<1>6. CASE ~thds[t].waitForOpen /\ ~(thds[t].err < 0)
  <2>1. /\ handles' = [handles EXCEPT ![c] = <<t>> \o @] /\ (thds' = thds \/ Read)
        /\ entries' = entries /\ sess' = [sess EXCEPT ![c] = Idle(@)]
    BY <1>2, <1>6 DEF CheckOpen, OpenWait, EndOpen
  <2> HIDE DEF Read
  <2> QED
    BY <1>1, <1>2, <1>3, <2>1, OpenedIsInStep
<1> QED
  BY <1>4, <1>5, <1>6

LEMMA CloseIsInStep ==
  ASSUME ShareInv, InStep, NEW c \in Clients, Close(c)
  PROVE  InStep'
<1>1. PICK t \in Handles : /\ t = Head(handles[c]) /\ t[1] = c /\ thds[t].used
                           /\ handles[c] # <<>> /\ sess[c].pc = "idle"
  BY OwnHandle DEF Close
<1>2. RemoveThd(t) /\ thds' = [thds EXCEPT ![t] = NewThd] /\ UNCHANGED <<hung, stop>>
  BY <1>1 DEF Close
<1>3. PICK e \in EntryIds : t \in Joined(e) /\ Removes(t, e)
  BY <1>1, <1>2, RemoveIs
<1>4. /\ \A u \in Handles : u # t => thds'[u] = thds[u]
      /\ \A f \in EntryIds :
           entries[f].closed /\ (\E u \in Joined(f) : thds'[u].entry = f) => entries'[f].closed
  BY <1>3, RemovesIsCalm
<1>5. /\ sess'[c].pc = "idle" /\ sess'[c].left = 0 /\ ~sess'[c].extra
      /\ \A d \in Clients : d # c => sess'[d] = sess[d]
  <2> DEFINE s == [sess[c] EXCEPT !.left = 0, !.extra = FALSE]
  <2>1. sess' = [sess EXCEPT ![c] = s]
    BY DEF Close, ShareInv, TypeOK
  <2>2. s.pc = sess[c].pc /\ s.left = 0 /\ ~s.extra
    BY SessionFields DEF ShareInv, TypeOK
  <2> HIDE DEF s
  <2> QED
    BY <1>1, <2>1, <2>2 DEF ShareInv, TypeOK
<1>6. PICK q, p : q = handles[c] /\ p = handles'[c]
  OBVIOUS
<1>7. /\ \A d \in Clients : d # c => handles'[d] = handles[d]
      /\ \A j \in 1 .. Len(p) : p[j] = q[j + 1] /\ j + 1 \in 1 .. Len(q) /\ p[j] # t
  <2>1. q \in Seq(Handles) /\ Injective(q) /\ q # <<>>
    BY <1>1, <1>6 DEF ShareInv, TypeOK, Held
  <2>2. p = Tail(q) /\ \A d \in Clients : d # c => handles'[d] = handles[d]
    BY <1>6 DEF Close, ShareInv, TypeOK
  <2> QED
    BY <1>1, <1>6, <2>1, <2>2, Popped
<1>8. \A i \in 1 .. Len(q) : q[i] \in Handles /\ (~Gone(c) => ~thds[q[i]].active)
  BY <1>1, <1>6, CalmHandles
<1>9. /\ ~Gone(c) => \A j \in 1 .. Len(handles'[c]) : ~thds'[handles'[c][j]].active
      /\ \A u \in Handles : u[1] # c => thds'[u] = thds[u]
      /\ sess[c].pc \in {"idle", "check", "open", "ask"}
  BY <1>1, <1>4, <1>6, <1>7, <1>8
<1> QED
  BY <1>2, <1>4, <1>5, <1>7, <1>9, CalmIsInStep

\* Sessions that begin or end, and what is given up when the client is gone.
LEMMA EndsSessionIsInStep ==
  ASSUME ShareInv, WakeInv, InStep, NEW c \in Clients,
         Connect(c) \/ EndSession(c) \/ RwBroken(c) \/ OpenBroken(c)
  PROVE  InStep'
<1>1. CASE Connect(c)
  <2>1. /\ sess' = [sess EXCEPT ![c] = [NoSession EXCEPT !.pc = "idle"]]
        /\ handles' = [handles EXCEPT ![c] = <<>>] /\ UNCHANGED <<entries, thds, hung, stop>>
    BY <1>1 DEF Connect
  <2>2. /\ sess'[c].pc = "idle" /\ sess'[c].left = 0 /\ ~sess'[c].extra /\ handles'[c] = <<>>
        /\ \A d \in Clients : d # c => sess'[d] = sess[d] /\ handles'[d] = handles[d]
    <3> DEFINE s == [NoSession EXCEPT !.pc = "idle"]
    <3>1. s.pc = "idle" /\ s.left = 0 /\ ~s.extra
      BY NoSessionIs
    <3> HIDE DEF s
    <3> QED
      BY <2>1, <3>1 DEF ShareInv, TypeOK, s
  <2>3. QuietAt(c)' /\ AnsweringAt(c)' /\ MarkedAt(c)'
    BY <2>2 DEF QuietAt, AnsweringAt, MarkedAt
  <2> QED
    BY <2>1, <2>2, <2>3, SessionIsInStep
<1>2. CASE EndSession(c)
  <2>1. /\ sess'[c].pc = "off" /\ stop' = stop
        /\ \A d \in Clients : d # c =>
             sess'[d] = sess[d] /\ handles'[d] = handles[d] /\ hung'[d] = hung[d]
    BY <1>2, NoSessionIs DEF EndSession, ShareInv, TypeOK
  <2>2. QuietAt(c)' /\ AnsweringAt(c)' /\ MarkedAt(c)'
    BY <2>1 DEF QuietAt, AnsweringAt, MarkedAt
  <2>3. /\ \A t \in Handles : t[1] # c => thds'[t] = thds[t]
        /\ \A f \in EntryIds : entries[f].closed /\ (\E t \in Joined(f) : t[1] # c) =>
             entries'[f].closed
    <3>1. CASE handles[c] = <<>>
      BY <1>2, <3>1 DEF EndSession
    <3>2. CASE handles[c] # <<>>
      <4>1. PICK t \in Handles : t = Head(handles[c]) /\ t[1] = c /\ thds[t].used
        BY <3>2, OwnHandle
      <4>2. RemoveThd(t) /\ thds' = [thds EXCEPT ![t] = NewThd]
        BY <1>2, <3>2, <4>1 DEF EndSession
      <4>3. PICK e \in EntryIds : t \in Joined(e) /\ Removes(t, e)
        BY <4>1, <4>2, RemoveIs
      <4> QED
        BY <4>1, <4>3, RemovesIsCalm DEF Joined
    <3> QED
      BY <3>1, <3>2
  <2> QED
    BY <2>1, <2>2, <2>3, SessionIsInStep
<1>3. CASE RwBroken(c) \/ OpenBroken(c)
  <2>1. /\ Gone(c)' /\ stop' = stop /\ hung' = hung
        /\ sess[c].pc \in {"open", "rw"}
    BY <1>3 DEF RwBroken, OpenBroken, Gone
  <2>2. PICK t \in Handles : t = sess[c].thd /\ t[1] = c /\ thds[t].used
    BY <2>1, OwnHandle
  <2>3. sess'[c].pc = "idle" /\ \A d \in Clients : d # c => sess'[d] = sess[d]
    <3>1. \E s \in Interpreter : sess' = [sess EXCEPT ![c] = Idle(s)]
      BY <1>3, LastLineIs DEF RwBroken, OpenBroken, ShareInv, TypeOK
    <3> QED
      BY <3>1, IdleIs DEF ShareInv, TypeOK
  <2>4. QuietAt(c)' /\ AnsweringAt(c)' /\ MarkedAt(c)'
    BY <2>1, <2>3 DEF QuietAt, AnsweringAt, MarkedAt
  <2>5. /\ handles' = handles
        /\ \A u \in Handles : u[1] # c => thds'[u] = thds[u]
        /\ \A f \in EntryIds : entries[f].closed /\ (\E u \in Joined(f) : u[1] # c) =>
             entries'[f].closed
    <3>1. CASE RwBroken(c)
      BY <3>1 DEF RwBroken
    <3>2. CASE OpenBroken(c)
      <4>1. RemoveThd(t) /\ thds' = [thds EXCEPT ![t] = NewThd] /\ handles' = handles
        BY <2>2, <3>2, Constants DEF OpenBroken, EndOpen
      <4>2. PICK e \in EntryIds : t \in Joined(e) /\ Removes(t, e)
        BY <2>2, <4>1, RemoveIs
      <4> QED
        BY <2>2, <4>1, <4>2, RemovesIsCalm DEF Joined
    <3> QED
      BY <1>3, <3>1, <3>2
  <2> QED
    BY <2>1, <2>3, <2>4, <2>5, SessionIsInStep
<1> QED
  BY <1>1, <1>2, <1>3

LEMMA PausesIsInStep ==
  ASSUME ShareInv, InStep, NEW c \in Clients, Pauses(c)
  PROVE  InStep'
<1>1. /\ UNCHANGED <<data, entries, thds, rw, handles, hung, stop>>
      /\ sess[c].pc \in {"idle", "ask"} /\ sess'[c].pc \in {"idle", "ask"}
      /\ sess'[c].left = sess[c].left /\ sess'[c].extra = sess[c].extra
      /\ \A d \in Clients : d # c => sess'[d] = sess[d]
  BY DEF Pauses
<1>2. ~Gone(c) => \A j \in 1 .. Len(handles'[c]) : ~thds'[handles'[c][j]].active
  BY <1>1, CalmHandles
<1>3. \A i \in 1 .. Len(handles[c]) : LET t == handles[c][i] IN
        /\ \E j \in 1 .. Len(handles'[c]) : handles'[c][j] = t
        /\ Same(thds'[t], thds[t]) /\ thds'[t].nb = thds[t].nb
        /\ thds'[t].err = thds[t].err
  BY <1>1, SameIs
<1> QED
  BY <1>1, <1>2, <1>3, CalmIsInStep

LEMMA AsksIsInStep ==
  ASSUME ShareInv, InStep, NEW c \in Clients, NEW t \in Handles, NEW e \in EntryIds,
         Asks(c, t, e)
  PROVE  InStep'
<1>1. /\ sess[c].pc = "ask" /\ UNCHANGED <<entries, handles, hung, stop>>
      /\ \A u \in Handles : u # t => thds'[u] = thds[u]
      /\ \A d \in Clients : d # c => sess'[d] = sess[d]
      /\ sess'[c].pc = "rw" /\ sess'[c].thd = t /\ t[1] = c /\ thds[t].used
  BY OwnHandle DEF Asks
<1>2. Request(t) \in Nat /\ Request(t) >= 1
  BY <1>1, RequestIs
<1>3. Request(t)' = Request(t)
  BY DEF Asks, Same, Request
<1>4. \A i \in 1 .. Len(handles[c]) :
        handles[c][i] \in Handles /\ (~Gone(c) => ~thds[handles[c][i]].active)
  BY <1>1, CalmHandles
<1>5. QuietAt(c)'
  BY <1>1, <1>4 DEF QuietAt, Gone
<1>6. Progress(c, t)'
  BY <1>2, <1>3 DEF Progress, Asks, Same
<1>7. AnsweringAt(c)'
  BY <1>1, <1>6 DEF AnsweringAt
<1>8. MarkedAt(c)'
  BY <1>1 DEF MarkedAt
<1>9. \A u \in Handles : u[1] # c => thds'[u] = thds[u]
  BY <1>1
<1> QED
  BY <1>1, <1>5, <1>7, <1>8, <1>9, SessionIsInStep

LEMMA ReadsIsInStep ==
  ASSUME ShareInv, WakeInv, InStep, NEW c \in Clients, NEW t \in Handles, Reads(c, t)
  PROVE  InStep'
<1>1. /\ sess[c].pc = "rw" /\ t = sess[c].thd /\ sess' = sess
      /\ UNCHANGED <<entries, handles, hung, stop>>
      /\ \A u \in Handles : u # t => thds'[u] = thds[u]
      /\ Same(thds'[t], thds[t]) /\ thds'[t].nb = thds[t].nb /\ thds'[t].err = thds[t].err
      /\ thds'[t].active = thds[t].active /\ thds'[t].newClient = thds[t].newClient
  BY DEF Reads
<1>2. t[1] = c /\ \A i \in 1 .. Len(handles[c]) : handles[c][i] \in Handles
  BY <1>1, OwnHandle DEF ShareInv, Held, Own
<1>3. QuietAt(c)'
  BY <1>1, <1>2 DEF QuietAt, InStep, Gone
<1>4. AnsweringAt(c)'
  <2> SUFFICES ASSUME ~Gone(c)
               PROVE  Progress(c, t)'
    BY <1>1 DEF AnsweringAt, Gone
  <2>1. Progress(c, t) /\ Request(t)' = Request(t)
    BY <1>1, Answering DEF Request, Same
  <2> QED
    BY <1>1, <2>1 DEF Progress, Same
<1>5. MarkedAt(c)'
  BY <1>1 DEF MarkedAt
<1>6. \A u \in Handles : u[1] # c => thds'[u] = thds[u]
  BY <1>1, <1>2
<1> QED
  BY <1>1, <1>3, <1>4, <1>5, <1>6, SessionIsInStep

\* What the client has of its answer when the daemon has printed its end.
LEMMA AnswerEnds ==
  ASSUME ShareInv, WakeInv, InStep, NEW c \in Clients, NEW t \in Handles, Answers(c, t)
  PROVE  LET s == sess'[c] IN
         /\ s.left # 0 => thds[t].nb >= 1 \/ (thds[t].writer /\ s.left = 1)
         /\ s.extra => entries[thds[t].entry].closed
<1> DEFINE s == sess[c]
           R == thds[t].err
           W == thds[t].writer
           a == Answered(s, R, W)
           short == IF R \in 1 .. s.nb - 1 THEN Line(s, W) ELSE s
<1>1. /\ sess[c].pc = "rw" /\ t = sess[c].thd /\ ~Gone(c) /\ sess'[c] = Idle(a)
  BY DEF Answers
<1>2. /\ Progress(c, t) /\ thds[t] \in ThdEntry /\ AskedAt(t, thds[t].entry)
      /\ Request(t) \in Nat /\ Request(t) >= 1
  BY <1>1, Answering
<1>3. s \in Interpreter /\ R \in Errors /\ W \in BOOLEAN /\ thds[t].nb \in Nat
  BY <1>2 DEF ShareInv, TypeOK, ThdEntry, Errors
<1>4. /\ short \in Interpreter /\ short.nb = s.nb
      /\ a \in Interpreter /\ a.pc = s.pc /\ a.thd = s.thd /\ a.nb = s.nb
      /\ R < 0 => a = LastLine(s)
      /\ R >= 0 /\ (R = s.nb \/ W) /\ R <= s.nb => a = Line(short, W)
      /\ R >= 0 /\ R < s.nb /\ ~W => a = short
  BY <1>3, AnsweredIs
<1>5. /\ LastLine(s).left = 0 /\ (s.left # 0 => LastLine(s).extra = s.extra)
      /\ s.left = 0 => LastLine(s).extra
  BY <1>3, LastLineIs
<1>6. /\ s.left = 0 => Line(s, W).left = 0 /\ Line(s, W).extra
      /\ s.left # 0 => /\ Line(s, W).extra = s.extra
                       /\ Line(s, W).left = IF W THEN s.left - 1 ELSE 0
  BY <1>3, LineIs
<1>7. /\ ~s.extra /\ s.nb \in Nat /\ s.nb >= 1
      /\ R = Failed \/ R \in Nat
  BY <1>2, <1>3 DEF Progress, Errors
<1> HIDE DEF a
<1>8. CASE W
  <2>1. s.left \in {1, 2} /\ R \in {Failed, 0, s.nb}
    BY <1>2, <1>8 DEF Progress
  <2>2. CASE R = Failed
    <3>1. a = LastLine(s)
      BY <1>4, <2>2, Constants
    <3> QED
      BY <1>1, <1>4, <1>5, <1>7, <2>1, <3>1, IdleIs
  <2>3. CASE R # Failed
    <3>1. short = s
      BY <1>7, <2>1, <2>3
    <3>2. R >= 0 /\ R <= s.nb
      BY <1>7, <2>1, <2>3
    <3>3. a = Line(s, W)
      BY <1>4, <1>8, <3>1, <3>2
    <3>4. s.left # 0 /\ s.left - 1 \in {0, 1}
      BY <2>1
    <3>5. a.left = s.left - 1 /\ ~a.extra
      BY <1>6, <1>7, <1>8, <3>3, <3>4
    <3> QED
      BY <1>1, <1>4, <1>8, <3>4, <3>5, IdleIs
  <2> QED
    BY <2>2, <2>3
<1>9. CASE ~W
  <2>1. /\ s.left \in 0 .. s.nb
        /\ thds[t].nb >= 1 => s.left = thds[t].nb
        /\ thds[t].nb = 0 /\ R >= 0 => s.left = R
        /\ thds[t].nb = 0 /\ s.left = 0 /\ R < 0 => entries[thds[t].entry].closed
    BY <1>2, <1>9 DEF Progress
  <2>2. CASE thds[t].nb >= 1
    <3>1. R = 0
      BY <1>2, <2>2 DEF AskedAt
    <3>2. a = s
      BY <1>4, <1>7, <1>9, <3>1
    <3> QED
      BY <1>1, <1>4, <1>7, <2>2, <3>2, IdleIs
  <2>3. CASE thds[t].nb = 0 /\ R = Failed
    <3>1. a = LastLine(s)
      BY <1>4, <2>3, Constants
    <3>2. a.left = 0 /\ (a.extra => entries[thds[t].entry].closed)
      BY <1>5, <1>7, <2>1, <2>3, <3>1, Constants
    <3> QED
      BY <1>1, <1>4, <3>2, IdleIs
  <2>4. CASE thds[t].nb = 0 /\ R \in Nat
    <3>1. s.left = R /\ R <= s.nb
      BY <1>7, <2>1, <2>4
    <3>2. a.left = 0 /\ ~a.extra
      <4>1. CASE R = 0
        BY <1>4, <1>7, <1>9, <3>1, <4>1
      <4>2. CASE R # 0 /\ R # s.nb
        <5>1. R \in 1 .. s.nb - 1
          BY <1>7, <2>4, <3>1, <4>2
        <5>2. a = Line(s, W)
          BY <1>4, <1>7, <1>9, <5>1
        <5> QED
          BY <1>6, <1>7, <1>9, <3>1, <4>2, <5>2
      <4>3. CASE R = s.nb
        <5>1. short = s
          BY <1>7, <4>3
        <5>2. a = Line(s, W)
          BY <1>4, <1>7, <4>3, <5>1
        <5> QED
          BY <1>6, <1>7, <1>9, <3>1, <4>3, <5>2
      <4> QED
        BY <4>1, <4>2, <4>3
    <3> QED
      BY <1>1, <1>4, <3>2, IdleIs
  <2> QED
    BY <1>3, <1>7, <2>2, <2>3, <2>4
<1> QED
  BY <1>8, <1>9

LEMMA AnswersIsInStep ==
  ASSUME ShareInv, WakeInv, InStep, NEW c \in Clients, NEW t \in Handles, Answers(c, t)
  PROVE  InStep'
<1>1. /\ sess[c].pc = "rw" /\ t = sess[c].thd /\ ~Gone(c) /\ sess'[c].pc = "idle"
      /\ UNCHANGED <<entries, handles, hung, stop>>
      /\ \A d \in Clients : d # c => sess'[d] = sess[d]
      /\ \A u \in Handles : u # t => thds'[u] = thds[u]
      /\ Same(thds'[t], thds[t]) /\ thds'[t].nb = thds[t].nb /\ ~thds'[t].active
  BY DEF Answers
<1>2. t[1] = c /\ handles[c] # <<>> /\ t = Head(handles[c])
  BY <1>1, Answering
<1>3. \A i \in 1 .. Len(handles[c]) : handles[c][i] \in Handles
  BY DEF ShareInv, Held, Own
<1>4. QuietAt(c)'
  <2>1. \A i \in 1 .. Len(handles[c]) : thds[handles[c][i]].active => handles[c][i] = t
    BY <1>1 DEF InStep, QuietAt
  <2> QED
    BY <1>1, <1>3, <2>1 DEF QuietAt
<1>5. AnsweringAt(c)'
  BY <1>1 DEF AnsweringAt
<1>6. MarkedAt(c)'
  <2>1. PICK left, extra : left = sess'[c].left /\ extra = sess'[c].extra
    OBVIOUS
  <2>2. /\ left # 0 => thds[t].nb >= 1 \/ (thds[t].writer /\ left = 1)
        /\ extra => entries[thds[t].entry].closed
    BY <2>1, AnswerEnds
  <2>3. 1 \in 1 .. Len(handles[c]) /\ t = handles[c][1]
    <3>1. handles[c] \in Seq(Handles) /\ Injective(handles[c])
      BY DEF ShareInv, TypeOK, Held
    <3> QED
      BY <1>2, <3>1, Popped
  <2>4. /\ left # 0 => Mark(t, left)'
        /\ extra => entries'[thds'[t].entry].closed
    BY <1>1, <2>2 DEF Mark, Same
  <2> QED
    BY <1>1, <2>1, <2>3, <2>4 DEF MarkedAt
<1>7. \A u \in Handles : u[1] # c => thds'[u] = thds[u]
  BY <1>1, <1>2
<1> QED
  BY <1>1, <1>4, <1>5, <1>6, <1>7, SessionIsInStep

LEMMA NextInStep ==
  ShareInv /\ ShareInv' /\ WakeInv /\ MaskInv /\ InStep /\ [Next]_vars => InStep'
<1> SUFFICES ASSUME ShareInv, ShareInv', WakeInv, MaskInv, InStep, [Next]_vars
             PROVE  InStep'
  OBVIOUS
<1>1. ASSUME NEW c \in Clients,
             Connect(c) \/ Hangup(c) \/ Session(c) \/ Close(c) \/ EndSession(c) \/ Measure(c)
      PROVE  InStep'
  <2>1. CASE Hangup(c)
    <3>1. \A d \in Clients : Gone(d) => Gone(d)'
      BY <2>1 DEF Hangup, Gone, ShareInv, TypeOK
    <3> QED
      BY <2>1, <3>1, StandsIsInStep DEF Hangup
  <2>2. CASE RwWait(c)
    BY <2>2, RwWaitIs, AnswersIsInStep, ReadsIsInStep
  <2>3. CASE Rw(c) \/ Measure(c)
    BY <2>3, RwIs, AsksIsInStep, MeasureIs, PausesIsInStep
  <2> QED
    BY <1>1, <2>1, <2>2, <2>3, OpenIsInStep, EndsSessionIsInStep, CloseIsInStep DEF Session
<1>2. ASSUME NEW c \in Clients, NEW k \in 1 .. MaxOpens, NEW b \in Buffers[c],
             OpenJoin(c, k, b) \/ OpenNew(c, k, b)
      PROVE  InStep'
  BY <1>2, OpenJoinIs, OpenNewIs, OpenNewIsInStep
<1>3. ASSUME NEW e \in EntryIds,
             Thread(e) \/ Delivery(e) \/ CreateFails(e) \/ RefillFails(e)
             \/ Push(e, TRUE) \/ Push(e, FALSE)
      PROVE  InStep'
  <2>1. CASE ListEmpty(e) \/ CreateFails(e)
    BY <2>1, EndsIs, EndsIsInStep
  <2>2. CASE Delivery(e)
    <3>1. PICK len \in Lengths(e) : Refill(e, len)
      BY <2>2 DEF Delivery
    <3>2. len \in Nat
      BY LengthsAre
    <3> QED
      BY <3>1, <3>2, RefillIs, RefillsIsInStep
  <2>3. CASE Push(e, TRUE) \/ Push(e, FALSE)
    BY <2>3, PushIs, PushesIsInStep DEF MaskInv
  <2>4. CASE Iterate(e)
    BY <2>4, IterateIs, TurnsIsInStep
  <2>5. CASE RefillCancelled(e) \/ PushBegins(e)
    BY <2>5, StandsIsInStep DEF RefillCancelled, PushBegins, Gone
  <2>6. CASE Leave(e) \/ RefillFails(e)
    BY <2>6, LeaveIs, LeavesIsInStep, RefillFailsIs, FailsIsInStep
  <2> QED
    BY <1>3, <2>1, <2>2, <2>3, <2>4, <2>5, <2>6 DEF Thread
<1>4. CASE Stop \/ UNCHANGED vars
  <2>1. \A d \in Clients : Gone(d) => Gone(d)'
    BY <1>4 DEF Stop, vars, Gone
  <2> QED
    BY <1>4, <2>1, StandsIsInStep DEF Stop, vars
<1> QED
  BY <1>1, <1>2, <1>3, <1>4 DEF Next

LEMMA InitInStep == Init => InStep
  BY NoSessionIs DEF Init, InStep, QuietAt, AnsweringAt, MarkedAt

LEMMA KeptInStep == Spec => []InStep
  BY InitInStep, NextInStep, Shared, Woke, ToldMasks, PTL DEF Spec

\* When the daemon reads its next command, the client has read its answer to the end and
\* no line more, but for what a change of the mask or a buffer that could not be made
\* again has left in one of its handles (rw_buffer, rw_dev, print_value).
THEOREM ServerAnswers == Spec => []AnswersInStep
<1>1. ShareInv /\ InStep => AnswersInStep
  <2> SUFFICES ASSUME ShareInv, InStep, NEW c \in Clients, sess[c].pc = "idle", ~Gone(c)
               PROVE  /\ sess[c].left # 0 => \E t \in Range(handles[c]) :
                           thds[t].nb # 0 \/ thds[t].err # 0
                             \/ (thds[t].writer /\ sess[c].left = 1)
                      /\ sess[c].extra => \E t \in Range(handles[c]) :
                           entries[thds[t].entry].closed
    BY DEF AnswersInStep
  <2>1. MarkedAt(c) /\ handles[c] \in Seq(Handles)
    BY DEF InStep, ShareInv, TypeOK
  <2>2. \A i \in 1 .. Len(handles[c]) : handles[c][i] \in Range(handles[c])
    BY <2>1 DEF Range
  <2> QED
    BY <2>1, <2>2 DEF MarkedAt, Mark
<1> QED
  BY <1>1, Shared, KeptInStep, PTL

-----------------------------------------------------------------------------
(* The life of the daemon: the invariant. *)

\* There is a context from its creation to its destruction.
HasContext == pc \in {"usb", "server", "serve", "stop", "wait", "purge", "destroy"} => ctx

\* Where main is while threads may run.
ThreadsRun == pool.threads # {} => pc \in {"server", "serve", "stop", "wait"}

\* usbd_main is alive while it opens a pipe and while a pipe is served: it leaves
\* only when its pipes are empty.
PipesAreAttended ==
  /\ usb.pc = "open" => UsbThread \in pool.threads
  /\ \A p \in Pipes : pipes[p].sessions > 0 => UsbThread \in pool.threads

\* Where main knows the pool as stopped, whatever the signals: an event it finds when it
\* restarts is one that thread_pool_restart takes out.
KnowsStop ==
  /\ pc = "restart" /\ pool.event => pool.stop
  /\ pc \in {"wait", "purge"} => pool.stop
  /\ pc \in {"destroy", "returned"} /\ ~ret => pool.stop

DaemonInv ==
  /\ DaemonTypeOK /\ KnowsStop
  /\ HasContext /\ ThreadsRun /\ PipesAreAttended /\ OpenedPipeStays

LEMMA InitDaemon == DaemonInit => DaemonInv
<1> SUFFICES ASSUME DaemonInit
             PROVE  DaemonInv
  OBVIOUS
<1>1. pool \in Pool /\ pool.threads = {} /\ ~pool.event
  BY DEF DaemonInit, Pool
<1>2. pipes \in [Pipes -> Pipe] /\ \A p \in Pipes : pipes[p].sessions = 0
  BY DEF DaemonInit, Pipe
<1>3. avahi \in Avahi
  BY DEF DaemonInit, NoAvahi, Avahi
<1>4. /\ usb \in [pc : {"poll", "open", "leave"}, pipe : Pipes \cup {"none"}]
      /\ usb.pc = "poll"
  BY DEF DaemonInit, IdleUsb
<1>5. av \in [pc : {"none", "net", "poll", "client", "decide"}, try : 1 .. MaxTries]
  BY DaemonAssumption DEF DaemonInit
<1>6. pc = "restart" /\ ret = FALSE /\ ctx = FALSE /\ restart = FALSE
  BY DEF DaemonInit
<1>7. DaemonTypeOK
  BY <1>1, <1>2, <1>3, <1>4, <1>5, <1>6 DEF DaemonTypeOK
<1>8. HasContext /\ ThreadsRun /\ KnowsStop
  BY <1>1, <1>6 DEF HasContext, ThreadsRun, KnowsStop
<1>9. PipesAreAttended /\ OpenedPipeStays
  BY <1>2, <1>4 DEF PipesAreAttended, OpenedPipeStays
<1> QED
  BY <1>7, <1>8, <1>9 DEF DaemonInv

-----------------------------------------------------------------------------
(* What the operations of the pools return. *)

LEMMA AddedPool ==
  ASSUME pool \in Pool, NEW t \in Threads
  PROVE  /\ Added(t) \in Pool /\ Added(t).threads = pool.threads \cup {t}
         /\ Added(t).stop = pool.stop /\ Added(t).event = pool.event
  BY DEF Added, Pool

LEMMA EndedPool ==
  ASSUME pool \in Pool, NEW t
  PROVE  /\ Ended(t) \in Pool /\ Ended(t).threads = pool.threads \ {t}
         /\ Ended(t).stop = pool.stop /\ Ended(t).event = pool.event
  BY DEF Ended, Pool

LEMMA StoppedPool ==
  ASSUME pool \in Pool
  PROVE  PoolStopped \in Pool /\ PoolStopped.threads = pool.threads /\ PoolStopped.stop
  BY DEF PoolStopped, Pool

LEMMA PurgedPool ==
  ASSUME pool \in Pool
  PROVE  /\ PoolPurged \in Pool /\ PoolPurged.threads = pool.threads
         /\ PoolPurged.stop = pool.stop /\ ~PoolPurged.event
  BY DEF PoolPurged, Pool

LEMMA StoppedPipe ==
  ASSUME pipes \in [Pipes -> Pipe], NEW p \in Pipes
  PROVE  /\ PipeStopped(p) \in [Pipes -> Pipe]
         /\ PipeStopped(p)[p].sessions = pipes[p].sessions /\ PipeStopped(p)[p].asked
         /\ \A q \in Pipes \ {p} : PipeStopped(p)[q] = pipes[q]
  BY DEF PipeStopped, Pipe

LEMMA OpenedPipe ==
  ASSUME pipes \in [Pipes -> Pipe], NEW p \in Pipes
  PROVE  /\ PipeOpened(p) \in [Pipes -> Pipe]
         /\ PipeOpened(p)[p].sessions = pipes[p].sessions + 1 /\ ~PipeOpened(p)[p].event
         /\ \A q \in Pipes \ {p} : PipeOpened(p)[q] = pipes[q]
  BY DEF PipeOpened, Pipe

-----------------------------------------------------------------------------
(* The steps of the daemon, by who takes them. *)

\* Avahi touches its own objects only.
LEMMA AvahiKeeps ==
  ASSUME DaemonInv,
         \/ NoNetwork \/ SetName \/ NewPoll \/ CreateServices \/ ResetGroup
         \/ \E ok \in BOOLEAN : NewClient(ok) \/ Disconnected(ok)
  PROVE  DaemonInv'
<1>1. UNCHANGED <<pc, ret, ctx, pool, restart, usb, pipes>>
  BY DEF NoNetwork, SetName, NewPoll, CreateServices, ResetGroup, NewClient, Disconnected
<1>2. TryAgain => av' \in [pc : {"none", "net", "poll", "client", "decide"}, try : 1 .. MaxTries]
  BY DaemonAssumption DEF TryAgain, DaemonInv, DaemonTypeOK
<1>3. av' \in [pc : {"none", "net", "poll", "client", "decide"}, try : 1 .. MaxTries]
  BY <1>2 DEF NoNetwork, SetName, NewPoll, CreateServices, ResetGroup, NewClient,
     Disconnected, DaemonInv, DaemonTypeOK
<1>4. avahi' \in Avahi
  BY DEF NoNetwork, SetName, NewPoll, CreateServices, ResetGroup, NewClient,
     Disconnected, DaemonInv, DaemonTypeOK, Avahi
<1> QED
  BY <1>1, <1>3, <1>4
  DEF DaemonInv, DaemonTypeOK, HasContext, KnowsStop, ThreadsRun,
         PipesAreAttended, OpenedPipeStays

\* Signals write the stop event.
LEMMA SignalsKeep ==
  ASSUME DaemonInv, Term \/ Usr1
  PROVE  DaemonInv'
<1>1. pool' = PoolStopped /\ restart' \in BOOLEAN
  BY DEF Term, Usr1, DaemonInv, DaemonTypeOK
<1>2. UNCHANGED <<pc, ret, ctx, usb, pipes, av, avahi>>
  BY DEF Term, Usr1
<1> QED
  BY <1>1, <1>2, StoppedPool
  DEF DaemonInv, DaemonTypeOK, HasContext, KnowsStop, ThreadsRun,
         PipesAreAttended, OpenedPipeStays

\* main goes through its stages; the context goes only when the pool has been drained.
LEMMA StartUsbKeeps ==
  ASSUME DaemonInv, NEW ok \in BOOLEAN, StartUsb(ok)
  PROVE  DaemonInv'
<1>1. CASE ok
  <2>1. /\ pc = "usb" /\ pc' = "server" /\ ret' = FALSE /\ usb' = IdleUsb
        /\ pool' = Added(UsbThread)
        /\ UNCHANGED <<ctx, restart, av, avahi>>
    BY <1>1 DEF StartUsb
  <2>2. pipes' \in [Pipes -> Pipe] /\ \A p \in Pipes : pipes'[p].sessions = 0
    <3>1. pipes' = [p \in Pipes |-> [sessions |-> 0, event |-> FALSE, asked |-> FALSE]]
      BY <1>1 DEF StartUsb
    <3> QED
      BY <3>1 DEF Pipe
  <2>3. pool' \in Pool /\ UsbThread \in pool'.threads
    BY <2>1, AddedPool DEF DaemonInv, DaemonTypeOK, Threads
  <2>4. DaemonTypeOK'
    BY <2>1, <2>2, <2>3 DEF DaemonInv, DaemonTypeOK, IdleUsb
  <2>5. HasContext' /\ KnowsStop' /\ ThreadsRun' /\ PipesAreAttended' /\ OpenedPipeStays'
    BY <2>1, <2>2, <2>3
    DEF DaemonInv, HasContext, KnowsStop, ThreadsRun,
         PipesAreAttended, OpenedPipeStays
  <2> QED
    BY <2>4, <2>5 DEF DaemonInv
<1>2. CASE ~ok
  <2>1. /\ pc = "usb" /\ pc' = "destroy" /\ ret' = TRUE
        /\ UNCHANGED <<ctx, restart, av, avahi, pool, pipes, usb>>
    BY <1>2 DEF StartUsb
  <2> QED
    BY <2>1 DEF DaemonInv, DaemonTypeOK, HasContext, KnowsStop, ThreadsRun,
         PipesAreAttended, OpenedPipeStays
<1> QED
  BY <1>1, <1>2

LEMMA StartServerKeeps ==
  ASSUME DaemonInv, NEW ok \in BOOLEAN, StartServer(ok)
  PROVE  DaemonInv'
<1>1. CASE ok
  <2>1. /\ pc = "server" /\ pc' = "serve" /\ ret' = FALSE /\ avahi' = NoAvahi
        /\ av' = [pc |-> "net", try |-> 1] /\ pool' = Added(AvahiThread)
        /\ UNCHANGED <<ctx, restart, usb, pipes>>
    BY <1>1 DEF StartServer
  <2>2. pool' \in Pool /\ pool.threads \subseteq pool'.threads
    BY <2>1, AddedPool DEF DaemonInv, DaemonTypeOK, Threads
  <2>3. avahi' \in Avahi /\ 1 \in 1 .. MaxTries
    BY <2>1, DaemonAssumption DEF NoAvahi, Avahi
  <2>4. DaemonTypeOK'
    BY <2>1, <2>2, <2>3 DEF DaemonInv, DaemonTypeOK
  <2>5. HasContext' /\ KnowsStop' /\ ThreadsRun' /\ PipesAreAttended' /\ OpenedPipeStays'
    BY <2>1, <2>2 DEF DaemonInv, HasContext, KnowsStop, ThreadsRun,
         PipesAreAttended, OpenedPipeStays
  <2> QED
    BY <2>4, <2>5 DEF DaemonInv
<1>2. CASE ~ok
  <2>1. /\ pc = "server" /\ pc' = "stop" /\ ret' = TRUE
        /\ UNCHANGED <<ctx, restart, usb, pipes, pool, av, avahi>>
    BY <1>2 DEF StartServer
  <2> QED
    BY <2>1 DEF DaemonInv, DaemonTypeOK, HasContext, KnowsStop, ThreadsRun,
         PipesAreAttended, OpenedPipeStays
<1> QED
  BY <1>1, <1>2

LEMMA MainKeeps ==
  ASSUME DaemonInv, Main
  PROVE  DaemonInv'
<1> USE DEF DaemonInv, DaemonTypeOK, HasContext, KnowsStop, ThreadsRun,
         PipesAreAttended, OpenedPipeStays
<1>1. CASE RestartPool \/ PurgePool
  BY <1>1, PurgedPool DEF RestartPool, PurgePool
<1>2. CASE ClearRestart \/ DestroyContext \/ Returned
  BY <1>2 DEF ClearRestart, DestroyContext, Returned
<1>3. CASE StopServer
  <2>1. avahi' \in Avahi
    BY <1>3 DEF StopServer, ShutDown, NoAvahi, Avahi
  <2> QED
    BY <1>3, <2>1 DEF StopServer
<1>4. CASE StopPool
  BY <1>4, StoppedPool DEF StopPool
<1>5. CASE WaitPool
  BY <1>5 DEF WaitPool, PoolDrained
<1>7. CASE ClearStop
  <2>1. pool' \in Pool /\ pool'.threads = pool.threads
    BY <1>7 DEF ClearStop, Pool
  <2> QED
    BY <1>7, <2>1 DEF ClearStop
<1>6. ASSUME NEW ok \in BOOLEAN, CreateContext(ok)
      PROVE  DaemonInv'
  BY <1>6 DEF CreateContext
<1> QED
  BY <1>1, <1>2, <1>3, <1>4, <1>5, <1>6, <1>7, StartUsbKeeps, StartServerKeeps DEF Main

\* A thread that comes while main serves, or one that goes and is not usbd_main.
LEMMA ThreadsKeep ==
  ASSUME DaemonInv, EndAvahi \/ \E c \in Connections : Accept(c) \/ EndClient(c)
  PROVE  DaemonInv'
<1> USE DEF DaemonInv, DaemonTypeOK, HasContext, KnowsStop, ThreadsRun,
         PipesAreAttended, OpenedPipeStays
<1>1. CASE EndAvahi
  <2>1. avahi' \in Avahi
    BY <1>1 DEF EndAvahi, ShutDown, NoAvahi, Avahi
  <2>2. pool' = Ended(AvahiThread) /\ AvahiThread # UsbThread
    BY <1>1 DEF EndAvahi, AvahiThread, UsbThread
  <2> QED
    BY <1>1, <2>1, <2>2, EndedPool DEF EndAvahi
<1>2. ASSUME NEW c \in Connections, Accept(c)
      PROVE  DaemonInv'
  BY <1>2, AddedPool DEF Accept, Threads
<1>3. ASSUME NEW c \in Connections, EndClient(c)
      PROVE  DaemonInv'
  <2>1. c # UsbThread
    BY DaemonAssumption DEF UsbThread
  <2> QED
    BY <1>3, <2>1, EndedPool DEF EndClient
<1> QED
  BY <1>1, <1>2, <1>3

\* What usbd_main and the sessions of its pipes do.
LEMMA PipesKeep ==
  ASSUME DaemonInv,
         \/ Usbd \/ BadPipe
         \/ \E S \in {{p} : p \in Pipes} \cup {Pipes} : ClosePipes(S)
         \/ \E p \in Pipes : OpenPipe(p) \/ EndPipe(p)
  PROVE  DaemonInv'
<1> USE DEF DaemonInv, DaemonTypeOK, HasContext, KnowsStop, ThreadsRun,
         PipesAreAttended, OpenedPipeStays
<1>1. CASE StopUsb \/ BadPipe
  BY <1>1 DEF StopUsb, BadPipe, UsbReady
<1>2. CASE EndUsb
  <2>1. pipes' \in [Pipes -> Pipe] /\ \A p \in Pipes : pipes'[p].sessions = 0
    BY <1>2 DEF EndUsb, UsbDrained, Pipe
  <2>2. /\ pool' = Ended(UsbThread) /\ usb' = IdleUsb
        /\ UNCHANGED <<pc, ret, ctx, restart, av, avahi>>
    BY <1>2 DEF EndUsb
  <2>3. DaemonTypeOK'
    BY <2>1, <2>2, EndedPool DEF IdleUsb
  <2>4. HasContext' /\ KnowsStop' /\ ThreadsRun' /\ PipesAreAttended' /\ OpenedPipeStays'
    BY <2>1, <2>2, EndedPool DEF IdleUsb
  <2> QED
    BY <2>3, <2>4
<1>3. ASSUME NEW p \in Pipes, OpenEndpoints(p)
      PROVE  DaemonInv'
  <2>1. /\ usb' = [pc |-> "poll", pipe |-> "none"] /\ usb.pc = "open"
        /\ pipes[p].sessions = 0
    BY <1>3 DEF OpenEndpoints, PipeDrained, IdleUsb
  <2> QED
    BY <1>3, <2>1, OpenedPipe DEF OpenEndpoints
<1>4. ASSUME NEW p \in Pipes, OpenFails(p)
      PROVE  DaemonInv'
  <2>1. pipes' \in [Pipes -> Pipe] /\ \A q \in Pipes :
          /\ pipes'[q].sessions = pipes[q].sessions /\ pipes'[q].asked = pipes[q].asked
          /\ pipes'[q].event => pipes[q].event
    BY <1>4 DEF OpenFails, Pipe
  <2> QED
    BY <1>4, <2>1 DEF OpenFails
<1>5. ASSUME NEW p \in Pipes, LeavePipe(p) \/ OpenPipe(p)
      PROVE  DaemonInv'
  <2>1. /\ pipes' = PipeStopped(p)
        /\ UNCHANGED <<pc, ret, ctx, pool, restart, av, avahi>>
        /\ UsbThread \in pool.threads
        /\ usb' \in [pc : {"poll", "open", "leave"}, pipe : Pipes \cup {"none"}]
    BY <1>5 DEF LeavePipe, OpenPipe, UsbReady
  <2> QED
    BY <2>1, StoppedPipe
<1>6. ASSUME NEW p \in Pipes, EndPipe(p)
      PROVE  DaemonInv'
  <2>1. pipes' \in [Pipes -> Pipe] /\ pipes'[p].sessions = 0
    BY <1>6 DEF EndPipe, Pipe
  <2>2. \A q \in Pipes \ {p} : pipes'[q] = pipes[q]
    BY <1>6 DEF EndPipe
  <2> QED
    BY <1>6, <2>1, <2>2 DEF EndPipe
<1>7. ASSUME NEW S, ClosePipes(S)
      PROVE  DaemonInv'
  <2>1. \A q \in Pipes : pipes'[q] = IF q \in S THEN PipeStopped(q)[q] ELSE pipes[q]
    BY <1>7 DEF ClosePipes
  <2>2. \A q \in Pipes : PipeStopped(q)[q] \in Pipe /\ PipeStopped(q)[q].asked
                         /\ PipeStopped(q)[q].sessions = pipes[q].sessions
    BY StoppedPipe
  <2>3. pipes' \in [Pipes -> Pipe]
    BY <1>7, <2>2 DEF ClosePipes
  <2> QED
    BY <1>7, <2>1, <2>2, <2>3 DEF ClosePipes
<1> QED
  BY <1>1, <1>2, <1>3, <1>4, <1>5, <1>6, <1>7 DEF Usbd

LEMMA NextDaemon == DaemonInv /\ [DaemonNext]_daemonVars => DaemonInv'
<1> SUFFICES ASSUME DaemonInv, [DaemonNext]_daemonVars
             PROVE  DaemonInv'
  OBVIOUS
<1>1. CASE UNCHANGED daemonVars
  BY <1>1
  DEF daemonVars, DaemonInv, DaemonTypeOK, HasContext, KnowsStop, ThreadsRun, PipesAreAttended,
      OpenedPipeStays
<1>2. CASE DaemonNext
  BY <1>2, AvahiKeeps, SignalsKeep, MainKeeps, ThreadsKeep, PipesKeep DEF DaemonNext, AvahiSteps
<1> QED
  BY <1>1, <1>2

LEMMA InvDaemon == DaemonSpec => []DaemonInv
  BY InitDaemon, NextDaemon, PTL DEF DaemonSpec

-----------------------------------------------------------------------------
(* The theorems about the daemon's life. *)

\* The daemon's state stays well-typed, and wherever main goes on from a stop it finds the
\* pool's flag set: an event in stop_fd when it restarts is taken out (thread_pool_restart).
\* Elsewhere there may be an event without the flag, of a signal that came in between the
\* purge and the flag's reset.
THEOREM DaemonTypes == DaemonSpec => [](DaemonTypeOK /\ KnowsStop)
<1>1. DaemonInv => DaemonTypeOK /\ KnowsStop
  BY DEF DaemonInv
<1> QED
  BY <1>1, InvDaemon, PTL

\* No session, of the network or of USB, and no other thread of the pool is left when
\* start_iiod destroys the context, whatever the signals and failures.
THEOREM ContextIsNotOutlived == DaemonSpec => []ContextOutlivesThreads
<1>1. DaemonInv => ContextOutlivesThreads
  BY DEF DaemonInv, DaemonTypeOK, Pipe, HasContext, ThreadsRun, PipesAreAttended,
         ContextOutlivesThreads
<1> QED
  BY <1>1, InvDaemon, PTL

\* A pipe serves one session, and the stop that made room for it does not end it.
THEOREM OpenedPipesStay == DaemonSpec => []OpenedPipeStays
<1>1. DaemonInv => OpenedPipeStays
  BY DEF DaemonInv
<1> QED
  BY <1>1, InvDaemon, PTL

=============================================================================
