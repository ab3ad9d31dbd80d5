---------------------------- MODULE EventDetector ----------------------------
(***************************************************************************)
(* The detection engine of src/src/rf_analyzer/detection/detector.py.      *)
(*                                                                         *)
(* A monitor thread hands every spectrum to process_spectrum, which under  *)
(* the detector's lock opens, refreshes or closes one event per frequency  *)
(* range, and then, with the lock released, calls on_event_started for the *)
(* events that became significant and on_event for the ones that ended.    *)
(* flush closes whatever is open (monitor shutdown); update_ranges swaps   *)
(* the configured ranges.                                                  *)
(*                                                                         *)
(* A spectrum is abstracted to the set of ranges whose threshold it        *)
(* exceeds and the subset of those whose signal is wider than 200 kHz:     *)
(* powers and frequencies never decide anything else here.  Times are      *)
(* ticks of time.time(); MaxBack > 0 lets the wall clock be set back.      *)
(***************************************************************************)
EXTENDS Integers, FiniteSets

CONSTANTS
  Ranges,           \* names of the frequency ranges that can be configured
  Callers,          \* threads that may be inside process_spectrum
  MinDuration,      \* MinDuration[r]: min_duration_ms of range r, in ticks
  MinEventGap,      \* min_event_gap_ms, in ticks
  WidebandTimeout,  \* _wideband_timeout, in ticks
  MayRaise,         \* whether the callbacks may raise (the storage or the client may fail)
  MaxBack,          \* how far the wall clock may be set back (0: monotonic)
  MaxTime,          \* bound: the clock stops here
  MaxSpectra        \* bound: number of spectra processed

ASSUME DetectorConstants ==
  /\ MinDuration \in [Ranges -> Nat]
  /\ MinEventGap \in Nat
  /\ WidebandTimeout \in Nat \ {0}
  /\ MayRaise \in BOOLEAN
  /\ MaxBack \in Nat
  /\ MaxTime \in Nat
  /\ MaxSpectra \in Nat

VARIABLES
  now,              \* time.time()
  ranges,           \* keys of self.ranges: the enabled ranges
  active,           \* _active_events: range name -> open event
  lastWideband,     \* _last_wideband_detection, Never for None
  spectrumCount,    \* _spectrum_count
  startedPending,   \* per caller: started_events not yet called back
  completedPending, \* per caller: completed_events not yet called back
  announced,        \* history: events on_event_started was called with
  completed,        \* history: [event, end] on_event was called with
  discarded,        \* history: events closed as shorter than min_duration
  dropped,          \* history: long enough, closed by update_ranges, unreported
  skipped           \* history: not passed to on_event as an earlier call raised

detectorState == <<ranges, active, lastWideband, spectrumCount>>
callbackState == <<startedPending, completedPending>>
history == <<announced, completed, discarded, dropped, skipped>>
detectorVars == <<now, detectorState, callbackState, history>>

Never == -1
Time == 0 .. MaxTime

\* An RFEvent: "born" is the spectrum that opened it, so range and born name
\* one event; a later spectrum never changes start, wide or spliced.
Event == [range : Ranges, born : 1 .. MaxSpectra, start : Time,
          wide : BOOLEAN, spliced : BOOLEAN]
ActiveEvent == [event : Event, last : Time]
Completed == [event : Event, end : Time]

-----------------------------------------------------------------------------
(* Helpers of process_spectrum *)

EventsIn(S) == {active[r].event : r \in S}
OpenEvents == EventsIn(DOMAIN active)

\* _classify_event stamps _last_wideband_detection as soon as it sees a wide
\* signal, before _check_range looks at it.
ClassifyStamp(wide) == IF wide # {} THEN now ELSE lastWideband

\* The continuity branch of _check_range is taken by a new wideband event when
\* the last wideband detection is recent.
Spliced(r, wide, stamp) ==
  /\ r \in wide
  /\ stamp # Never
  /\ now - stamp < WidebandTimeout

\* A new RFEvent of range r; the continuity branch back-dates its start.
NewEvent(r, wide, stamp) ==
  [range |-> r, born |-> spectrumCount + 1,
   start |-> IF Spliced(r, wide, stamp) THEN stamp ELSE now,
   wide |-> r \in wide, spliced |-> Spliced(r, wide, stamp)]

\* _check_range on a detected range: refresh the open event or open one.
CheckDetected(r, wide, stamp) ==
  [event |-> IF r \in DOMAIN active THEN active[r].event
                                    ELSE NewEvent(r, wide, stamp),
   last |-> now]

\* _active_events once every configured range has been checked.
Checked(hit, wide) ==
  [r \in hit \cup (DOMAIN active \ ranges) |->
     IF r \in hit THEN CheckDetected(r, wide, ClassifyStamp(wide))
                  ELSE active[r]]

\* The started_events of one spectrum: open events that have now lasted the
\* range's minimum duration, and every spliced event at once.
Started(hit, wide) ==
  {active[r].event : r \in {q \in hit \cap DOMAIN active :
                              now - active[q].event.start >= MinDuration[q]}}
  \cup {NewEvent(r, wide, ClassifyStamp(wide)) :
          r \in {q \in hit \ DOMAIN active :
                   Spliced(q, wide, ClassifyStamp(wide))}}

\* _close_stale_events: open events without an update for min_event_gap.
Stale(open) == {r \in DOMAIN open : now - open[r].last > MinEventGap}

\* Mutant: off by one in the duration filter.
TooShort_OffByOne(e) == e.range \in ranges /\ now - e.start + 1 < MinDuration[e.range]

\* _close_event: whether the event that ends now is too short to report; the
\* filter needs the range to be still configured.
TooShort(e) == e.range \in ranges /\ now - e.start < MinDuration[e.range]

Reported(events) == {[event |-> e, end |-> now] : e \in {f \in events : ~TooShort(f)}}
Rejected(events) == {e \in events : TooShort(e)}

-----------------------------------------------------------------------------
(* Operations *)

Init ==
  /\ now = 0
  /\ ranges \in SUBSET Ranges
  /\ active = [r \in {} |-> r]
  /\ lastWideband = Never
  /\ spectrumCount = 0
  /\ startedPending = [c \in Callers |-> {}]
  /\ completedPending = [c \in Callers |-> {}]
  /\ announced = {} /\ completed = {}
  /\ discarded = {} /\ dropped = {} /\ skipped = {}

Tick ==
  /\ now < MaxTime
  /\ now' = now + 1
  /\ UNCHANGED <<detectorState, callbackState, history>>

\* The host's wall clock is corrected (NTP); time.time() is not monotonic.
ClockSetBack ==
  /\ \E d \in 1 .. MaxBack : now - d >= 0 /\ now' = now - d
  /\ UNCHANGED <<detectorState, callbackState, history>>

Idle(c) == startedPending[c] = {} /\ completedPending[c] = {}

\* The locked part of process_spectrum for one spectrum: hit are the ranges
\* above threshold, wide those with a signal wider than 200 kHz.
ProcessOne(c, hit, wide) ==
  LET checked  == Checked(hit, wide)
      fell     == EventsIn((DOMAIN active \cap ranges) \ hit)
      timedOut == {checked[r].event : r \in Stale(checked)}
  IN  /\ active' = [r \in DOMAIN checked \ Stale(checked) |-> checked[r]]
      /\ lastWideband' = ClassifyStamp(wide)
      /\ spectrumCount' = spectrumCount + 1
      /\ startedPending' = [startedPending EXCEPT ![c] = Started(hit, wide)]
      /\ completedPending' =
           [completedPending EXCEPT ![c] = Reported(fell \cup timedOut)]
      /\ discarded' = discarded \cup Rejected(fell \cup timedOut)
      /\ UNCHANGED <<now, ranges, announced, completed, dropped, skipped>>

ProcessSpectrum(c) ==
  /\ spectrumCount < MaxSpectra
  /\ Idle(c)
  /\ \E hit \in SUBSET ranges : \E wide \in SUBSET hit : ProcessOne(c, hit, wide)

\* The callbacks after the lock is released: all started ones, then the
\* completed ones.
CallStarted(c) ==
  /\ \E e \in startedPending[c] :
       /\ startedPending' = [startedPending EXCEPT ![c] = @ \ {e}]
       /\ announced' = announced \cup {e}
  /\ UNCHANGED <<now, detectorState, completedPending, completed, discarded, dropped, skipped>>

\* on_event_started raises: process_spectrum is left with every completed event of this
\* spectrum, and the started ones not yet announced, never handed over.
OnStartedRaises(c) ==
  /\ MayRaise
  /\ \E e \in startedPending[c] : announced' = announced \cup {e}
  /\ startedPending' = [startedPending EXCEPT ![c] = {}]
  /\ completedPending' = [completedPending EXCEPT ![c] = {}]
  /\ skipped' = skipped \cup {d.event : d \in completedPending[c]}
  /\ UNCHANGED <<now, detectorState, completed, discarded, dropped>>

CallCompleted(c) ==
  /\ startedPending[c] = {}
  /\ \E d \in completedPending[c] :
       /\ completedPending' = [completedPending EXCEPT ![c] = @ \ {d}]
       /\ completed' = completed \cup {d}
  /\ UNCHANGED <<now, detectorState, startedPending, announced, discarded, dropped, skipped>>

\* on_event raises: process_spectrum is left with the remaining completed
\* events of this spectrum never handed over.
OnEventRaises(c) ==
  /\ MayRaise
  /\ startedPending[c] = {}
  /\ \E d \in completedPending[c] :
       /\ completedPending' = [completedPending EXCEPT ![c] = {}]
       /\ completed' = completed \cup {d}
       /\ skipped' = skipped \cup {r.event : r \in completedPending[c] \ {d}}
  /\ UNCHANGED <<now, detectorState, startedPending, announced, discarded, dropped>>

\* Mutants of flush: the closed events stay in _active_events; on_event is not
\* called.
Flush_KeepsOpen(S) ==
  /\ S # DOMAIN active => MayRaise /\ Reported(EventsIn(S)) # {}
  /\ completed' = completed \cup Reported(EventsIn(S))
  /\ discarded' = discarded \cup Rejected(EventsIn(S))
  /\ UNCHANGED <<now, detectorState, callbackState, announced, dropped, skipped>>

\* flush, which calls on_event with the lock held and so is one step.  S are the
\* ranges it gets through: all of them unless on_event raises on one event.
Flush(S) ==
  /\ S # DOMAIN active => MayRaise /\ Reported(EventsIn(S)) # {}
  /\ active' = [r \in DOMAIN active \ S |-> active[r]]
  /\ completed' = completed \cup Reported(EventsIn(S))
  /\ discarded' = discarded \cup Rejected(EventsIn(S))
  /\ UNCHANGED <<now, ranges, lastWideband, spectrumCount, callbackState,
                 announced, dropped, skipped>>

\* update_ranges closes the events of removed ranges and ignores what
\* _close_event returns.
UpdateRanges(new) ==
  LET removed == EventsIn(DOMAIN active \ new)
  IN  /\ active' = [r \in DOMAIN active \cap new |-> active[r]]
      /\ ranges' = new
      /\ discarded' = discarded \cup Rejected(removed)
      /\ dropped' = dropped \cup (removed \ Rejected(removed))
      /\ UNCHANGED <<now, lastWideband, spectrumCount, callbackState,
                     announced, completed, skipped>>

Next ==
  \/ Tick
  \/ ClockSetBack
  \/ \E c \in Callers :
       \/ ProcessSpectrum(c) \/ CallStarted(c) \/ CallCompleted(c)
       \/ OnStartedRaises(c) \/ OnEventRaises(c)
  \/ \E S \in SUBSET DOMAIN active : Flush(S)
  \/ \E new \in SUBSET Ranges : UpdateRanges(new)

Spec == Init /\ [][Next]_detectorVars

\* A thread that entered process_spectrum runs its callbacks to the end.
FairSpec ==
  Spec /\ \A c \in Callers : WF_detectorVars(CallStarted(c) \/ CallCompleted(c))

-----------------------------------------------------------------------------
(* Properties *)

EventsOf(S) == {d.event : d \in S}
AwaitingCallback == UNION {completedPending[c] : c \in Callers}
Ended == EventsOf(completed) \cup EventsOf(AwaitingCallback)
           \cup discarded \cup dropped \cup skipped

\* Type invariant of the detector, the callbacks under way and the history.
TypeOK ==
  /\ now \in Time
  /\ ranges \in SUBSET Ranges
  /\ DOMAIN active \in SUBSET Ranges
  /\ \A r \in DOMAIN active : active[r] \in ActiveEvent /\ active[r].event.range = r
  /\ lastWideband \in Time \cup {Never}
  /\ spectrumCount \in 0 .. MaxSpectra
  /\ startedPending \in [Callers -> SUBSET Event]
  /\ completedPending \in [Callers -> SUBSET Completed]
  /\ announced \in SUBSET Event
  /\ completed \in SUBSET Completed
  /\ discarded \in SUBSET Event
  /\ dropped \in SUBSET Event
  /\ skipped \in SUBSET Event

\* The gap rule of _close_stale_events never closes an event, whatever the next
\* spectrum holds: every open event belongs to a configured range, and a
\* configured range is refreshed or closed before the rule is reached.  So
\* nothing an event goes through depends on min_event_gap_ms.
GapRuleClosesNothing ==
  \A hit \in SUBSET ranges : \A wide \in SUBSET hit : Stale(Checked(hit, wide)) = {}

\* Every event meets one fate, once: while it is open nothing has ended it, and
\* being reported to on_event (or on the way there, for one caller only), being
\* discarded as too short, dropped by update_ranges or skipped after a raise
\* exclude each other.  In particular on_event is called at most once per event
\* even when a flush runs against callbacks still under way.
OneFate ==
  /\ OpenEvents \cap Ended = {}
  /\ \A d1, d2 \in completed \cup AwaitingCallback : d1.event = d2.event => d1 = d2
  /\ completed \cap AwaitingCallback = {}
  /\ \A b, c \in Callers : b # c => completedPending[b] \cap completedPending[c] = {}
  /\ EventsOf(completed \cup AwaitingCallback) \cap (discarded \cup dropped \cup skipped) = {}
  /\ discarded \cap dropped = {}
  /\ skipped \cap (discarded \cup dropped) = {}

\* What reaches on_event, and so the database, lasted at least its range's
\* min_duration_ms, even if the wall clock was set back under an open event or
\* the range has been removed meanwhile.
ReportedLongEnough ==
  \A d \in completed \cup AwaitingCallback :
    d.end - d.event.start >= MinDuration[d.event.range]

=============================================================================
