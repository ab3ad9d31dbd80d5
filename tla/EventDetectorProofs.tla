------------------------- MODULE EventDetectorProofs -------------------------
(* Theorems about EventDetector, for every choice of ranges, durations and
   callers. *)
EXTENDS EventDetector, TLAPS

\* The strengthening every proof below rests on: events are open only for
\* configured ranges.
ActiveConfigured == DOMAIN active \subseteq ranges

LEMMA CheckedDomain ==
  ASSUME TypeOK, ActiveConfigured, NEW hit \in SUBSET ranges, NEW wide \in SUBSET hit
  PROVE  /\ DOMAIN Checked(hit, wide) = hit
         /\ \A r \in hit : Checked(hit, wide)[r] = CheckDetected(r, wide, ClassifyStamp(wide))
  BY DEF ActiveConfigured, Checked

\* A spectrum leaves nothing for the gap rule to close.
LEMMA NothingStale ==
  ASSUME TypeOK, ActiveConfigured, NEW hit \in SUBSET ranges, NEW wide \in SUBSET hit
  PROVE  Stale(Checked(hit, wide)) = {}
<1>1. \A r \in hit : Checked(hit, wide)[r].last = now
  <2>1. \A r \in hit : Checked(hit, wide)[r] = CheckDetected(r, wide, ClassifyStamp(wide))
    BY CheckedDomain
  <2>2. \A r \in hit : CheckDetected(r, wide, ClassifyStamp(wide)).last = now
    BY DEF CheckDetected
  <2> QED
    BY <2>1, <2>2
<1>2. now - now = 0
  BY DEF TypeOK, Time
<1>3. ~(0 > MinEventGap)
  BY DetectorConstants
<1> QED
  BY <1>1, <1>2, <1>3, CheckedDomain DEF Stale

\* Opening an event yields a well-typed event of that range.
LEMMA NewEventType ==
  ASSUME TypeOK, spectrumCount < MaxSpectra,
         NEW hit \in SUBSET ranges, NEW wide \in SUBSET hit, NEW r \in Ranges
  PROVE  /\ NewEvent(r, wide, ClassifyStamp(wide)) \in Event
         /\ NewEvent(r, wide, ClassifyStamp(wide)).range = r
         /\ NewEvent(r, wide, ClassifyStamp(wide)).born = spectrumCount + 1
<1>1. ClassifyStamp(wide) \in Time \cup {Never}
  BY DEF ClassifyStamp, TypeOK
<1>2. Spliced(r, wide, ClassifyStamp(wide)) \in BOOLEAN
  BY DEF Spliced
<1>3. spectrumCount + 1 \in 1 .. MaxSpectra
  BY DetectorConstants DEF TypeOK
<1>4. (IF Spliced(r, wide, ClassifyStamp(wide)) THEN ClassifyStamp(wide) ELSE now) \in Time
  BY <1>1 DEF Spliced, TypeOK
<1> QED
  BY <1>2, <1>3, <1>4 DEF NewEvent, Event

LEMMA CheckDetectedType ==
  ASSUME TypeOK, spectrumCount < MaxSpectra,
         NEW hit \in SUBSET ranges, NEW wide \in SUBSET hit, NEW r \in Ranges
  PROVE  /\ CheckDetected(r, wide, ClassifyStamp(wide)) \in ActiveEvent
         /\ CheckDetected(r, wide, ClassifyStamp(wide)).event.range = r
<1>1. CASE r \in DOMAIN active
  BY <1>1 DEF CheckDetected, TypeOK, ActiveEvent
<1>2. CASE r \notin DOMAIN active
  BY <1>2, NewEventType DEF CheckDetected, TypeOK, ActiveEvent
<1> QED
  BY <1>1, <1>2

LEMMA ReportedType ==
  ASSUME TypeOK, NEW events \in SUBSET Event
  PROVE  Reported(events) \in SUBSET Completed /\ Rejected(events) \in SUBSET Event
  BY DEF Reported, Rejected, Completed, TypeOK

LEMMA EventsInType ==
  ASSUME TypeOK, NEW S \in SUBSET DOMAIN active
  PROVE  EventsIn(S) \in SUBSET Event
  BY DEF EventsIn, TypeOK, ActiveEvent

LEMMA OpenEventsType ==
  TypeOK => OpenEvents \in SUBSET Event
  BY EventsInType DEF OpenEvents

-----------------------------------------------------------------------------
LEMMA InitType == Init => TypeOK /\ ActiveConfigured
<1> SUFFICES ASSUME Init PROVE TypeOK /\ ActiveConfigured
  OBVIOUS
<1>1. DOMAIN active = {}
  BY DEF Init
<1>2. now \in Time /\ spectrumCount \in 0 .. MaxSpectra
  BY DetectorConstants DEF Init, Time
<1> QED
  BY <1>1, <1>2 DEF Init, TypeOK, ActiveConfigured

LEMMA ProcessOneType ==
  ASSUME TypeOK, ActiveConfigured, NEW c \in Callers, spectrumCount < MaxSpectra,
         NEW hit \in SUBSET ranges, NEW wide \in SUBSET hit, ProcessOne(c, hit, wide)
  PROVE  TypeOK' /\ ActiveConfigured'
<1> DEFINE fell == EventsIn((DOMAIN active \cap ranges) \ hit)
           timedOut == {Checked(hit, wide)[r].event : r \in Stale(Checked(hit, wide))}
<1>1. Stale(Checked(hit, wide)) = {} /\ timedOut = {}
  BY NothingStale
<1>2. DOMAIN active' = hit
      /\ \A r \in hit : active'[r] = CheckDetected(r, wide, ClassifyStamp(wide))
  BY <1>1, CheckedDomain DEF ProcessOne
<1>3. \A r \in hit : active'[r] \in ActiveEvent /\ active'[r].event.range = r
  BY <1>2, CheckDetectedType DEF TypeOK
<1>4. Started(hit, wide) \in SUBSET Event
  <2>1. \A r \in hit \cap DOMAIN active : active[r].event \in Event
    BY DEF TypeOK, ActiveEvent
  <2>2. \A r \in hit : NewEvent(r, wide, ClassifyStamp(wide)) \in Event
    BY NewEventType DEF TypeOK
  <2> QED
    BY <2>1, <2>2 DEF Started
<1>5. fell \cup timedOut \in SUBSET Event
  BY <1>1, EventsInType
<1>6. Reported(fell \cup timedOut) \in SUBSET Completed
      /\ Rejected(fell \cup timedOut) \in SUBSET Event
  BY <1>5, ReportedType
<1>7. lastWideband' \in Time \cup {Never} /\ spectrumCount' \in 0 .. MaxSpectra
  BY DetectorConstants DEF ProcessOne, ClassifyStamp, TypeOK
<1>8. /\ startedPending' \in [Callers -> SUBSET Event]
      /\ completedPending' \in [Callers -> SUBSET Completed]
      /\ discarded' \in SUBSET Event
  BY <1>4, <1>6 DEF ProcessOne, TypeOK
<1>9. UNCHANGED <<now, ranges, announced, completed, dropped, skipped>>
  BY DEF ProcessOne
<1> QED
  BY <1>2, <1>3, <1>7, <1>8, <1>9 DEF TypeOK, ActiveConfigured

LEMMA NextType == TypeOK /\ ActiveConfigured /\ [Next]_detectorVars
                    => TypeOK' /\ ActiveConfigured'
<1> SUFFICES ASSUME TypeOK, ActiveConfigured, [Next]_detectorVars
             PROVE  TypeOK' /\ ActiveConfigured'
  OBVIOUS
<1>1. CASE Tick
  <2>1. now' \in Time
    BY <1>1, DetectorConstants DEF Tick, TypeOK, Time
  <2> QED
    BY <1>1, <2>1 DEF Tick, TypeOK, ActiveConfigured, detectorState, callbackState, history
<1>2. CASE ClockSetBack
  <2>1. now' \in Time
    BY <1>2, DetectorConstants DEF ClockSetBack, TypeOK, Time
  <2> QED
    BY <1>2, <2>1 DEF ClockSetBack, TypeOK, ActiveConfigured, detectorState, callbackState, history
<1>3. ASSUME NEW c \in Callers, ProcessSpectrum(c) PROVE TypeOK' /\ ActiveConfigured'
  BY <1>3, ProcessOneType DEF ProcessSpectrum
<1>4. ASSUME NEW c \in Callers, CallStarted(c) PROVE TypeOK' /\ ActiveConfigured'
  BY <1>4 DEF CallStarted, TypeOK, ActiveConfigured, detectorState
<1>5. ASSUME NEW c \in Callers, CallCompleted(c) PROVE TypeOK' /\ ActiveConfigured'
  BY <1>5 DEF CallCompleted, TypeOK, ActiveConfigured, detectorState
<1>6. ASSUME NEW S \in SUBSET DOMAIN active, Flush(S) PROVE TypeOK' /\ ActiveConfigured'
  <2>1. /\ Reported(EventsIn(S)) \in SUBSET Completed
        /\ Rejected(EventsIn(S)) \in SUBSET Event
    BY EventsInType, ReportedType
  <2>2. /\ DOMAIN active' = DOMAIN active \ S
        /\ \A r \in DOMAIN active \ S : active'[r] = active[r]
    BY <1>6 DEF Flush
  <2>3. completed' \in SUBSET Completed /\ discarded' \in SUBSET Event
    BY <1>6, <2>1 DEF Flush, TypeOK
  <2>4. UNCHANGED <<now, ranges, lastWideband, spectrumCount, callbackState,
                    announced, dropped, skipped>>
    BY <1>6 DEF Flush
  <2> QED
    BY <2>2, <2>3, <2>4 DEF TypeOK, ActiveConfigured, callbackState
<1>9. ASSUME NEW c \in Callers, OnEventRaises(c) PROVE TypeOK' /\ ActiveConfigured'
  BY <1>9 DEF OnEventRaises, TypeOK, ActiveConfigured, detectorState, Completed
<1>10. ASSUME NEW c \in Callers, OnStartedRaises(c) PROVE TypeOK' /\ ActiveConfigured'
  BY <1>10 DEF OnStartedRaises, TypeOK, ActiveConfigured, detectorState, Completed
<1>7. ASSUME NEW new \in SUBSET Ranges, UpdateRanges(new) PROVE TypeOK' /\ ActiveConfigured'
  <2> DEFINE removed == EventsIn(DOMAIN active \ new)
  <2>1. removed \in SUBSET Event
    BY EventsInType
  <2>2. Rejected(removed) \in SUBSET Event
    BY <2>1, ReportedType
  <2>3. DOMAIN active' = DOMAIN active \cap new
        /\ \A r \in DOMAIN active \cap new : active'[r] = active[r]
    BY <1>7 DEF UpdateRanges
  <2>4. discarded' \in SUBSET Event /\ dropped' \in SUBSET Event /\ ranges' = new
    BY <1>7, <2>1, <2>2 DEF UpdateRanges, TypeOK
  <2>5. UNCHANGED <<now, lastWideband, spectrumCount, callbackState, announced,
                    completed, skipped>>
    BY <1>7 DEF UpdateRanges
  <2> QED
    BY <2>3, <2>4, <2>5 DEF TypeOK, ActiveConfigured, callbackState
<1>8. CASE UNCHANGED detectorVars
  BY <1>8 DEF detectorVars, detectorState, callbackState, history, TypeOK, ActiveConfigured
<1> QED
  BY <1>1, <1>2, <1>3, <1>4, <1>5, <1>6, <1>7, <1>8, <1>9, <1>10 DEF Next

\* The detector's state stays well-typed, and events are open only for ranges
\* that are configured (detector.py: _check_range opens, update_ranges closes).
THEOREM TypeCorrect == Spec => [](TypeOK /\ ActiveConfigured)
  BY InitType, NextType, PTL DEF Spec

\* The gap rule of _close_stale_events (detector.py:283-298) never closes
\* anything, in any state, for any next spectrum and any min_event_gap_ms.
THEOREM GapRuleIsDead == Spec => []GapRuleClosesNothing
<1>1. TypeOK /\ ActiveConfigured => GapRuleClosesNothing
  BY NothingStale DEF GapRuleClosesNothing
<1> QED
  BY <1>1, TypeCorrect, PTL

-----------------------------------------------------------------------------
(* A spectrum step, in the terms the invariants below need *)

Fallen(hit) == EventsIn(DOMAIN active \ hit)

\* What one spectrum does: the events of silent ranges end, the others stay,
\* the newly opened ones bear the number of this spectrum.
LEMMA SpectrumStep ==
  ASSUME TypeOK, ActiveConfigured, NEW c \in Callers, spectrumCount < MaxSpectra,
         NEW hit \in SUBSET ranges, NEW wide \in SUBSET hit, ProcessOne(c, hit, wide)
  PROVE  /\ spectrumCount' = spectrumCount + 1
         /\ completedPending' = [completedPending EXCEPT ![c] = Reported(Fallen(hit))]
         /\ discarded' = discarded \cup Rejected(Fallen(hit))
         /\ DOMAIN active' = hit
         /\ \A r \in hit \cap DOMAIN active : active'[r].event = active[r].event
         /\ \A r \in hit \ DOMAIN active :
              active'[r].event = NewEvent(r, wide, ClassifyStamp(wide))
<1>1. Stale(Checked(hit, wide)) = {}
  BY NothingStale
<1>2. (DOMAIN active \cap ranges) \ hit = DOMAIN active \ hit
  BY DEF ActiveConfigured
<1>3. EventsIn((DOMAIN active \cap ranges) \ hit)
        \cup {Checked(hit, wide)[r].event : r \in Stale(Checked(hit, wide))} = Fallen(hit)
  BY <1>1, <1>2 DEF Fallen
<1>4. DOMAIN active' = hit
      /\ \A r \in hit : active'[r] = CheckDetected(r, wide, ClassifyStamp(wide))
  BY <1>1, CheckedDomain DEF ProcessOne
<1>5. /\ \A r \in hit \cap DOMAIN active :
           CheckDetected(r, wide, ClassifyStamp(wide)).event = active[r].event
      /\ \A r \in hit \ DOMAIN active :
           CheckDetected(r, wide, ClassifyStamp(wide)).event
             = NewEvent(r, wide, ClassifyStamp(wide))
  BY DEF CheckDetected
<1>6. /\ spectrumCount' = spectrumCount + 1
      /\ completedPending' = [completedPending EXCEPT ![c] = Reported(Fallen(hit))]
      /\ discarded' = discarded \cup Rejected(Fallen(hit))
  BY <1>3 DEF ProcessOne
<1> QED
  BY <1>4, <1>5, <1>6

-----------------------------------------------------------------------------
(* ReportedLongEnough *)

LEMMA ReportedIsLong ==
  ASSUME ActiveConfigured, NEW S \in SUBSET DOMAIN active, TypeOK
  PROVE  \A d \in Reported(EventsIn(S)) :
           d.end - d.event.start >= MinDuration[d.event.range]
<1> SUFFICES ASSUME NEW r \in S, ~TooShort(active[r].event)
             PROVE  now - active[r].event.start >= MinDuration[active[r].event.range]
  BY DEF Reported, EventsIn
<1>1. active[r].event.range = r /\ r \in ranges /\ r \in Ranges
  BY DEF TypeOK, ActiveConfigured
<1>2. now \in Int /\ active[r].event.start \in Int
  BY DetectorConstants DEF TypeOK, ActiveEvent, Event, Time
<1>3. MinDuration[r] \in Int
  BY <1>1, DetectorConstants
<1> QED
  BY <1>1, <1>2, <1>3 DEF TooShort

LEMMA LongEnoughStep ==
  TypeOK /\ ActiveConfigured /\ ReportedLongEnough /\ [Next]_detectorVars
    => ReportedLongEnough'
<1> SUFFICES ASSUME TypeOK, ActiveConfigured, ReportedLongEnough, [Next]_detectorVars
             PROVE  ReportedLongEnough'
  OBVIOUS
<1>1. ASSUME NEW c \in Callers, ProcessSpectrum(c) PROVE ReportedLongEnough'
  <2> PICK hit \in SUBSET ranges : \E wide \in SUBSET hit : ProcessOne(c, hit, wide)
    BY <1>1 DEF ProcessSpectrum
  <2> PICK wide \in SUBSET hit : ProcessOne(c, hit, wide)
    OBVIOUS
  <2>1. completedPending' = [completedPending EXCEPT ![c] = Reported(Fallen(hit))]
    BY <1>1, SpectrumStep DEF ProcessSpectrum
  <2>2. \A d \in Reported(Fallen(hit)) :
          d.end - d.event.start >= MinDuration[d.event.range]
    BY ReportedIsLong DEF Fallen
  <2>3. completed' = completed
    BY DEF ProcessOne
  <2>4. AwaitingCallback' \subseteq AwaitingCallback \cup Reported(Fallen(hit))
    BY <2>1 DEF AwaitingCallback, TypeOK
  <2> QED
    BY <2>2, <2>3, <2>4 DEF ReportedLongEnough
<1>2. ASSUME NEW c \in Callers, CallCompleted(c) PROVE ReportedLongEnough'
  <2>1. completed' \cup AwaitingCallback' \subseteq completed \cup AwaitingCallback
    BY <1>2 DEF CallCompleted, AwaitingCallback, TypeOK
  <2> QED
    BY <2>1 DEF ReportedLongEnough
<1>6. ASSUME NEW c \in Callers, OnEventRaises(c) PROVE ReportedLongEnough'
  <2>1. completed' \cup AwaitingCallback' \subseteq completed \cup AwaitingCallback
    BY <1>6 DEF OnEventRaises, AwaitingCallback, TypeOK
  <2> QED
    BY <2>1 DEF ReportedLongEnough
<1>7. ASSUME NEW c \in Callers, OnStartedRaises(c) PROVE ReportedLongEnough'
  <2>1. completed' = completed /\ AwaitingCallback' \subseteq AwaitingCallback
    BY <1>7 DEF OnStartedRaises, AwaitingCallback, TypeOK
  <2> QED
    BY <2>1 DEF ReportedLongEnough
<1>3. ASSUME NEW S \in SUBSET DOMAIN active, Flush(S) PROVE ReportedLongEnough'
  <2>1. \A d \in Reported(EventsIn(S)) :
          d.end - d.event.start >= MinDuration[d.event.range]
    BY ReportedIsLong
  <2>2. completed' = completed \cup Reported(EventsIn(S)) /\ AwaitingCallback' = AwaitingCallback
    BY <1>3 DEF Flush, AwaitingCallback, callbackState
  <2> QED
    BY <2>1, <2>2 DEF ReportedLongEnough
<1>4. ASSUME UNCHANGED <<completed, completedPending>> PROVE ReportedLongEnough'
  BY <1>4 DEF ReportedLongEnough, AwaitingCallback
<1>5. Tick \/ ClockSetBack \/ (\E c \in Callers : CallStarted(c))
      \/ (\E new \in SUBSET Ranges : UpdateRanges(new)) \/ UNCHANGED detectorVars
        => UNCHANGED <<completed, completedPending>>
  BY DEF Tick, ClockSetBack, CallStarted, UpdateRanges, detectorVars, callbackState, history
<1> QED
  BY <1>1, <1>2, <1>3, <1>4, <1>5, <1>6, <1>7 DEF Next

\* Whatever the clock does, on_event never sees an event shorter than its
\* range's min_duration_ms (_close_event's filter, detector.py:271-274).
THEOREM ReportsAreLongEnough == Spec => []ReportedLongEnough
<1>1. Init => ReportedLongEnough
  BY DEF Init, ReportedLongEnough, AwaitingCallback
<1> QED
  BY <1>1, LongEnoughStep, TypeCorrect, PTL DEF Spec


-----------------------------------------------------------------------------
(* OneFate *)

\* OneFate is not inductive alone: a new event must be told from every event
\* there was, which the number of the spectrum that opened it does.
BornBefore == \A e \in OpenEvents \cup Ended : e.born <= spectrumCount
FateInv == OneFate /\ BornBefore

\* _close_event splits the events it closes into the reported and the rejected.
LEMMA CloseSplits ==
  ASSUME NEW N
  PROVE  /\ EventsOf(Reported(N)) \cup Rejected(N) = N
         /\ EventsOf(Reported(N)) \cap Rejected(N) = {}
         /\ \A d1, d2 \in Reported(N) : d1.event = d2.event => d1 = d2
         /\ EventsOf(Reported(N)) = N \ Rejected(N)
<1>1. \A d \in Reported(N) : d.event \in N /\ ~TooShort(d.event)
                             /\ d = [event |-> d.event, end |-> now]
  BY DEF Reported
<1>2. \A e \in N : ~TooShort(e) => \E d \in Reported(N) : d.event = e
  <2> SUFFICES ASSUME NEW e \in N, ~TooShort(e) PROVE \E d \in Reported(N) : d.event = e
    OBVIOUS
  <2>1. [event |-> e, end |-> now] \in Reported(N)
    BY DEF Reported
  <2> QED
    BY <2>1
<1> QED
  BY <1>1, <1>2 DEF EventsOf, Rejected

LEMMA EventsOfUnion ==
  ASSUME NEW S, NEW T
  PROVE  EventsOf(S \cup T) = EventsOf(S) \cup EventsOf(T)
  BY DEF EventsOf

\* Closing the open events N into completed or a caller's callbacks, and
\* throwing the rest away, keeps the fates apart.
LEMMA FateStep ==
  ASSUME TypeOK, FateInv, spectrumCount' \in Nat, spectrumCount' >= spectrumCount,
         NEW N \in SUBSET OpenEvents, NEW gone,
         gone = EventsOf(Reported(N)) \/ gone = {},
         (completed \cup AwaitingCallback)'
           = completed \cup AwaitingCallback \cup (IF gone = {} THEN {} ELSE Reported(N)),
         (discarded \cup dropped \cup skipped)'
           = discarded \cup dropped \cup skipped \cup (N \ gone),
         discarded' \cap dropped' = {}, skipped' \cap (discarded' \cup dropped') = {},
         (completed \cap AwaitingCallback)' = {},
         (\A b, c \in Callers : b # c => completedPending[b] \cap completedPending[c] = {})',
         \A e \in OpenEvents' :
           e \in OpenEvents \ N \/ (e.born = spectrumCount' /\ spectrumCount' > spectrumCount)
  PROVE  FateInv'
<1> DEFINE R == IF gone = {} THEN {} ELSE Reported(N)
<1>1. EventsOf(R) = gone /\ gone \in SUBSET N
  BY CloseSplits DEF EventsOf
<1>2. EventsOf((completed \cup AwaitingCallback)') = EventsOf(completed \cup AwaitingCallback) \cup gone
  BY <1>1, EventsOfUnion
<1>3. Ended = EventsOf(completed \cup AwaitingCallback) \cup discarded \cup dropped \cup skipped
  BY EventsOfUnion DEF Ended
<1>4. Ended' = EventsOf((completed \cup AwaitingCallback)') \cup (discarded \cup dropped \cup skipped)'
  BY EventsOfUnion DEF Ended, EventsOf
<1>5. Ended' = Ended \cup N
  BY <1>1, <1>2, <1>3, <1>4
<1>6. spectrumCount \in Nat
  BY DEF TypeOK
<1>7. \A e \in OpenEvents : e.born \in Nat /\ e.born <= spectrumCount
  BY OpenEventsType DEF FateInv, BornBefore, Event
<1>8. \A e \in Ended : e.born <= spectrumCount
  BY DEF FateInv, BornBefore
<1>9. OpenEvents \cap Ended = {}
  BY DEF FateInv, OneFate
<1>10. (OpenEvents \cap Ended)' = {}
  <2> SUFFICES ASSUME NEW e \in OpenEvents', e \in Ended' PROVE FALSE
    OBVIOUS
  <2>1. e \in OpenEvents \cup Ended
    BY <1>5
  <2>2. e.born <= spectrumCount
    BY <2>1, <1>7, <1>8
  <2>3. e \in OpenEvents \ N
    BY <2>2, <1>6
  <2> QED
    BY <2>3, <1>5, <1>9
<1>11. BornBefore'
  <2> SUFFICES ASSUME NEW e \in OpenEvents' \cup Ended' PROVE e.born <= spectrumCount'
    BY DEF BornBefore
  <2>1. CASE e \in OpenEvents \cup Ended
    <3>1. e.born \in Nat
      <4>1. OpenEvents \cup Ended \in SUBSET Event
        BY OpenEventsType DEF TypeOK, Ended, EventsOf, AwaitingCallback, Completed
      <4> QED
        BY <2>1, <4>1 DEF Event
    <3> QED
      BY <2>1, <3>1, <1>6, <1>7, <1>8
  <2>2. CASE e.born = spectrumCount'
    BY <2>2
  <2> QED
    BY <2>1, <2>2, <1>5
<1>12. (\A d1, d2 \in completed \cup AwaitingCallback : d1.event = d2.event => d1 = d2)'
  <2> SUFFICES ASSUME NEW d1 \in completed \cup AwaitingCallback \cup R,
                      NEW d2 \in completed \cup AwaitingCallback \cup R,
                      d1.event = d2.event
               PROVE  d1 = d2
    OBVIOUS
  <2>1. \A d \in R : d.event \in N
    BY <1>1 DEF EventsOf
  <2>2. \A d \in completed \cup AwaitingCallback : d.event \in Ended
    BY <1>3 DEF EventsOf
  <2>3. CASE d1 \in R /\ d2 \in R
    BY <2>3, CloseSplits
  <2>4. CASE d1 \in completed \cup AwaitingCallback /\ d2 \in completed \cup AwaitingCallback
    BY <2>4 DEF FateInv, OneFate
  <2> QED
    BY <2>1, <2>2, <2>3, <2>4, <1>9
<1>13. EventsOf((completed \cup AwaitingCallback)') \cap (discarded \cup dropped \cup skipped)' = {}
  BY <1>1, <1>2, <1>3, <1>9 DEF FateInv, OneFate
<1>14. EventsOf(completed \cup AwaitingCallback)' \cap (discarded \cup dropped \cup skipped)' = {}
  BY <1>13 DEF EventsOf
<1> QED
  BY <1>10, <1>11, <1>12, <1>14 DEF FateInv, OneFate


\* The events open after a spectrum are the ones it kept and brand-new ones.
LEMMA OpenAfterSpectrum ==
  ASSUME TypeOK, ActiveConfigured, NEW c \in Callers, spectrumCount < MaxSpectra,
         NEW hit \in SUBSET ranges, NEW wide \in SUBSET hit, ProcessOne(c, hit, wide)
  PROVE  \A e \in OpenEvents' :
           e \in OpenEvents \ Fallen(hit) \/ e.born = spectrumCount'
<1> SUFFICES ASSUME NEW r \in DOMAIN active'
             PROVE  active'[r].event \in OpenEvents \ Fallen(hit)
                    \/ active'[r].event.born = spectrumCount'
  BY DEF OpenEvents, EventsIn
<1>1. r \in hit
  BY SpectrumStep
<1>2. CASE r \in DOMAIN active
  <2>1. active'[r].event = active[r].event
    BY <1>1, <1>2, SpectrumStep
  <2>2. active[r].event.range = r
    BY <1>2 DEF TypeOK
  <2>3. \A q \in DOMAIN active \ hit : active[q].event.range = q
    BY DEF TypeOK
  <2>4. active[r].event \notin Fallen(hit)
    BY <1>1, <2>2, <2>3 DEF Fallen, EventsIn
  <2> QED
    BY <1>2, <2>1, <2>4 DEF OpenEvents, EventsIn
<1>3. CASE r \notin DOMAIN active
  <2>1. active'[r].event = NewEvent(r, wide, ClassifyStamp(wide))
    BY <1>1, <1>3, SpectrumStep
  <2>2. r \in Ranges
    BY <1>1 DEF TypeOK
  <2> QED
    BY <2>1, <2>2, NewEventType, SpectrumStep
<1> QED
  BY <1>2, <1>3

LEMMA ProcessFate ==
  ASSUME TypeOK, ActiveConfigured, FateInv, NEW c \in Callers, ProcessSpectrum(c)
  PROVE  FateInv'
<1> PICK hit \in SUBSET ranges : \E wide \in SUBSET hit : ProcessOne(c, hit, wide)
  BY DEF ProcessSpectrum
<1> PICK wide \in SUBSET hit : ProcessOne(c, hit, wide)
  OBVIOUS
<1> DEFINE N == Fallen(hit)
           gone == EventsOf(Reported(N))
<1>1. spectrumCount < MaxSpectra /\ completedPending[c] = {}
  BY DEF ProcessSpectrum, Idle
<1>2. /\ spectrumCount' = spectrumCount + 1
      /\ completedPending' = [completedPending EXCEPT ![c] = Reported(N)]
      /\ discarded' = discarded \cup Rejected(N)
  BY <1>1, SpectrumStep
<1>3. completed' = completed /\ dropped' = dropped /\ skipped' = skipped
  BY DEF ProcessOne
<1>4. AwaitingCallback' = AwaitingCallback \cup Reported(N)
  BY <1>1, <1>2 DEF AwaitingCallback, TypeOK
<1>5. N \in SUBSET OpenEvents
  BY DEF Fallen, EventsIn, OpenEvents
<1>6. spectrumCount' \in Nat /\ spectrumCount' > spectrumCount /\ spectrumCount' >= spectrumCount
  BY <1>2 DEF TypeOK
<1>7. gone \cup Rejected(N) = N /\ gone \cap Rejected(N) = {} /\ N \ gone = Rejected(N)
  BY CloseSplits
<1>8. OpenEvents \cap Ended = {}
  BY DEF FateInv, OneFate
<1>9. \A d \in Reported(N) : d.event \in N
  BY DEF Reported
<1>10. \A d \in completed \cup AwaitingCallback : d.event \in Ended
  BY DEF Ended, EventsOf
<1>11. Reported(N) \cap (completed \cup AwaitingCallback) = {}
  BY <1>5, <1>8, <1>9, <1>10
<1>12. (completed \cap AwaitingCallback)' = {}
  BY <1>3, <1>4, <1>11 DEF FateInv, OneFate
<1>13. (\A b, d \in Callers : b # d => completedPending[b] \cap completedPending[d] = {})'
  BY <1>2, <1>11 DEF FateInv, OneFate, AwaitingCallback, TypeOK
<1>14. discarded' \cap dropped' = {} /\ skipped' \cap (discarded' \cup dropped') = {}
  BY <1>2, <1>3, <1>5, <1>7, <1>8 DEF FateInv, OneFate, Ended
<1>15. (discarded \cup dropped \cup skipped)'
           = discarded \cup dropped \cup skipped \cup (N \ gone)
  BY <1>2, <1>3, <1>7
<1>16. (completed \cup AwaitingCallback)'
         = completed \cup AwaitingCallback \cup (IF gone = {} THEN {} ELSE Reported(N))
  BY <1>3, <1>4 DEF EventsOf
<1>17. \A e \in OpenEvents' :
         e \in OpenEvents \ N \/ (e.born = spectrumCount' /\ spectrumCount' > spectrumCount)
  BY <1>1, <1>6, OpenAfterSpectrum
<1> HIDE DEF N, gone
<1> QED
  BY <1>5, <1>6, <1>12, <1>13, <1>14, <1>15, <1>16, <1>17, FateStep DEF gone

LEMMA CallCompletedFate ==
  ASSUME TypeOK, FateInv, NEW c \in Callers, CallCompleted(c)
  PROVE  FateInv'
<1> PICK d \in completedPending[c] :
         /\ completedPending' = [completedPending EXCEPT ![c] = @ \ {d}]
         /\ completed' = completed \cup {d}
  BY DEF CallCompleted
<1>1. \A b \in Callers : b # c => d \notin completedPending[b]
  BY DEF FateInv, OneFate
<1>2. AwaitingCallback' = AwaitingCallback \ {d}
  BY <1>1 DEF AwaitingCallback, TypeOK
<1>3. d \in AwaitingCallback
  BY DEF AwaitingCallback
<1>4. (completed \cup AwaitingCallback)' = completed \cup AwaitingCallback
  BY <1>2, <1>3
<1>5. UNCHANGED <<active, spectrumCount, discarded, dropped, skipped>>
  BY DEF CallCompleted, detectorState
<1>6. Ended' = Ended
  <2>1. Ended = EventsOf(completed \cup AwaitingCallback) \cup discarded \cup dropped \cup skipped
    BY EventsOfUnion DEF Ended
  <2>2. Ended' = EventsOf(completed' \cup AwaitingCallback') \cup discarded' \cup dropped' \cup skipped'
    BY EventsOfUnion DEF Ended, EventsOf
  <2> QED
    BY <2>1, <2>2, <1>4, <1>5
<1>7. OpenEvents' = OpenEvents
  BY <1>5 DEF OpenEvents, EventsIn
<1>8. (completed \cap AwaitingCallback)' = {}
  BY <1>2 DEF FateInv, OneFate
<1>9. (\A b, e \in Callers : b # e => completedPending[b] \cap completedPending[e] = {})'
  BY DEF FateInv, OneFate, TypeOK
<1>10. EventsOf(completed \cup AwaitingCallback)' = EventsOf(completed \cup AwaitingCallback)
  BY <1>4 DEF EventsOf
<1>11. OneFate'
  BY <1>4, <1>5, <1>6, <1>7, <1>8, <1>9, <1>10 DEF FateInv, OneFate
<1> QED
  BY <1>5, <1>6, <1>7, <1>11 DEF FateInv, BornBefore

\* Closing the events of some ranges leaves the events of the others open.
LEMMA KeptAreOpen ==
  ASSUME TypeOK, NEW K \in SUBSET DOMAIN active, active' = [r \in K |-> active[r]]
  PROVE  \A e \in OpenEvents' : e \in OpenEvents \ EventsIn(DOMAIN active \ K)
<1> SUFFICES ASSUME NEW r \in K
             PROVE  active[r].event \in OpenEvents \ EventsIn(DOMAIN active \ K)
  BY DEF OpenEvents, EventsIn
<1>1. \A q \in DOMAIN active : active[q].event.range = q
  BY DEF TypeOK
<1> QED
  BY <1>1 DEF OpenEvents, EventsIn

LEMMA FlushFate ==
  ASSUME TypeOK, FateInv, NEW S \in SUBSET DOMAIN active, Flush(S)
  PROVE  FateInv'
<1> DEFINE N == EventsIn(S)
           gone == EventsOf(Reported(N))
<1>1. N \in SUBSET OpenEvents
  BY DEF EventsIn, OpenEvents
<1>2. /\ completed' = completed \cup Reported(N)
      /\ discarded' = discarded \cup Rejected(N)
      /\ UNCHANGED <<spectrumCount, dropped, skipped, completedPending>>
  BY DEF Flush, callbackState
<1>3. AwaitingCallback' = AwaitingCallback
  BY <1>2 DEF AwaitingCallback
<1>4. gone \cup Rejected(N) = N /\ gone \cap Rejected(N) = {} /\ N \ gone = Rejected(N)
  BY CloseSplits
<1>5. OpenEvents \cap Ended = {}
  BY DEF FateInv, OneFate
<1>6. Reported(N) \cap AwaitingCallback = {}
  <2>1. \A d \in Reported(N) : d.event \in N
    BY DEF Reported
  <2>2. \A d \in AwaitingCallback : d.event \in Ended
    BY DEF Ended, EventsOf
  <2> QED
    BY <1>1, <1>5, <2>1, <2>2
<1>7. (completed \cap AwaitingCallback)' = {}
  BY <1>2, <1>3, <1>6 DEF FateInv, OneFate
<1>8. (\A b, d \in Callers : b # d => completedPending[b] \cap completedPending[d] = {})'
  BY <1>2 DEF FateInv, OneFate
<1>9. discarded' \cap dropped' = {} /\ skipped' \cap (discarded' \cup dropped') = {}
  BY <1>1, <1>2, <1>4, <1>5 DEF FateInv, OneFate, Ended
<1>10. (discarded \cup dropped \cup skipped)' = discarded \cup dropped \cup skipped \cup (N \ gone)
  BY <1>2, <1>4
<1>11. (completed \cup AwaitingCallback)'
         = completed \cup AwaitingCallback \cup (IF gone = {} THEN {} ELSE Reported(N))
  BY <1>2, <1>3 DEF EventsOf
<1>12. spectrumCount' \in Nat /\ spectrumCount' >= spectrumCount
  BY <1>2 DEF TypeOK
<1>13. \A e \in OpenEvents' :
         e \in OpenEvents \ N \/ (e.born = spectrumCount' /\ spectrumCount' > spectrumCount)
  <2>1. DOMAIN active \ (DOMAIN active \ S) = S
    OBVIOUS
  <2> QED
    BY <2>1, KeptAreOpen DEF Flush
<1> HIDE DEF N, gone
<1> QED
  BY <1>1, <1>7, <1>8, <1>9, <1>10, <1>11, <1>12, <1>13, FateStep DEF gone

LEMMA UpdateRangesFate ==
  ASSUME TypeOK, FateInv, NEW new \in SUBSET Ranges, UpdateRanges(new)
  PROVE  FateInv'
<1> DEFINE N == EventsIn(DOMAIN active \ new)
           gone == {}
<1>1. /\ active' = [r \in DOMAIN active \cap new |-> active[r]]
      /\ discarded' = discarded \cup Rejected(N)
      /\ dropped' = dropped \cup (N \ Rejected(N))
      /\ UNCHANGED <<spectrumCount, completed, skipped, completedPending>>
  BY DEF UpdateRanges, callbackState
<1>2. N \in SUBSET OpenEvents
  BY DEF EventsIn, OpenEvents
<1>3. OpenEvents \cap Ended = {}
  BY DEF FateInv, OneFate
<1>4. Rejected(N) \in SUBSET N
  BY DEF Rejected
<1>5. discarded' \cap dropped' = {} /\ skipped' \cap (discarded' \cup dropped') = {}
  BY <1>1, <1>2, <1>3, <1>4 DEF FateInv, OneFate, Ended
<1>6. (discarded \cup dropped \cup skipped)' = discarded \cup dropped \cup skipped \cup (N \ gone)
  BY <1>1, <1>4
<1>7. AwaitingCallback' = AwaitingCallback
  BY <1>1 DEF AwaitingCallback
<1>8. (completed \cup AwaitingCallback)'
         = completed \cup AwaitingCallback \cup (IF gone = {} THEN {} ELSE Reported(N))
  BY <1>1, <1>7
<1>9. (completed \cap AwaitingCallback)' = {}
  BY <1>1, <1>7 DEF FateInv, OneFate
<1>13. (\A b, d \in Callers : b # d => completedPending[b] \cap completedPending[d] = {})'
  BY <1>1, <1>7 DEF FateInv, OneFate
<1>10. \A e \in OpenEvents' :
         e \in OpenEvents \ N \/ (e.born = spectrumCount' /\ spectrumCount' > spectrumCount)
  <2>1. DOMAIN active \ (DOMAIN active \cap new) = DOMAIN active \ new
    OBVIOUS
  <2> QED
    BY <1>1, <2>1, KeptAreOpen
<1>11. spectrumCount' \in Nat /\ spectrumCount' >= spectrumCount
  BY <1>1 DEF TypeOK
<1>12. gone = {}
  OBVIOUS
<1> HIDE DEF N, gone
<1> QED
  BY <1>2, <1>5, <1>6, <1>8, <1>9, <1>10, <1>11, <1>12, <1>13, FateStep

\* A callback raises, or the last one returns: process_spectrum is left with the events
\* `handed` given to the client and the others of its list never reported.
LEMMA LeftFate ==
  ASSUME TypeOK, FateInv, NEW c \in Callers, NEW handed \in SUBSET completedPending[c],
         completedPending' = [completedPending EXCEPT ![c] = {}],
         completed' = completed \cup handed,
         skipped' = skipped \cup EventsOf(completedPending[c] \ handed),
         UNCHANGED <<active, spectrumCount, discarded, dropped>>
  PROVE  FateInv'
<1> DEFINE rest == completedPending[c] \ handed
           before == completed \cup AwaitingCallback
<1>1. \A b \in Callers : b # c => completedPending[b] \cap completedPending[c] = {}
  BY DEF FateInv, OneFate
<1>2. AwaitingCallback' = AwaitingCallback \ completedPending[c]
      /\ completedPending[c] \in SUBSET AwaitingCallback
  BY <1>1 DEF AwaitingCallback, TypeOK
<1>3. (completed \cup AwaitingCallback)' = before \ rest
  BY <1>2 DEF FateInv, OneFate
<1>4. \A d1, d2 \in before : d1.event = d2.event => d1 = d2
  BY DEF FateInv, OneFate
<1>5. rest \in SUBSET before
  BY <1>2
<1>6. EventsOf(before \ rest) \cap EventsOf(rest) = {}
  BY <1>4, <1>5 DEF EventsOf
<1>7. EventsOf(before) = EventsOf(before \ rest) \cup EventsOf(rest)
  BY <1>5 DEF EventsOf
<1>8. skipped' = skipped \cup EventsOf(rest)
  OBVIOUS
<1>9. UNCHANGED <<active, spectrumCount, discarded, dropped>>
  OBVIOUS
<1>10. EventsOf(before) \cap (discarded \cup dropped \cup skipped) = {}
  BY DEF FateInv, OneFate
<1>11. Ended = EventsOf(before) \cup discarded \cup dropped \cup skipped
  BY EventsOfUnion DEF Ended
<1>12. Ended' = EventsOf((completed \cup AwaitingCallback)') \cup discarded' \cup dropped' \cup skipped'
  BY EventsOfUnion DEF Ended, EventsOf
<1>13. Ended' = Ended
  BY <1>3, <1>7, <1>8, <1>9, <1>11, <1>12
<1>14. OpenEvents' = OpenEvents
  BY <1>9 DEF OpenEvents, EventsIn
<1>15. EventsOf((completed \cup AwaitingCallback)') \cap (discarded \cup dropped \cup skipped)' = {}
  BY <1>3, <1>6, <1>7, <1>8, <1>9, <1>10
<1>16. EventsOf(completed \cup AwaitingCallback)' \cap (discarded \cup dropped \cup skipped)' = {}
  BY <1>15 DEF EventsOf
<1>17. (\A d1, d2 \in completed \cup AwaitingCallback : d1.event = d2.event => d1 = d2)'
  BY <1>3, <1>4
<1>18. (completed \cap AwaitingCallback)' = {}
  BY <1>2 DEF FateInv, OneFate
<1>19. (\A b, e \in Callers : b # e => completedPending[b] \cap completedPending[e] = {})'
  BY DEF FateInv, OneFate, TypeOK
<1>20. discarded' \cap dropped' = {} /\ skipped' \cap (discarded' \cup dropped') = {}
  BY <1>7, <1>8, <1>9, <1>10 DEF FateInv, OneFate
<1>21. OneFate'
  BY <1>13, <1>14, <1>16, <1>17, <1>18, <1>19, <1>20 DEF FateInv, OneFate
<1> QED
  BY <1>9, <1>13, <1>14, <1>21 DEF FateInv, BornBefore

\* A callback for a started or for a completed event raises.
LEMMA RaisesFate ==
  ASSUME TypeOK, FateInv, NEW c \in Callers, OnStartedRaises(c) \/ OnEventRaises(c)
  PROVE  FateInv'
<1>1. CASE OnStartedRaises(c)
  <2>1. /\ completed' = completed \cup {} /\ {} \in SUBSET completedPending[c]
        /\ completedPending' = [completedPending EXCEPT ![c] = {}]
        /\ skipped' = skipped \cup EventsOf(completedPending[c] \ {})
        /\ UNCHANGED <<active, spectrumCount, discarded, dropped>>
    BY <1>1 DEF OnStartedRaises, detectorState, EventsOf
  <2> QED
    BY <2>1, LeftFate
<1>2. CASE OnEventRaises(c)
  <2> PICK d \in completedPending[c] :
           /\ completedPending' = [completedPending EXCEPT ![c] = {}]
           /\ completed' = completed \cup {d}
           /\ skipped' = skipped \cup {r.event : r \in completedPending[c] \ {d}}
    BY <1>2 DEF OnEventRaises
  <2>1. skipped' = skipped \cup EventsOf(completedPending[c] \ {d})
    BY DEF EventsOf
  <2>2. {d} \in SUBSET completedPending[c]
    OBVIOUS
  <2> QED
    BY <1>2, <2>1, <2>2, LeftFate DEF OnEventRaises, detectorState
<1> QED
  BY <1>1, <1>2

LEMMA FateUnchanged ==
  ASSUME FateInv, UNCHANGED <<active, spectrumCount, completed, completedPending,
                              discarded, dropped, skipped>>
  PROVE  FateInv'
<1>1. OpenEvents' = OpenEvents /\ AwaitingCallback' = AwaitingCallback /\ Ended' = Ended
  BY DEF OpenEvents, EventsIn, AwaitingCallback, Ended, EventsOf
<1>2. EventsOf(completed \cup AwaitingCallback)' = EventsOf(completed \cup AwaitingCallback)
  BY <1>1 DEF EventsOf
<1> QED
  BY <1>1, <1>2 DEF FateInv, OneFate, BornBefore

LEMMA NextFate ==
  TypeOK /\ ActiveConfigured /\ FateInv /\ [Next]_detectorVars => FateInv'
<1> SUFFICES ASSUME TypeOK, ActiveConfigured, FateInv, [Next]_detectorVars
             PROVE  FateInv'
  OBVIOUS
<1>1. Tick \/ ClockSetBack \/ (\E c \in Callers : CallStarted(c)) \/ UNCHANGED detectorVars
        => UNCHANGED <<active, spectrumCount, completed, completedPending, discarded, dropped, skipped>>
  BY DEF Tick, ClockSetBack, CallStarted, detectorVars, detectorState, callbackState, history
<1> QED
  BY <1>1, FateUnchanged, ProcessFate, CallCompletedFate, RaisesFate, FlushFate,
     UpdateRangesFate DEF Next

\* Every event meets exactly one fate, whatever the interleaving of spectra,
\* callbacks, flush and update_ranges: on_event is called at most once for it.
THEOREM EveryEventHasOneFate == Spec => []OneFate
<1>1. Init => FateInv
  <2> SUFFICES ASSUME Init PROVE FateInv
    OBVIOUS
  <2>1. OpenEvents = {} /\ AwaitingCallback = {} /\ Ended = {}
    BY DEF Init, OpenEvents, EventsIn, AwaitingCallback, Ended, EventsOf
  <2> QED
    BY <2>1 DEF Init, FateInv, OneFate, BornBefore, EventsOf
<1>2. FateInv => OneFate
  BY DEF FateInv
<1> QED
  BY <1>1, <1>2, NextFate, TypeCorrect, PTL DEF Spec

=============================================================================
