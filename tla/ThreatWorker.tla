----------------------------- MODULE ThreatWorker -----------------------------
(***************************************************************************)
(* src/src/sdr_worker.py: the loop of the field worker.  An iteration      *)
(* reads one channel; the iteration that completes a scan cycle decides    *)
(* the threat status, announces a change in Telegram, and every iteration  *)
(* then posts an alert to the notification gateway and telemetry to the    *)
(* backend when they are due.                                              *)
(*                                                                         *)
(* Levels are whole percents and the smoothing factor a fraction, so the   *)
(* smoothed level is rounded down; what the detectors of a band see in a   *)
(* spectrum is one of three signals: nothing, a peak above the normal      *)
(* threshold (for video, a wide enough occupied band), or a strong peak.   *)
(* Times are kept as ages in ticks, which need not grow beyond the         *)
(* interval they are compared with, so that no behaviour is cut short.     *)
(***************************************************************************)
EXTENDS Integers, FiniteSets, Functions

CONSTANTS
  Freqs,             \* frequencies of the channels
  NChannels,         \* len(SCAN_CHANNELS)
  FreqOf,            \* FreqOf[i]: the frequency of channel i
  DetectorOf,        \* DetectorOf[f]: detector_type of the band of f, or "none"
  Levels,            \* the levels _read_rf_level is given
  AlphaNum, AlphaDen,            \* THREAT_EMA_ALPHA
  WarnOn, WarnOff, CritOn, CritOff,  \* the levels of _next_stable_status
  Confirm,           \* STATUS_CONFIRM_CYCLES
  PeakLevel,         \* NARROWBAND_PEAK_THREAT_LEVEL
  ElrsWindow,        \* ELRS_EVENT_WINDOW_SECONDS
  ElrsWarn, ElrsCrit,            \* ELRS_WARNING_EVENTS, ELRS_CRITICAL_EVENTS
  StrongImmediate,   \* ELRS_STRONG_PEAK_IMMEDIATE
  VideoConfirm,      \* VIDEO_CONFIRM_CYCLES
  Retry,             \* NOTIFICATION_GATEWAY_RETRY_SECONDS
  PostInterval,      \* TELEMETRY_POST_INTERVAL_SECONDS
  MaxBack,           \* bound: the wall clock is set back by at most this
  MaxConfirmCount,   \* bound: confirm_count of the video detector
  MayRestart         \* whether the service may be restarted

\* A level is at most 100.
Percent == 0 .. 100

ASSUME WorkerConstants ==
  /\ NChannels \in Nat \ {0} /\ FreqOf \in [0 .. NChannels - 1 -> Freqs]
  /\ \A f \in Freqs : \E i \in 0 .. NChannels - 1 : FreqOf[i] = f
  /\ DetectorOf \in [Freqs -> {"none", "elrs", "video"}]
  /\ Levels \subseteq Percent
  /\ AlphaNum \in Nat /\ AlphaDen \in Nat \ {0} /\ AlphaNum <= AlphaDen
  /\ {WarnOn, WarnOff, CritOn, CritOff, PeakLevel} \subseteq Percent
  /\ WarnOff < WarnOn /\ CritOff < CritOn /\ WarnOn <= CritOn
  /\ {Confirm, ElrsWarn, ElrsCrit, VideoConfirm} \subseteq Nat \ {0}
  /\ {ElrsWindow, Retry, PostInterval, MaxBack, MaxConfirmCount} \subseteq Nat
  /\ {StrongImmediate, MayRestart} \subseteq BOOLEAN

VARIABLES
  pc,              \* the next part of the iteration: read, gateway, telemetry
  sdr,             \* whether there is a device
  channel,         \* channel_idx
  cycleLevels,     \* cycle_levels, NoLevel for a frequency not yet read
  cycleDetection,  \* status of cycle_detection, OK for None
  stable,          \* stable_level
  status,          \* last_status
  pending,         \* status_pending_cycles
  events,          \* elrs state: events[a] peaks were seen a ticks ago
  confirmCount,    \* video state: confirm_count
  alertAge,        \* time.time() - last_gateway_alert_at, or NoAlert
  postAge,         \* time.monotonic() - last_telemetry_post_at
  shown            \* the status the backend was last told

radioVars == <<sdr, channel, cycleLevels, cycleDetection>>
detectorVars == <<events, confirmCount>>
statusVars == <<stable, status, pending>>
vars == <<pc, radioVars, detectorVars, statusVars, alertAge, postAge, shown>>

NoLevel == -1
NoAlert == Retry + 1
Statuses == {"OK", "WARNING", "CRITICAL"}
\* What a detector makes of the spectrum of its band.
Signals == {"none", "peak", "strong"}

Smaller(a, b) == IF a < b THEN a ELSE b
Larger(a, b) == IF a < b THEN b ELSE a

-----------------------------------------------------------------------------
(* The detectors of the two bands.  A result is the status it asks for.    *)

\* threat_level of a result.
ThreatLevel(s) ==
  CASE s = "CRITICAL" -> PeakLevel
    [] s = "WARNING" -> WarnOn
    [] OTHER -> 0

Rank(s) == CASE s = "CRITICAL" -> 2 [] s = "WARNING" -> 1 [] OTHER -> 0

Verdict(critical, warning) ==
  IF critical THEN "CRITICAL" ELSE IF warning THEN "WARNING" ELSE "OK"

\* The peaks of the last ElrsWindow ticks; more than ElrsCrit of one age
\* make no difference.
WithPeak(signal) ==
  IF signal = "none" THEN events
  ELSE [events EXCEPT ![0] = Smaller(@ + 1, ElrsCrit)]

ElrsVerdict(seen, signal) ==
  LET count == SumFunction(seen)
      critical == count >= ElrsCrit \/ (StrongImmediate /\ signal = "strong")
  IN  Verdict(critical, count >= ElrsWarn)

WithCandidate(signal) ==
  IF signal # "none" THEN confirmCount + 1
  ELSE IF confirmCount > 0 THEN confirmCount - 1 ELSE 0

VideoVerdict(count) == Verdict(count >= VideoConfirm, count > 0)

Stronger(current, candidate) ==
  IF /\ candidate # "OK"
     /\ \/ current = "OK"
        \/ Rank(candidate) > Rank(current)
        \/ ThreatLevel(candidate) > ThreatLevel(current)
  THEN candidate
  ELSE current

-----------------------------------------------------------------------------
(* The decision at the end of a cycle *)

Smooth(previous, level) ==
  IF previous = 0 THEN level
  ELSE (previous * (AlphaDen - AlphaNum) + level * AlphaNum) \div AlphaDen

\* The status _next_stable_status moves towards at a smoothed level, or the
\* current one.
Aim(current, level) ==
  CASE current = "CRITICAL" /\ level <= CritOff -> "WARNING"
    [] current = "WARNING" /\ level >= CritOn -> "CRITICAL"
    [] current = "WARNING" /\ level <= WarnOff -> "OK"
    [] current = "OK" /\ level >= CritOn -> "CRITICAL"
    [] current = "OK" /\ level < CritOn /\ level >= WarnOn -> "WARNING"
    [] OTHER -> current

Confirmed(current, level, cycles) ==
  Aim(current, level) # current /\ cycles + 1 >= Confirm

NextStatus(current, level, cycles) ==
  IF Confirmed(current, level, cycles) THEN Aim(current, level) ELSE current

NextPending(current, level, cycles) ==
  IF Aim(current, level) = current \/ Confirmed(current, level, cycles)
  THEN 0
  ELSE cycles + 1

\* What main says in Telegram about a change of status; a message that cannot be sent is
\* given up (send_telegram_alert) and never sent again.
Announcement(from, to) ==
  CASE to = from -> "nothing"
    [] to # from /\ to = "CRITICAL" -> "alert"
    [] from = "CRITICAL" /\ to = "WARNING" -> "reduced"
    [] from = "CRITICAL" /\ to = "OK" -> "over"
    [] from = "WARNING" /\ to = "OK" -> "calm"
    [] OTHER -> "nothing"

\* Mutant: a detection decides the status and not the level.
Decide_LevelOnly(level, detection) ==
  /\ IF detection # "OK"
     THEN stable' = level /\ status' = detection /\ pending' = 0
     ELSE /\ stable' = Smooth(stable, level)
          /\ status' = NextStatus(status, Smooth(stable, level), pending)
          /\ pending' = NextPending(status, Smooth(stable, level), pending)

Decide(level, detection) ==
  /\ IF detection # "OK"
     THEN LET on == IF detection = "CRITICAL" THEN CritOn ELSE WarnOn
          IN  /\ stable' = Larger(level, Larger(ThreatLevel(detection), on))
              /\ status' = detection
              /\ pending' = 0
     ELSE /\ stable' = Smooth(stable, level)
          /\ status' = NextStatus(status, Smooth(stable, level), pending)
          /\ pending' = NextPending(status, Smooth(stable, level), pending)

-----------------------------------------------------------------------------
(* The iteration *)

NextChannel == channel' = (channel + 1) % NChannels

NothingRead == [f \in Freqs |-> NoLevel]
NoEvents == [a \in 0 .. ElrsWindow |-> 0]

\* last_telemetry_post_at = 0.0 lies as far back as the host has been up.
Init ==
  /\ pc = "read" /\ sdr \in BOOLEAN /\ channel = 0
  /\ cycleLevels = NothingRead /\ cycleDetection = "OK"
  /\ stable = 0 /\ status = "OK" /\ pending = 0
  /\ events = NoEvents /\ confirmCount = 0
  /\ alertAge = NoAlert /\ postAge \in 0 .. PostInterval
  /\ shown = "OK"

\* No device: wait and try again; a channel is skipped.
OpenSdr(opens) ==
  /\ pc = "read" /\ ~sdr
  /\ sdr' = opens
  /\ NextChannel
  /\ UNCHANGED <<pc, cycleLevels, cycleDetection, detectorVars, statusVars,
                 alertAge, postAge, shown>>

\* Tuning or reading raises: the device is closed and the channel skipped.
ReadFails ==
  /\ pc = "read" /\ sdr
  /\ sdr' = FALSE
  /\ NextChannel
  /\ UNCHANGED <<pc, cycleLevels, cycleDetection, detectorVars, statusVars,
                 alertAge, postAge, shown>>

\* The detector of the band of frequency f sees signal; d is its result.  A spectrum that
\* cannot be computed is not looked at.
Detect(f, signal, d) ==
  \/ DetectorOf[f] # "none" /\ signal = "none" /\ d = "OK" /\ UNCHANGED detectorVars
  \/ CASE DetectorOf[f] = "elrs" ->
            /\ events' = WithPeak(signal)
            /\ d = ElrsVerdict(WithPeak(signal), signal)
            /\ UNCHANGED confirmCount
       [] DetectorOf[f] = "video" ->
            /\ WithCandidate(signal) <= MaxConfirmCount
            /\ confirmCount' = WithCandidate(signal)
            /\ d = VideoVerdict(WithCandidate(signal))
            /\ UNCHANGED events
       [] OTHER -> signal = "none" /\ d = "OK" /\ UNCHANGED detectorVars

\* The reading with this one added to it.
WithReading(f, level) == [cycleLevels EXCEPT ![f] = level]

\* The frequency of the highest level, any of them in a tie.
Dominant(levels) ==
  {f \in Freqs : \A g \in Freqs : levels[g] <= levels[f]}

Read(level, signal) ==
  LET f == FreqOf[channel] IN
  /\ pc = "read" /\ sdr
  /\ \E d \in Statuses :
       LET rfLevel == Larger(level, ThreatLevel(d))
           levels == WithReading(f, rfLevel)
           detection == Stronger(cycleDetection, d)
           read == {g \in Freqs : levels[g] # NoLevel}
       IN  /\ Detect(f, signal, d)
           /\ IF Cardinality(read) >= NChannels
              THEN /\ \E g \in Dominant(levels) : Decide(levels[g], detection)
                   /\ cycleLevels' = NothingRead
                   /\ cycleDetection' = "OK"
              ELSE /\ cycleLevels' = levels
                   /\ cycleDetection' = detection
                   /\ UNCHANGED statusVars
  /\ NextChannel
  /\ pc' = "gateway"
  /\ UNCHANGED <<sdr, alertAge, postAge, shown>>

\* Mutant: one alert and no more.
AlertDue_Once == stable >= CritOn /\ alertAge = NoAlert

AlertDue ==
  stable >= CritOn /\ (alertAge = NoAlert \/ alertAge >= Retry)

\* send_notification_alert: an answer counts as sent even if it says that the
\* alert was not accepted; an HTTP error or no answer does not.
PostAlert(answered) ==
  /\ pc = "gateway" /\ AlertDue
  /\ alertAge' = IF answered THEN 0 ELSE alertAge
  /\ pc' = "telemetry"
  /\ UNCHANGED <<radioVars, detectorVars, statusVars, postAge, shown>>

NoPostAlert ==
  /\ pc = "gateway" /\ ~AlertDue
  /\ pc' = "telemetry"
  /\ UNCHANGED <<radioVars, detectorVars, statusVars, alertAge, postAge, shown>>

TelemetryDue == PostInterval = 0 \/ postAge >= PostInterval

PostTelemetry(arrives) ==
  /\ pc = "telemetry" /\ TelemetryDue
  /\ postAge' = 0
  /\ shown' = IF arrives THEN status ELSE shown
  /\ pc' = "read"
  /\ UNCHANGED <<radioVars, detectorVars, statusVars, alertAge>>

\* Mutant: the time is noted although nothing is posted.
NoPostTelemetry_Stamps ==
  /\ pc = "telemetry" /\ ~TelemetryDue
  /\ postAge' = 0
  /\ pc' = "read"
  /\ UNCHANGED <<radioVars, detectorVars, statusVars, alertAge, shown>>

NoPostTelemetry ==
  /\ pc = "telemetry" /\ ~TelemetryDue
  /\ pc' = "read"
  /\ UNCHANGED <<radioVars, detectorVars, statusVars, alertAge, postAge, shown>>

-----------------------------------------------------------------------------
(* Time and restarts *)

Tick ==
  /\ events' = [a \in 0 .. ElrsWindow |-> IF a = 0 THEN 0 ELSE events[a - 1]]
  /\ alertAge' = IF alertAge < Retry THEN alertAge + 1 ELSE alertAge
  /\ postAge' = IF postAge < PostInterval THEN postAge + 1 ELSE postAge
  /\ UNCHANGED <<pc, radioVars, confirmCount, statusVars, shown>>

\* The alert is timed with time.time(), which can be set back.
ClockSetBack ==
  /\ alertAge # NoAlert
  /\ \E age \in -MaxBack .. alertAge - 1 : alertAge' = age
  /\ UNCHANGED <<pc, radioVars, detectorVars, statusVars, postAge, shown>>

\* Restart=always of the service; the time since boot only grows.
Restart ==
  /\ MayRestart
  /\ pc' = "read" /\ sdr' \in BOOLEAN /\ channel' = 0
  /\ cycleLevels' = NothingRead /\ cycleDetection' = "OK"
  /\ stable' = 0 /\ status' = "OK" /\ pending' = 0
  /\ events' = NoEvents /\ confirmCount' = 0
  /\ alertAge' = NoAlert /\ postAge' \in postAge .. PostInterval
  /\ UNCHANGED shown

Iterate ==
  \/ \E opens \in BOOLEAN : OpenSdr(opens)
  \/ ReadFails
  \/ \E level \in Levels, signal \in Signals : Read(level, signal)
  \/ \E answered \in BOOLEAN : PostAlert(answered)
  \/ NoPostAlert
  \/ \E arrives \in BOOLEAN : PostTelemetry(arrives)
  \/ NoPostTelemetry

Next == Iterate \/ Tick \/ ClockSetBack \/ Restart

Spec == Init /\ [][Next]_vars

-----------------------------------------------------------------------------
(* Correctness *)

\* Every variable has its type; a status is never waited for longer than
\* STATUS_CONFIRM_CYCLES (_next_stable_status).
TypeOK ==
  /\ pc \in {"read", "gateway", "telemetry"} /\ sdr \in BOOLEAN
  /\ channel \in 0 .. NChannels - 1
  /\ cycleLevels \in [Freqs -> Percent \cup {NoLevel}]
  /\ {cycleDetection, status, shown} \subseteq Statuses
  /\ stable \in Percent
  /\ pending \in 0 .. Confirm - 1
  /\ events \in [0 .. ElrsWindow -> 0 .. ElrsCrit]
  /\ confirmCount \in 0 .. MaxConfirmCount
  /\ alertAge \in -MaxBack .. NoAlert /\ postAge \in 0 .. PostInterval

\* Whatever mixture of levels and detections decided the cycles: a CRITICAL
\* nobody is about to leave stands on a level above the one that ends it, and
\* an OK nobody is about to leave on a level below the one that begins a
\* warning (_next_stable_status and the branches of main that set the level).
StatusMatchesLevel ==
  pending = 0 =>
    /\ status = "CRITICAL" => stable > CritOff
    /\ status = "OK" => stable < WarnOn

\* "The threat is over" is never said: a threat is first reduced to WARNING, and what
\* follows is "all calm" (the messages of main).
OverIsNeverSaid == [][Restart \/ Announcement(status, status') # "over"]_vars

-----------------------------------------------------------------------------
(* Liveness.  The loop never waits for anybody, so it takes its steps, and  *)
(* time passes.  Of the outside, only this is assumed: the device can be    *)
(* opened and each channel read again and again, and the services answer    *)
(* again and again.                                                         *)

ReadOn(c) ==
  channel = c /\ \E level \in Levels, signal \in Signals : Read(level, signal)

Fairness ==
  /\ WF_vars(Iterate) /\ WF_vars(Tick)
  /\ SF_vars(OpenSdr(TRUE))
  /\ \A c \in 0 .. NChannels - 1 : SF_vars(ReadOn(c))
  /\ SF_vars(PostAlert(TRUE)) /\ SF_vars(PostTelemetry(TRUE))

FairSpec == Spec /\ Fairness

\* The service is not restarted for ever.
StaysUp == <>[][~Restart]_vars

\* While the level stays critical the gateway is told again and again, as
\* long as the wall clock is not set back for ever.
AlertsRepeat ==
  /\ StaysUp
  /\ <>[](stable >= CritOn)
  /\ <>[][~ClockSetBack]_vars
  => []<><<PostAlert(TRUE)>>_vars

\* A status that lasts reaches the backend, although telemetry is limited to
\* one post in PostInterval and a failed post is not repeated.
BackendCatchesUp ==
  StaysUp /\ <>[][UNCHANGED status]_vars => <>[](shown = status)
===============================================================================
