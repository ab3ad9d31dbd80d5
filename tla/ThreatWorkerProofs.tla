-------------------------- MODULE ThreatWorkerProofs --------------------------
(***************************************************************************)
(* Proofs about ThreatWorker, for every choice of channels, levels,        *)
(* smoothing and thresholds that WorkerConstants allows.                   *)
(***************************************************************************)
EXTENDS ThreatWorker, TLAPS

-----------------------------------------------------------------------------
(* Levels *)

\* The exponential smoothing of main stays on the scale.
LEMMA SmoothType ==
  ASSUME NEW p \in Percent, NEW l \in Percent
  PROVE  Smooth(p, l) \in Percent
<1> DEFINE D == AlphaDen
           N == AlphaNum
           x == p * (D - N) + l * N
<1>1. D \in Nat /\ D > 0 /\ N \in Nat /\ N <= D
  BY WorkerConstants
<1>2. D - N \in Nat /\ p \in 0 .. 100 /\ l \in 0 .. 100
  BY <1>1 DEF Percent
<1>3. \A a \in 0 .. 100, b \in Nat : a * b \in Nat /\ a * b <= 100 * b
  OBVIOUS
<1>4. /\ p * (D - N) \in Nat /\ p * (D - N) <= 100 * (D - N)
      /\ l * N \in Nat /\ l * N <= 100 * N
  <2> HIDE DEF D, N
  <2> QED BY <1>1, <1>2, <1>3
<1>5. x \in Nat /\ x <= 100 * D
  <2> HIDE DEF D, N
  <2> QED BY <1>1, <1>2, <1>4
<1>6. \A y \in Nat, d \in Nat \ {0} : y <= 100 * d => y \div d \in 0 .. 100
  OBVIOUS
<1>7. x \div D \in 0 .. 100
  <2> HIDE DEF D, x
  <2> QED BY <1>1, <1>5, <1>6
<1> QED BY <1>7 DEF Smooth, Percent

LEMMA LargerType ==
  ASSUME NEW a \in Percent, NEW b \in Percent
  PROVE  Larger(a, b) \in Percent /\ Larger(a, b) >= a /\ Larger(a, b) >= b
BY DEF Larger, Percent

LEMMA ThreatLevelType ==
  ASSUME NEW s \in Statuses
  PROVE  ThreatLevel(s) \in Percent
BY WorkerConstants DEF ThreatLevel, Percent, Statuses

\* The thresholds as numbers.
LEMMA Thresholds ==
  /\ WarnOff \in Percent /\ WarnOn \in Percent
  /\ CritOff \in Percent /\ CritOn \in Percent
  /\ WarnOff < WarnOn /\ CritOff < CritOn /\ WarnOn <= CritOn
BY WorkerConstants

-----------------------------------------------------------------------------
(* The decision of a cycle *)

\* What _next_stable_status answers.
LEMMA NextStatusType ==
  ASSUME NEW s \in Statuses, NEW level \in Percent, NEW cycles \in 0 .. Confirm - 1
  PROVE  /\ NextStatus(s, level, cycles) \in Statuses
         /\ NextPending(s, level, cycles) \in 0 .. Confirm - 1
         /\ s = "CRITICAL" => NextStatus(s, level, cycles) # "OK"
<1>1. Aim(s, level) \in Statuses
  BY DEF Aim, Statuses
<1>2. s = "CRITICAL" => Aim(s, level) # "OK"
  BY DEF Aim
<1>3. Confirm \in Nat /\ Confirm > 0
  BY WorkerConstants
<1> QED
  BY <1>1, <1>2, <1>3 DEF NextStatus, NextPending, Confirmed

\* The status a level asks for, or leaves as it is, fits that level.
LEMMA AimFits ==
  ASSUME NEW s \in Statuses, NEW level \in Percent
  PROVE  /\ Aim(s, level) = "CRITICAL" => level > CritOff
         /\ Aim(s, level) = "OK" => level < WarnOn
<1>1. level \in Int /\ WarnOff \in Int /\ WarnOn \in Int /\ CritOff \in Int /\ CritOn \in Int
      /\ WarnOff < WarnOn /\ CritOff < CritOn /\ WarnOn <= CritOn
  BY Thresholds DEF Percent
<1>2. CASE s = "CRITICAL"
  <2>1. Aim(s, level) = IF level <= CritOff THEN "WARNING" ELSE "CRITICAL"
    BY <1>2 DEF Aim
  <2> QED BY <2>1, <1>1
<1>3. CASE s = "WARNING"
  <2>1. Aim(s, level) = IF level >= CritOn THEN "CRITICAL"
                        ELSE IF level <= WarnOff THEN "OK" ELSE "WARNING"
    BY <1>1, <1>3 DEF Aim
  <2> QED BY <2>1, <1>1
<1>4. CASE s = "OK"
  <2>1. Aim(s, level) = IF level >= CritOn THEN "CRITICAL"
                        ELSE IF level >= WarnOn THEN "WARNING" ELSE "OK"
    BY <1>1, <1>4 DEF Aim
  <2> QED BY <2>1, <1>1
<1> QED BY <1>2, <1>3, <1>4 DEF Statuses

\* A status that has no pending change fits the level that decided it.
LEMMA NextStatusFits ==
  ASSUME NEW s \in Statuses, NEW level \in Percent, NEW cycles \in 0 .. Confirm - 1,
         NextPending(s, level, cycles) = 0
  PROVE  /\ NextStatus(s, level, cycles) = "CRITICAL" => level > CritOff
         /\ NextStatus(s, level, cycles) = "OK" => level < WarnOn
<1>1. Confirm \in Nat /\ cycles \in Nat /\ cycles + 1 # 0
  BY WorkerConstants
<1>2. NextStatus(s, level, cycles) = Aim(s, level)
  BY <1>1 DEF NextStatus, NextPending
<1> QED BY <1>2, AimFits

\* The type of what a decision leaves, the fit of status and level, and that a threat does
\* not end at once.
LEMMA DecideLemma ==
  ASSUME TypeOK, NEW level \in Percent, NEW detection \in Statuses,
         Decide(level, detection)
  PROVE  /\ stable' \in Percent /\ status' \in Statuses
         /\ pending' \in 0 .. Confirm - 1
         /\ StatusMatchesLevel'
         /\ status = "CRITICAL" => status' # "OK"
<1>1. /\ stable' \in Percent /\ status' \in Statuses
      /\ pending' \in 0 .. Confirm - 1
      /\ StatusMatchesLevel'
      /\ status = "CRITICAL" => status' # "OK"
  <2>1. CASE detection # "OK"
    <3> DEFINE on == IF detection = "CRITICAL" THEN CritOn ELSE WarnOn
    <3>1. on \in Percent /\ ThreatLevel(detection) \in Percent
      BY Thresholds, ThreatLevelType
    <3>2. Larger(ThreatLevel(detection), on) \in Percent
          /\ Larger(ThreatLevel(detection), on) >= on
      <4> HIDE DEF on
      <4> QED BY <3>1, LargerType
    <3>3. /\ stable' = Larger(level, Larger(ThreatLevel(detection), on))
          /\ status' = detection /\ pending' = 0
      BY <2>1 DEF Decide
    <3>4. stable' \in Percent /\ stable' >= on
      <4>1. /\ stable' \in Percent
            /\ stable' >= Larger(ThreatLevel(detection), on)
        <5> HIDE DEF on
        <5> QED BY <3>2, <3>3, LargerType
      <4> HIDE DEF on
      <4> QED BY <4>1, <3>1, <3>2 DEF Percent
    <3>5. status' = "CRITICAL" => stable' > CritOff
      BY <3>3, <3>4, Thresholds DEF Percent
    <3>6. 0 \in 0 .. Confirm - 1
      BY WorkerConstants
    <3> QED BY <2>1, <3>3, <3>4, <3>5, <3>6 DEF StatusMatchesLevel
  <2>2. CASE detection = "OK"
    <3>1. /\ stable' = Smooth(stable, level)
          /\ status' = NextStatus(status, stable', pending)
          /\ pending' = NextPending(status, stable', pending)
      BY <2>2 DEF Decide
    <3>2. stable' \in Percent
      BY <3>1, SmoothType DEF TypeOK
    <3>3. status \in Statuses /\ pending \in 0 .. Confirm - 1
      BY DEF TypeOK
    <3>4. /\ status' \in Statuses /\ pending' \in 0 .. Confirm - 1
          /\ status = "CRITICAL" => status' # "OK"
      BY <3>1, <3>2, <3>3, NextStatusType
    <3>5. StatusMatchesLevel'
      BY <3>1, <3>2, <3>3, NextStatusFits DEF StatusMatchesLevel
    <3> QED BY <3>2, <3>4, <3>5
  <2> QED BY <2>1, <2>2
<1> QED BY <1>1

-----------------------------------------------------------------------------
(* The iteration *)

\* The bands' detectors keep the type of their state.
LEMMA DetectType ==
  ASSUME TypeOK, NEW f, NEW signal, NEW d, Detect(f, signal, d)
  PROVE  /\ events' \in [0 .. ElrsWindow -> 0 .. ElrsCrit]
         /\ confirmCount' \in 0 .. MaxConfirmCount
<1>1. /\ events \in [0 .. ElrsWindow -> 0 .. ElrsCrit]
      /\ confirmCount \in 0 .. MaxConfirmCount
      /\ MaxConfirmCount \in Nat /\ ElrsCrit \in Nat /\ ElrsWindow \in Nat
  BY WorkerConstants DEF TypeOK
<1>2. WithPeak(signal) \in [0 .. ElrsWindow -> 0 .. ElrsCrit]
  BY <1>1 DEF WithPeak, Smaller
<1>3. WithCandidate(signal) \in Nat
  BY <1>1 DEF WithCandidate
<1>4. CASE DetectorOf[f] = "elrs"
  BY <1>1, <1>2, <1>4 DEF Detect, detectorVars
<1>5. CASE DetectorOf[f] = "video"
  BY <1>1, <1>3, <1>5 DEF Detect, detectorVars
<1>6. CASE DetectorOf[f] # "elrs" /\ DetectorOf[f] # "video"
  BY <1>1, <1>6 DEF Detect, detectorVars
<1> QED BY <1>4, <1>5, <1>6

LEMMA StrongerType ==
  ASSUME NEW a \in Statuses, NEW b \in Statuses
  PROVE  Stronger(a, b) \in Statuses
BY DEF Stronger

\* The next channel is a channel.
LEMMA ChannelType ==
  ASSUME TypeOK, NextChannel
  PROVE  channel' \in 0 .. NChannels - 1
<1>1. NChannels \in Nat /\ NChannels > 0 /\ channel \in Nat
  BY WorkerConstants DEF TypeOK
<1>2. \A a \in Nat, b \in Nat \ {0} : a % b \in 0 .. b - 1
  OBVIOUS
<1> QED BY <1>1, <1>2 DEF NextChannel

\* Everything a reading may change.
LEMMA ReadLemma ==
  ASSUME TypeOK, StatusMatchesLevel,
         NEW level \in Percent, NEW signal, Read(level, signal)
  PROVE  /\ TypeOK' /\ StatusMatchesLevel'
         /\ status = "CRITICAL" => status' # "OK"
<1> DEFINE f == FreqOf[channel]
<1>1. /\ f \in Freqs
      /\ channel' \in 0 .. NChannels - 1
      /\ pc' = "gateway" /\ UNCHANGED <<sdr, alertAge, postAge, shown>>
  BY WorkerConstants, ChannelType DEF TypeOK, Read
<1>2. PICK d \in Statuses :
        LET rfLevel == Larger(level, ThreatLevel(d))
            levels == WithReading(f, rfLevel)
            detection == Stronger(cycleDetection, d)
            read == {g \in Freqs : levels[g] # NoLevel}
        IN  /\ Detect(f, signal, d)
            /\ IF Cardinality(read) >= NChannels
               THEN /\ \E g \in Dominant(levels) : Decide(levels[g], detection)
                    /\ cycleLevels' = NothingRead
                    /\ cycleDetection' = "OK"
               ELSE /\ cycleLevels' = levels
                    /\ cycleDetection' = detection
                    /\ UNCHANGED statusVars
  BY DEF Read
<1> DEFINE rfLevel == Larger(level, ThreatLevel(d))
           levels == WithReading(f, rfLevel)
           detection == Stronger(cycleDetection, d)
           read == {g \in Freqs : levels[g] # NoLevel}
<1>3. rfLevel \in Percent /\ detection \in Statuses
  BY ThreatLevelType, LargerType, StrongerType DEF TypeOK
<1>4. levels \in [Freqs -> Percent \cup {NoLevel}]
  <2> HIDE DEF f, rfLevel
  <2> QED BY <1>1, <1>3 DEF WithReading, TypeOK
<1>5. /\ events' \in [0 .. ElrsWindow -> 0 .. ElrsCrit]
      /\ confirmCount' \in 0 .. MaxConfirmCount
  BY <1>2, DetectType
<1>6. CASE Cardinality(read) >= NChannels
  <2>1. PICK g \in Dominant(levels) : Decide(levels[g], detection)
    BY <1>2, <1>6
  <2>2. cycleLevels' = NothingRead /\ cycleDetection' = "OK"
    BY <1>2, <1>6
  <2>3. g \in Freqs /\ levels[g] >= levels[f]
    BY <2>1, <1>1, <1>4 DEF Dominant, Percent, NoLevel
  <2>4. levels[f] = rfLevel
    BY <1>1 DEF WithReading, TypeOK
  <2>5. levels[g] \in Percent
    <3> HIDE DEF levels, rfLevel, f
    <3> QED BY <2>3, <2>4, <1>3, <1>4 DEF Percent, NoLevel
  <2>6. /\ stable' \in Percent /\ status' \in Statuses
        /\ pending' \in 0 .. Confirm - 1
        /\ StatusMatchesLevel'
        /\ status = "CRITICAL" => status' # "OK"
    <3> HIDE DEF levels, detection
    <3> QED BY <2>1, <2>5, <1>3, DecideLemma
  <2>7. TypeOK'
    BY <1>1, <1>5, <2>2, <2>6 DEF TypeOK, NothingRead, Statuses
  <2> QED BY <2>6, <2>7
<1>7. CASE ~(Cardinality(read) >= NChannels)
  <2>1. cycleLevels' = levels /\ cycleDetection' = detection /\ UNCHANGED statusVars
    BY <1>2, <1>7
  <2>2. TypeOK'
    <3> HIDE DEF levels, detection
    <3> QED BY <1>1, <1>3, <1>4, <1>5, <2>1 DEF TypeOK, statusVars
  <2>3. /\ StatusMatchesLevel'
        /\ status = "CRITICAL" => status' # "OK"
    BY <2>1 DEF StatusMatchesLevel, statusVars
  <2> QED BY <2>2, <2>3
<1> QED BY <1>6, <1>7

\* The other steps of the iteration and of time leave the status alone.
OtherStep ==
  \/ \E opens \in BOOLEAN : OpenSdr(opens)
  \/ ReadFails
  \/ \E answered \in BOOLEAN : PostAlert(answered)
  \/ NoPostAlert
  \/ \E arrives \in BOOLEAN : PostTelemetry(arrives)
  \/ NoPostTelemetry
  \/ Tick
  \/ ClockSetBack
  \/ UNCHANGED vars

LEMMA OtherLemma ==
  ASSUME TypeOK, OtherStep
  PROVE  TypeOK' /\ UNCHANGED statusVars
<1>1. /\ Retry \in Nat /\ PostInterval \in Nat /\ MaxBack \in Nat
      /\ ElrsWindow \in Nat /\ ElrsCrit \in Nat
  BY WorkerConstants
<1>2. ASSUME NEW opens \in BOOLEAN, OpenSdr(opens)
      PROVE  TypeOK' /\ UNCHANGED statusVars
  BY <1>2, ChannelType DEF OpenSdr, TypeOK, detectorVars, statusVars
<1>3. CASE ReadFails
  BY <1>3, ChannelType DEF ReadFails, TypeOK, detectorVars, statusVars
<1>4. ASSUME NEW answered \in BOOLEAN, PostAlert(answered)
      PROVE  TypeOK' /\ UNCHANGED statusVars
  <2>1. alertAge' \in -MaxBack .. NoAlert
    BY <1>1, <1>4 DEF PostAlert, TypeOK, NoAlert
  <2> QED BY <1>4, <2>1 DEF PostAlert, TypeOK, radioVars, detectorVars, statusVars
<1>5. CASE NoPostAlert
  BY <1>5 DEF NoPostAlert, TypeOK, radioVars, detectorVars, statusVars
<1>6. ASSUME NEW arrives \in BOOLEAN, PostTelemetry(arrives)
      PROVE  TypeOK' /\ UNCHANGED statusVars
  <2>1. postAge' \in 0 .. PostInterval /\ shown' \in Statuses
    BY <1>1, <1>6 DEF PostTelemetry, TypeOK
  <2> QED BY <1>6, <2>1 DEF PostTelemetry, TypeOK, radioVars, detectorVars, statusVars
<1>7. CASE NoPostTelemetry
  BY <1>7 DEF NoPostTelemetry, TypeOK, radioVars, detectorVars, statusVars
<1>8. CASE Tick
  <2>1. events' \in [0 .. ElrsWindow -> 0 .. ElrsCrit]
    BY <1>1, <1>8 DEF Tick, TypeOK
  <2>2. alertAge' \in -MaxBack .. NoAlert /\ postAge' \in 0 .. PostInterval
    BY <1>1, <1>8 DEF Tick, TypeOK, NoAlert
  <2> QED BY <1>8, <2>1, <2>2 DEF Tick, TypeOK, radioVars, statusVars
<1>9. CASE ClockSetBack
  <2>1. alertAge' \in -MaxBack .. NoAlert
    BY <1>1, <1>9 DEF ClockSetBack, TypeOK, NoAlert
  <2> QED BY <1>9, <2>1 DEF ClockSetBack, TypeOK, radioVars, detectorVars, statusVars
<1>10. CASE UNCHANGED vars
  BY <1>10 DEF vars, TypeOK, radioVars, detectorVars, statusVars
<1> QED
  BY <1>2, <1>3, <1>4, <1>5, <1>6, <1>7, <1>8, <1>9, <1>10 DEF OtherStep

LEMMA RestartType ==
  ASSUME TypeOK, Restart
  PROVE  TypeOK' /\ StatusMatchesLevel'
<1>1. /\ NChannels \in Nat \ {0} /\ Confirm \in Nat \ {0} /\ Retry \in Nat
      /\ MaxBack \in Nat /\ PostInterval \in Nat /\ ElrsWindow \in Nat
      /\ ElrsCrit \in Nat /\ MaxConfirmCount \in Nat
  BY WorkerConstants
<1>2. stable' = 0 /\ status' = "OK" /\ 0 \in Percent /\ 0 < WarnOn
  BY Thresholds DEF Restart, Percent
<1>3. events' \in [0 .. ElrsWindow -> 0 .. ElrsCrit] /\ confirmCount' \in 0 .. MaxConfirmCount
  BY <1>1 DEF Restart, NoEvents
<1>4. alertAge' \in -MaxBack .. NoAlert /\ postAge' \in 0 .. PostInterval
  BY <1>1 DEF Restart, TypeOK, NoAlert
<1>5. channel' \in 0 .. NChannels - 1 /\ pending' \in 0 .. Confirm - 1
  BY <1>1 DEF Restart
<1>6. cycleLevels' \in [Freqs -> Percent \cup {NoLevel}]
  BY DEF Restart, NothingRead
<1>7. TypeOK'
  BY <1>2, <1>3, <1>4, <1>5, <1>6 DEF Restart, TypeOK, Statuses
<1> QED BY <1>2, <1>7 DEF Restart, StatusMatchesLevel

-----------------------------------------------------------------------------
(* The theorems *)

LevelInv == TypeOK /\ StatusMatchesLevel

LEMMA InitLevel == Init => LevelInv
<1> SUFFICES ASSUME Init PROVE LevelInv
  OBVIOUS
<1>1. /\ NChannels \in Nat \ {0} /\ Confirm \in Nat \ {0} /\ Retry \in Nat
      /\ MaxBack \in Nat /\ PostInterval \in Nat /\ ElrsWindow \in Nat
      /\ ElrsCrit \in Nat /\ MaxConfirmCount \in Nat
  BY WorkerConstants
<1>2. stable = 0 /\ status = "OK" /\ 0 \in Percent /\ 0 < WarnOn
  BY Thresholds DEF Init, Percent
<1>3. events \in [0 .. ElrsWindow -> 0 .. ElrsCrit] /\ confirmCount \in 0 .. MaxConfirmCount
  BY <1>1 DEF Init, NoEvents
<1>4. alertAge \in -MaxBack .. NoAlert /\ postAge \in 0 .. PostInterval
  BY <1>1 DEF Init, NoAlert
<1>5. channel \in 0 .. NChannels - 1 /\ pending \in 0 .. Confirm - 1
  BY <1>1 DEF Init
<1>6. cycleLevels \in [Freqs -> Percent \cup {NoLevel}]
  BY DEF Init, NothingRead
<1>7. TypeOK
  BY <1>2, <1>3, <1>4, <1>5, <1>6 DEF Init, TypeOK, Statuses
<1> QED
  BY <1>2, <1>7 DEF Init, LevelInv, StatusMatchesLevel

\* A step keeps the invariant; a threat does not end at once, but by a restart.
LEMMA StepLemma ==
  ASSUME LevelInv, [Next]_vars
  PROVE  /\ LevelInv'
         /\ Restart \/ (status = "CRITICAL" => status' # "OK")
<1>1. ASSUME NEW level \in Levels, NEW signal \in Signals, Read(level, signal)
      PROVE  /\ LevelInv'
             /\ status = "CRITICAL" => status' # "OK"
  <2>1. level \in Percent
    BY WorkerConstants
  <2> QED BY <1>1, <2>1, ReadLemma DEF LevelInv
<1>2. CASE OtherStep
  BY <1>2, OtherLemma
  DEF LevelInv, StatusMatchesLevel, statusVars
<1>3. CASE Restart
  BY <1>3, RestartType DEF LevelInv
<1> QED
  BY <1>1, <1>2, <1>3 DEF Next, Iterate, OtherStep

\* TypeOK of ThreatWorker, for every configuration: in particular no change
\* of status waits for more than STATUS_CONFIRM_CYCLES.
THEOREM TypeCorrect == Spec => []TypeOK
<1>1. Init => LevelInv
  BY InitLevel
<1>2. LevelInv /\ [Next]_vars => LevelInv'
  BY StepLemma
<1>3. LevelInv => TypeOK
  BY DEF LevelInv
<1> QED BY <1>1, <1>2, <1>3, PTL DEF Spec

\* A settled CRITICAL stands on a level above CRITICAL_OFF_LEVEL and a settled
\* OK on one below WARNING_ON_LEVEL (_next_stable_status and main), whatever
\* the smoothing, the detectors and the restarts.
THEOREM StatusFitsLevel == Spec => []StatusMatchesLevel
<1>1. Init => LevelInv
  BY InitLevel
<1>2. LevelInv /\ [Next]_vars => LevelInv'
  BY StepLemma
<1>3. LevelInv => StatusMatchesLevel
  BY DEF LevelInv
<1> QED BY <1>1, <1>2, <1>3, PTL DEF Spec

\* The message that a threat is over (main) is never sent, restarts or not: no decision
\* leads from CRITICAL to OK.
THEOREM OverIsUnreachable == Spec => OverIsNeverSaid
<1>1. LevelInv /\ [Next]_vars
        => LevelInv' /\ [Restart \/ Announcement(status, status') # "over"]_vars
  BY StepLemma DEF Announcement
<1> QED
  BY <1>1, InitLevel, PTL DEF Spec, OverIsNeverSaid
===============================================================================
