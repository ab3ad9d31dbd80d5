---------------------------- MODULE RFMonitorProofs ----------------------------
(* Theorems about RFMonitor: a stop leaves nothing, what is reported is      *)
(* saved, and what is proved of the detector alone holds of the detector the *)
(* monitor's two threads drive.                                              *)
EXTENDS RFMonitor, FiniteSetTheorems, TLAPS

\* What is proved of the detector, when the monitor's thread is its one caller.
Proved == INSTANCE EventDetectorProofs WITH Callers <- {Loop}

LEMMA DetectorIs == Proved!DetectorConstants
  BY DetectorAssumption DEF Detector!DetectorConstants, Proved!DetectorConstants

-----------------------------------------------------------------------------
(* Every step of the monitor is a step of the detector or leaves it alone. *)

LEMMA ControlDrives ==
  ASSUME Control
  PROVE  Detector!Next \/ UNCHANGED Detector!detectorVars
<1>1. CASE \E new \in Reconfigurations : UpdateConfig(new)
  BY <1>1, MonitorConstants DEF UpdateConfig, Detector!Next
<1>2. CASE FlushEvents
  BY <1>2 DEF FlushEvents, Detector!Next
<1>3. CASE FlushRaises
  BY <1>3 DEF FlushRaises, Detector!Next
<1>4. CASE StartFails \/ Start \/ StartReturns \/ Pause \/ Resume \/ Stop \/ Join
           \/ SaveFlushed \/ SaveFlushedRaises \/ Cleanup
  <2>1. UNCHANGED detectorVars
    BY <1>4 DEF StartFails, Start, StartReturns, Pause, Resume, Stop, Join, SaveFlushed,
                SaveFlushedRaises, Cleanup
  <2> QED
    BY <2>1 DEF detectorVars, Detector!detectorVars, Detector!detectorState,
                Detector!callbackState, Detector!history
<1> QED
  BY <1>1, <1>2, <1>3, <1>4 DEF Control

LEMMA LoopDrives ==
  ASSUME MonitorLoop
  PROVE  Detector!Next \/ UNCHANGED Detector!detectorVars
<1>1. CASE ReadSpectrum \/ OnEventStarted \/ StartedRaises \/ OnEventDetected \/ SaveRaises
  BY <1>1 DEF ReadSpectrum, OnEventStarted, StartedRaises, OnEventDetected, SaveRaises,
              Detector!Next
<1>2. CASE LoopOnly
  BY <1>2 DEF LoopOnly, detectorVars, Detector!detectorVars, Detector!detectorState,
              Detector!callbackState, Detector!history
<1>3. \/ ReadSpectrum \/ OnEventStarted \/ StartedRaises \/ OnEventDetected \/ SaveRaises
      \/ LoopOnly
  BY DEF MonitorLoop, Begin, Top, CheckDevice, StepsOver, NextStep, OutOfCapabilities, Tune,
         TuneFails, TuneRaises, Reopen, Reopened, ScanOver, ReadSamples, ReadNothing,
         ReadRaises, CallbacksDone
<1> QED
  BY <1>1, <1>2, <1>3

LEMMA StepDrives ==
  ASSUME [Next]_monitorVars
  PROVE  [Detector!Next]_(Detector!detectorVars)
<1>1. CASE Clock
  BY <1>1 DEF Clock, Detector!Next
<1>2. CASE Control
  BY <1>2, ControlDrives
<1>3. CASE MonitorLoop
  BY <1>3, LoopDrives
<1>4. CASE UNCHANGED monitorVars
  BY <1>4 DEF monitorVars, detectorVars, Detector!detectorVars, Detector!detectorState,
              Detector!callbackState, Detector!history
<1> QED
  BY <1>1, <1>2, <1>3, <1>4 DEF Next

\* The detector's variables move as module EventDetector says: every action of the monitor
\* that changes them is written with one of the detector's.
LEMMA MonitorDrivesDetector == Spec => Detector!Spec
<1>1. Init => Detector!Init
  BY DEF Init
<1>2. [Next]_monitorVars => [Detector!Next]_(Detector!detectorVars)
  BY StepDrives
<1> QED
  BY <1>1, <1>2, PTL DEF Spec, Detector!Spec

-----------------------------------------------------------------------------
(* What the detector's theorems say of the monitor. *)

LEMMA SameDetector == Detector!Spec => Proved!Spec
<1>1. Detector!Init => Proved!Init
  BY DEF Detector!Init, Proved!Init, Detector!Never, Proved!Never
<1>2. UNCHANGED Detector!detectorVars => UNCHANGED Proved!detectorVars
  BY DEF Detector!detectorVars, Proved!detectorVars, Detector!detectorState,
         Proved!detectorState, Detector!callbackState, Proved!callbackState,
         Detector!history, Proved!history
<1>3. Detector!Next => Proved!Next
  <2>1. \A S : /\ Detector!Reported(S) = Proved!Reported(S)
               /\ Detector!Rejected(S) = Proved!Rejected(S)
               /\ Detector!EventsIn(S) = Proved!EventsIn(S)
    BY DEF Detector!Reported, Proved!Reported, Detector!Rejected, Proved!Rejected,
           Detector!TooShort, Proved!TooShort, Detector!EventsIn, Proved!EventsIn
  <2>2. \A hit, wide : /\ Detector!Checked(hit, wide) = Proved!Checked(hit, wide)
                       /\ Detector!Started(hit, wide) = Proved!Started(hit, wide)
                       /\ Detector!ClassifyStamp(wide) = Proved!ClassifyStamp(wide)
    BY DEF Detector!Checked, Proved!Checked, Detector!CheckDetected, Proved!CheckDetected,
           Detector!Started, Proved!Started, Detector!NewEvent, Proved!NewEvent,
           Detector!Spliced, Proved!Spliced, Detector!ClassifyStamp, Proved!ClassifyStamp,
           Detector!Never, Proved!Never
  <2>3. \A open : Detector!Stale(open) = Proved!Stale(open)
    BY DEF Detector!Stale, Proved!Stale
  <2>4. ASSUME NEW hit, NEW wide, Detector!ProcessOne(Loop, hit, wide)
        PROVE  Proved!ProcessOne(Loop, hit, wide)
    <3>1. Detector!Stale(Detector!Checked(hit, wide)) = Proved!Stale(Proved!Checked(hit, wide))
      BY <2>2, <2>3
    <3>2. Detector!Checked(hit, wide) = Proved!Checked(hit, wide)
      BY <2>2
    <3> QED
      BY <2>1, <2>2, <2>4, <3>1, <3>2 DEF Detector!ProcessOne, Proved!ProcessOne
  <2>9. Detector!ProcessSpectrum(Loop) => Proved!ProcessSpectrum(Loop)
    BY <2>4 DEF Detector!ProcessSpectrum, Proved!ProcessSpectrum, Detector!Idle, Proved!Idle
  <2>5. /\ Detector!CallStarted(Loop) => Proved!CallStarted(Loop)
        /\ Detector!CallCompleted(Loop) => Proved!CallCompleted(Loop)
        /\ Detector!OnEventRaises(Loop) => Proved!OnEventRaises(Loop)
        /\ Detector!OnStartedRaises(Loop) => Proved!OnStartedRaises(Loop)
    BY DEF Detector!CallStarted, Proved!CallStarted, Detector!CallCompleted,
           Proved!CallCompleted, Detector!OnEventRaises, Proved!OnEventRaises,
           Detector!OnStartedRaises, Proved!OnStartedRaises, Detector!detectorState,
           Proved!detectorState
  <2>6. ASSUME NEW S PROVE Detector!Flush(S) => Proved!Flush(S)
    BY <2>1 DEF Detector!Flush, Proved!Flush, Detector!callbackState, Proved!callbackState
  <2>7. ASSUME NEW new PROVE Detector!UpdateRanges(new) => Proved!UpdateRanges(new)
    BY <2>1 DEF Detector!UpdateRanges, Proved!UpdateRanges, Detector!callbackState,
                Proved!callbackState
  <2>8. (Detector!Tick => Proved!Tick) /\ (Detector!ClockSetBack => Proved!ClockSetBack)
    BY DEF Detector!Tick, Proved!Tick, Detector!ClockSetBack, Proved!ClockSetBack,
           Detector!detectorState, Proved!detectorState, Detector!callbackState,
           Proved!callbackState, Detector!history, Proved!history
  <2> QED
    BY <2>5, <2>6, <2>7, <2>8, <2>9 DEF Detector!Next, Proved!Next
<1>4. [Detector!Next]_(Detector!detectorVars) => [Proved!Next]_(Proved!detectorVars)
  BY <1>2, <1>3
<1> QED
  BY <1>1, <1>4, PTL DEF Detector!Spec, Proved!Spec

\* The state of the detector is well-typed, and no event meets two ends.
LEMMA DetectorKeeps == Spec => [](Proved!TypeOK /\ Proved!OneFate)
  BY MonitorDrivesDetector, SameDetector, DetectorIs, Proved!TypeCorrect,
     Proved!EveryEventHasOneFate, PTL

LEMMA SameTypes == Proved!TypeOK => Detector!TypeOK
  BY DEF Detector!TypeOK, Proved!TypeOK, Detector!Time, Proved!Time, Detector!ActiveEvent,
         Proved!ActiveEvent, Detector!Event, Proved!Event, Detector!Never, Proved!Never,
         Detector!Completed, Proved!Completed

-----------------------------------------------------------------------------
(* Stopping. *)

\* What the two threads share beside the detector and the storage.
Types ==
  /\ state \in States /\ ctl \in ControlPoints /\ pc \in LoopPoints
  /\ used \in BOOLEAN /\ stopEvent \in BOOLEAN /\ pauseEvent \in BOOLEAN
  /\ hasDevice \in BOOLEAN /\ handleOpen \in BOOLEAN /\ hasDetector \in BOOLEAN
  /\ overdue \in BOOLEAN /\ errors \in 0 .. MaxErrors

\* Before start nothing is there.
Fresh ==
  ~used => /\ state = "STOPPED" /\ ctl = "idle" /\ pc = "none"
           /\ ~hasDevice /\ ~handleOpen /\ ~hasDetector /\ active = << >>

\* Only within process_spectrum are there callbacks to be made.
CalledBack == pc # "callbacks" => Detector!Idle(Loop)

\* A call under way has been made on a monitor that was started and is not stopped.
Calling ==
  /\ ctl # "idle" => used /\ state # "STOPPED"
  /\ ctl = "flushing" => hasDetector

\* Unless its join timed out, stop goes on without the thread, and before that the
\* thread has its device and its detector, in which nothing is left after the flush.
Joined ==
  ~overdue =>
    /\ ctl \in {"flushing", "saving", "cleanup"} => ~Alive
    /\ Alive => hasDevice /\ hasDetector
    /\ handleOpen => hasDevice
    /\ ~hasDetector \/ ctl \in {"saving", "cleanup"} => active = << >>

QuietInv == Types /\ Fresh /\ CalledBack /\ Calling /\ Joined /\ StoppedIsQuiet

LEMMA NothingIs == [r \in {} |-> r] = << >>
  OBVIOUS

LEMMA NothingOpen == \A f : [r \in {} |-> f[r]] = << >>
  OBVIOUS

LEMMA InitQuiet == Init => QuietInv
<1> SUFFICES ASSUME Init PROVE QuietInv
  OBVIOUS
<1>1. active = << >>
  BY NothingIs DEF Init, Detector!Init
<1>2. Detector!Idle(Loop)
  BY DEF Init, Detector!Init, Detector!Idle
<1>3. Types
  <2>1. 0 \in 0 .. MaxErrors
    BY MonitorConstants
  <2> QED
    BY <2>1 DEF Init, Types, States, ControlPoints, LoopPoints
<1> QED
  BY <1>1, <1>2, <1>3 DEF Init, QuietInv, Fresh, CalledBack, Calling, Joined, StoppedIsQuiet,
                          Alive

-----------------------------------------------------------------------------
(* The controlling thread. *)

LEMMA RestIsQuiet == ASSUME QuietInv, UNCHANGED monitorVars PROVE QuietInv'
  BY DEF QuietInv, Types, Fresh, CalledBack, Calling, Joined, StoppedIsQuiet, Alive,
         Detector!Idle, monitorVars, detectorVars, controlVars, deviceVars

LEMMA StartIsQuiet == ASSUME QuietInv, StartFails \/ Start \/ StartReturns PROVE QuietInv'
<1> USE DEF QuietInv, Types, Fresh, CalledBack, Calling, Joined, StoppedIsQuiet, Alive,
            Detector!Idle, States, ControlPoints, LoopPoints, detectorVars, deviceVars
<1>1. CASE StartFails
  BY <1>1 DEF StartFails
<1>2. CASE Start
  BY <1>2 DEF Start
<1>3. CASE StartReturns
  BY <1>3 DEF StartReturns
<1> QED
  BY <1>1, <1>2, <1>3

LEMMA PauseIsQuiet == ASSUME QuietInv, Pause \/ Resume \/ Stop PROVE QuietInv'
<1> USE DEF QuietInv, Types, Fresh, CalledBack, Calling, Joined, StoppedIsQuiet, Alive,
            Detector!Idle, States, ControlPoints, LoopPoints, detectorVars, deviceVars
<1>1. CASE Pause
  BY <1>1 DEF Pause
<1>2. CASE Resume
  BY <1>2 DEF Resume
<1>3. CASE Stop
  BY <1>3 DEF Stop
<1> QED
  BY <1>1, <1>2, <1>3

LEMMA JoinIsQuiet == ASSUME QuietInv, Join \/ Cleanup PROVE QuietInv'
<1> USE DEF QuietInv, Types, Fresh, CalledBack, Calling, Joined, StoppedIsQuiet, Alive,
            Detector!Idle, States, ControlPoints, LoopPoints, detectorVars, deviceVars
<1>1. CASE Join
  <2>1. CASE ~Alive /\ UNCHANGED overdue
    BY <1>1, <2>1 DEF Join
  <2>2. CASE Alive /\ JoinMayTimeOut /\ overdue' = TRUE
    BY <1>1, <2>2 DEF Join
  <2> QED
    BY <1>1, <2>1, <2>2 DEF Join
<1>2. CASE Cleanup
  BY <1>2 DEF Cleanup
<1> QED
  BY <1>1, <1>2

LEMMA SavingIsQuiet == ASSUME QuietInv, SaveFlushed \/ SaveFlushedRaises PROVE QuietInv'
<1> USE DEF QuietInv, Types, Fresh, CalledBack, Calling, Joined, StoppedIsQuiet, Alive,
            Detector!Idle, States, ControlPoints, LoopPoints, detectorVars, deviceVars
<1>1. CASE SaveFlushed
  <2>1. CASE flushed = {}
    BY <1>1, <2>1 DEF SaveFlushed
  <2>2. CASE flushed # {}
    <3>1. /\ ctl = "saving" /\ UNCHANGED <<ctl, detectorVars, state, used, stopEvent, pauseEvent,
                  overdue, deviceVars, hasDetector, pc, errors>>
      BY <1>1, <2>2 DEF SaveFlushed
    <3> QED
      BY <3>1
  <2> QED
    BY <2>1, <2>2
<1>2. CASE SaveFlushedRaises
  BY <1>2 DEF SaveFlushedRaises
<1> QED
  BY <1>1, <1>2

LEMMA FlushIsQuiet == ASSUME QuietInv, FlushEvents \/ FlushRaises PROVE QuietInv'
<1> USE DEF QuietInv, Types, Fresh, CalledBack, Calling, Joined, StoppedIsQuiet, Alive,
            Detector!Idle, States, ControlPoints, LoopPoints, deviceVars
<1>1. CASE FlushEvents
  <2>1. active' = [r \in DOMAIN active \ DOMAIN active |-> active[r]]
    BY <1>1 DEF FlushEvents, Detector!Flush
  <2>2. DOMAIN active \ DOMAIN active = {}
    OBVIOUS
  <2>3. active' = << >>
    BY <2>1, <2>2, NothingOpen
  <2>4. /\ ctl = "flushing" /\ ctl' = "saving"
        /\ UNCHANGED <<state, used, stopEvent, pauseEvent, overdue, deviceVars, hasDetector, pc,
                       errors, startedPending, completedPending>>
    BY <1>1 DEF FlushEvents, Detector!Flush, Detector!callbackState
  <2> QED
    BY <2>3, <2>4
<1>2. CASE FlushRaises
  <2>1. /\ ctl = "flushing" /\ ctl' = "idle"
        /\ UNCHANGED <<state, used, stopEvent, pauseEvent, overdue, deviceVars, hasDetector, pc,
                       errors, startedPending, completedPending>>
    BY <1>2 DEF FlushRaises, Detector!Flush, Detector!callbackState
  <2> QED
    BY <2>1
<1> QED
  BY <1>1, <1>2

LEMMA UpdateIsQuiet ==
  ASSUME QuietInv, NEW new \in Reconfigurations, UpdateConfig(new)
  PROVE  QuietInv'
<1>1. /\ ctl = "idle" /\ hasDetector
      /\ UNCHANGED <<controlVars, deviceVars, hasDetector, pc, errors, startedPending,
                     completedPending>>
  BY DEF UpdateConfig, Detector!UpdateRanges, Detector!callbackState
<1> QED
  BY <1>1 DEF QuietInv, Types, Fresh, CalledBack, Calling, Joined, StoppedIsQuiet, Alive,
              Detector!Idle, controlVars, deviceVars

-----------------------------------------------------------------------------
(* The monitor thread. *)

\* A step of the loop outside process_spectrum; it may give the state up.
LEMMA LoopIsQuiet ==
  ASSUME QuietInv, Alive, pc' \in LoopPoints, errors' \in 0 .. MaxErrors,
         state' \in {state, "ERROR"}, handleOpen' \in BOOLEAN, ~overdue /\ handleOpen' => hasDevice,
         UNCHANGED <<ctl, used, stopEvent, pauseEvent, overdue, hasDevice, hasDetector>>,
         pc' # "none", pc' # "callbacks" => Detector!Idle(Loop)',
         active' = active \/ hasDetector
  PROVE  QuietInv'
  BY DEF QuietInv, Types, Fresh, CalledBack, Calling, Joined, StoppedIsQuiet, Alive, States

LEMMA ErrorsAreBounded ==
  ASSUME Types
  PROVE  /\ OneMore \in 0 .. MaxErrors /\ 0 \in 0 .. MaxErrors /\ 1 \in 0 .. MaxErrors
         /\ errors \in 0 .. MaxErrors
  BY MonitorConstants DEF Types, OneMore

\* The steps that go on, or give up, without anything for the detector.
Plain ==
  \/ Begin \/ Top \/ CheckDevice \/ StepsOver \/ NextStep \/ OutOfCapabilities \/ Tune
  \/ TuneFails \/ TuneRaises \/ Reopen \/ Reopened \/ ScanOver \/ ReadSamples \/ ReadNothing
  \/ ReadRaises \/ CallbacksDone

LEMMA PlainGoesOn ==
  ASSUME Types, Plain
  PROVE  /\ LoopOnly /\ pc # "none" /\ pc # "done" /\ pc' # "none" /\ pc' # "callbacks"
         /\ pc = "callbacks" => Detector!Idle(Loop)
         /\ pc' \in LoopPoints /\ errors' \in 0 .. MaxErrors /\ state' \in {state, "ERROR"}
         /\ handleOpen' \in {handleOpen, FALSE} \/ Reopened
<1> USE ErrorsAreBounded DEF LoopPoints, CountError
<1>1. CASE Begin \/ Top \/ CheckDevice \/ StepsOver \/ NextStep \/ OutOfCapabilities \/ Tune
  BY <1>1 DEF Begin, Top, CheckDevice, StepsOver, NextStep, OutOfCapabilities, Tune
<1>2. CASE TuneFails \/ TuneRaises \/ Reopen
  BY <1>2 DEF TuneFails, TuneRaises, Reopen
<1>3. CASE Reopened \/ ScanOver \/ ReadSamples
  BY <1>3 DEF Reopened, ScanOver, ReadSamples
<1>4. CASE ReadNothing \/ ReadRaises \/ CallbacksDone
  BY <1>4 DEF ReadNothing, ReadRaises, CallbacksDone
<1> QED
  BY <1>1, <1>2, <1>3, <1>4 DEF Plain

LEMMA PlainIsQuiet == ASSUME QuietInv, Plain PROVE QuietInv'
<1>1. Types /\ Alive
  BY PlainGoesOn DEF QuietInv, Alive
<1>2. /\ LoopOnly /\ pc' # "none" /\ pc' # "callbacks"
      /\ pc' \in LoopPoints /\ errors' \in 0 .. MaxErrors /\ state' \in {state, "ERROR"}
      /\ handleOpen' \in {handleOpen, FALSE} \/ Reopened
      /\ pc = "callbacks" => Detector!Idle(Loop)
  BY <1>1, PlainGoesOn
<1>3. Detector!Idle(Loop)'
  BY <1>2 DEF LoopOnly, detectorVars, Detector!Idle, QuietInv, CalledBack
<1>4. handleOpen' \in BOOLEAN /\ (~overdue /\ handleOpen' => hasDevice)
  BY <1>1, <1>2 DEF Reopened, QuietInv, Joined, Types
<1>5. UNCHANGED <<ctl, used, stopEvent, pauseEvent, overdue, hasDevice, hasDetector, active>>
  BY <1>2 DEF LoopOnly, detectorVars
<1> QED
  BY <1>1, <1>2, <1>3, <1>4, <1>5, LoopIsQuiet

\* The steps within process_spectrum.
LEMMA SpectrumIsQuiet ==
  ASSUME QuietInv, Detector!TypeOK,
         ReadSpectrum \/ OnEventStarted \/ StartedRaises \/ OnEventDetected \/ SaveRaises
  PROVE  QuietInv'
<1>1. Types
  BY DEF QuietInv
<1>2. CASE ReadSpectrum
  <2>1. /\ pc = "reading" /\ hasDetector /\ errors' = 0 /\ pc' = "callbacks"
        /\ UNCHANGED <<controlVars, deviceVars, hasDetector>>
    BY <1>2 DEF ReadSpectrum
  <2>2. errors' \in 0 .. MaxErrors /\ pc' \in LoopPoints
    BY <1>1, <2>1, ErrorsAreBounded DEF LoopPoints
  <2> QED
    BY <2>1, <2>2, LoopIsQuiet DEF QuietInv, Types, Alive, Joined, controlVars, deviceVars
<1>3. CASE OnEventStarted \/ OnEventDetected
  <2>1. /\ pc = "callbacks"
        /\ UNCHANGED <<controlVars, deviceVars, hasDetector, pc, errors, active>>
    BY <1>3 DEF OnEventStarted, OnEventDetected, Detector!CallStarted, Detector!CallCompleted,
                Detector!detectorState
  <2> QED
    BY <1>1, <2>1, LoopIsQuiet DEF QuietInv, Types, Alive, Joined, controlVars, deviceVars
<1>4. CASE StartedRaises \/ SaveRaises
  <2>1. /\ pc = "callbacks" /\ startedPending'[Loop] = {}
        /\ completedPending' = [completedPending EXCEPT ![Loop] = {}]
        /\ UNCHANGED <<ctl, used, stopEvent, pauseEvent, overdue, deviceVars, hasDetector,
                       active>>
    BY <1>4 DEF StartedRaises, SaveRaises, Detector!OnStartedRaises, Detector!OnEventRaises,
                Detector!detectorState, Detector!TypeOK
  <2>2. Detector!Idle(Loop)'
    BY <2>1 DEF Detector!TypeOK, Detector!Idle
  <2>3. /\ errors' \in 0 .. MaxErrors /\ pc' \in {"top", "step"}
        /\ state' \in {state, "ERROR"}
    BY <1>1, <1>4, ErrorsAreBounded DEF StartedRaises, SaveRaises, CountError
  <2> QED
    BY <1>1, <2>1, <2>2, <2>3, LoopIsQuiet
       DEF QuietInv, Types, Alive, Joined, deviceVars, LoopPoints
<1> QED
  BY <1>2, <1>3, <1>4

LEMMA NextQuiet ==
  ASSUME QuietInv, Detector!TypeOK, [Next]_monitorVars
  PROVE  QuietInv'
<1>1. CASE Clock
  <2>1. UNCHANGED <<controlVars, deviceVars, hasDetector, pc, errors, active, startedPending,
                    completedPending>>
    BY <1>1 DEF Clock, Detector!Tick, Detector!ClockSetBack, Detector!detectorState,
                Detector!callbackState
  <2> QED
    BY <2>1 DEF QuietInv, Types, Fresh, CalledBack, Calling, Joined, StoppedIsQuiet, Alive,
                Detector!Idle, controlVars, deviceVars
<1>2. CASE Control
  BY <1>2, StartIsQuiet, PauseIsQuiet, JoinIsQuiet, SavingIsQuiet, FlushIsQuiet, UpdateIsQuiet
     DEF Control
<1>3. CASE MonitorLoop
  BY <1>3, PlainIsQuiet, SpectrumIsQuiet DEF MonitorLoop, Plain
<1>4. CASE UNCHANGED monitorVars
  BY <1>4, RestIsQuiet
<1> QED
  BY <1>1, <1>2, <1>3, <1>4 DEF Next

LEMMA KeptQuiet == Spec => []QuietInv
<1>1. QuietInv /\ Proved!TypeOK /\ [Next]_monitorVars => QuietInv'
  BY NextQuiet, SameTypes
<1> QED
  BY <1>1, InitQuiet, DetectorKeeps, PTL DEF Spec

\* After a stop whose join succeeded there is neither a thread nor an open handle, nor an
\* event that is open or still to be told, whatever failed before, a stop that raised in the
\* middle and was called again included (stop, _cleanup, _monitor_loop).
THEOREM StopLeavesNothing == Spec => []StoppedIsQuiet
<1>1. QuietInv => StoppedIsQuiet
  BY DEF QuietInv
<1> QED
  BY <1>1, KeptQuiet, PTL
-----------------------------------------------------------------------------
(* Saving. *)

\* flushed holds what flush reported, and so has saved, already.
SavedInv ==
  /\ ReportedIsSaved
  /\ IsFiniteSet(completed)
  /\ IsABag(rows)
  /\ flushed \subseteq BagToSet(rows)

LEMMA BagGrows ==
  ASSUME NEW B, IsABag(B), NEW S
  PROVE  IsABag(B (+) SetToBag(S)) /\ BagToSet(B (+) SetToBag(S)) = BagToSet(B) \cup S
<1> DEFINE C == B (+) SetToBag(S)
<1>1. DOMAIN C = DOMAIN B \cup S
  BY DEF (+), SetToBag
<1>2. ASSUME NEW e \in DOMAIN C PROVE C[e] \in {n \in Nat : n > 0}
  BY <1>2 DEF (+), SetToBag, IsABag
<1>3. C = [e \in DOMAIN C |-> C[e]]
  BY DEF (+)
<1> HIDE DEF C
<1>4. C \in [DOMAIN C -> {n \in Nat : n > 0}]
  BY <1>2, <1>3
<1> QED
  BY <1>1, <1>4 DEF IsABag, BagToSet, C

\* on_event is called on finitely many events: each closed event is of a range that was open.
LEMMA FinitelyReported ==
  ASSUME Proved!TypeOK, NEW S \in SUBSET DOMAIN active
  PROVE  IsFiniteSet(Detector!Reported(Detector!EventsIn(S)))
<1> DEFINE heard == {r \in S : ~Detector!TooShort(active[r].event)}
           f == [r \in heard |-> [event |-> active[r].event, end |-> now]]
           T == Detector!Reported(Detector!EventsIn(S))
<1>1. IsFiniteSet(heard)
  <2>1. heard \in SUBSET Ranges
    BY DEF Proved!TypeOK
  <2> QED
    BY <2>1, MonitorConstants, FS_Subset
<1>2. f \in Surjection(heard, T)
  <2>1. T = {f[r] : r \in heard}
    BY DEF Detector!Reported, Detector!EventsIn
  <2> QED
    BY <2>1 DEF Surjection
<1> HIDE DEF heard, f, T
<1>3. IsFiniteSet(T)
  BY <1>1, <1>2, FS_Surjection
<1> QED
  BY <1>3 DEF T

\* An event that is still open has not been reported.
LEMMA NewlyReported ==
  ASSUME Proved!OneFate, NEW S \in SUBSET DOMAIN active
  PROVE  Detector!Reported(Detector!EventsIn(S)) \cap completed = {}
<1>1. \A d \in Detector!Reported(Detector!EventsIn(S)) : d.event \in Proved!OpenEvents
  BY DEF Detector!Reported, Detector!EventsIn, Proved!OpenEvents, Proved!EventsIn
<1>2. \A d \in completed : d.event \in Proved!Ended
  BY DEF Proved!Ended, Proved!EventsOf
<1> QED
  BY <1>1, <1>2 DEF Proved!OneFate

LEMMA DisjointUnion ==
  ASSUME NEW S, NEW T, IsFiniteSet(S), IsFiniteSet(T), S \cap T = {}
  PROVE  IsFiniteSet(S \cup T) /\ Cardinality(S \cup T) = Cardinality(S) + Cardinality(T)
<1>1. /\ IsFiniteSet(S \cup T)
      /\ Cardinality(S \cup T) = Cardinality(S) + Cardinality(T) - Cardinality(S \cap T)
  BY FS_Union
<1>2. Cardinality(S \cap T) = 0
  BY FS_EmptySet
<1>3. Cardinality(S) \in Nat /\ Cardinality(T) \in Nat
  BY FS_CardinalityType
<1> QED
  BY <1>1, <1>2, <1>3

LEMMA ReportSaves ==
  ASSUME SavedInv, NEW ok, NEW bad, IsFiniteSet(ok), IsFiniteSet(bad), ok \cap bad = {},
         (ok \cup bad) \cap completed = {}, SaveReported(ok, bad),
         completed' = completed \cup ok \cup bad
  PROVE  /\ ReportedIsSaved' /\ IsFiniteSet(completed)' /\ IsABag(rows)'
         /\ BagToSet(rows)' = BagToSet(rows) \cup ok
<1>1. IsABag(rows') /\ BagToSet(rows') = BagToSet(rows) \cup ok
  BY BagGrows DEF SaveReported, SavedInv
<1>2. completed' = BagToSet(rows') \cup saveFailed' /\ BagToSet(rows') \cap saveFailed' = {}
  BY <1>1 DEF SaveReported, SavedInv, ReportedIsSaved
<1>3. /\ IsFiniteSet(ok \cup bad)
      /\ Cardinality(ok \cup bad) = Cardinality(ok) + Cardinality(bad)
  BY DisjointUnion
<1>4. /\ IsFiniteSet(completed')
      /\ Cardinality(completed') = Cardinality(completed) + Cardinality(ok \cup bad)
  <2>1. completed' = completed \cup (ok \cup bad) /\ completed \cap (ok \cup bad) = {}
    OBVIOUS
  <2> QED
    BY <1>3, <2>1, DisjointUnion DEF SavedInv
<1>5. eventsDetected' = Cardinality(completed')
  <2>1. eventsDetected' = Cardinality(completed) + Cardinality(ok) + Cardinality(bad)
    BY DEF SaveReported, SavedInv, ReportedIsSaved
  <2>2. Cardinality(completed) \in Nat /\ Cardinality(ok) \in Nat /\ Cardinality(bad) \in Nat
    BY FS_CardinalityType DEF SavedInv
  <2> QED
    BY <1>3, <1>4, <2>1, <2>2
<1> QED
  BY <1>1, <1>2, <1>4, <1>5 DEF ReportedIsSaved

\* One callback out of process_spectrum.
LEMMA CallbackSaves ==
  ASSUME SavedInv, OnEventDetected \/ SaveRaises
  PROVE  SavedInv'
<1> DEFINE new == completed' \ completed
<1>1. PICK d : completed' = completed \cup {d}
  BY DEF OnEventDetected, SaveRaises, Detector!CallCompleted, Detector!OnEventRaises
<1>2. IsFiniteSet(new) /\ IsFiniteSet({})
  <2>1. IsFiniteSet({d}) /\ new \in SUBSET {d}
    BY <1>1, FS_Singleton
  <2> QED
    BY <2>1, FS_Subset, FS_EmptySet
<1>3. completed' = completed \cup new \cup {} /\ completed' = completed \cup {} \cup new
  BY <1>1
<1>4. new \cap completed = {}
  OBVIOUS
<1>5. UNCHANGED flushed /\ (SaveReported(new, {}) \/ SaveReported({}, new))
  BY DEF OnEventDetected, SaveRaises, controlVars
<1> HIDE DEF new
<1>6. CASE SaveReported(new, {})
  <2>1. /\ ReportedIsSaved' /\ IsFiniteSet(completed)' /\ IsABag(rows)'
        /\ BagToSet(rows)' = BagToSet(rows) \cup new
    BY <1>2, <1>3, <1>4, <1>6, ReportSaves
  <2> QED
    BY <1>5, <2>1 DEF SavedInv
<1>7. CASE SaveReported({}, new)
  <2>1. /\ ReportedIsSaved' /\ IsFiniteSet(completed)' /\ IsABag(rows)'
        /\ BagToSet(rows)' = BagToSet(rows) \cup {}
    BY <1>2, <1>3, <1>4, <1>7, ReportSaves
  <2> QED
    BY <1>5, <2>1 DEF SavedInv
<1> QED
  BY <1>5, <1>6, <1>7

\* flush, all of it or up to the save that raises.
LEMMA FlushSaves ==
  ASSUME SavedInv, Proved!TypeOK, Proved!OneFate, FlushEvents \/ FlushRaises
  PROVE  SavedInv'
<1>1. CASE FlushEvents
  <2> DEFINE ok == Detector!Reported(Detector!EventsIn(DOMAIN active))
  <2>1. IsFiniteSet(ok) /\ ok \cap completed = {}
    BY FinitelyReported, NewlyReported
  <2>2. /\ completed' = completed \cup ok /\ SaveReported(ok, {}) /\ flushed' = ok
    BY <1>1 DEF FlushEvents, Detector!Flush, Detector!OpenEvents
  <2> HIDE DEF ok
  <2>3. completed' = completed \cup ok \cup {} /\ ok \cap {} = {}
        /\ (ok \cup {}) \cap completed = {} /\ IsFiniteSet({})
    BY <2>1, <2>2, FS_EmptySet
  <2>4. /\ ReportedIsSaved' /\ IsFiniteSet(completed)' /\ IsABag(rows)'
        /\ BagToSet(rows)' = BagToSet(rows) \cup ok
    BY <2>1, <2>2, <2>3, ReportSaves
  <2> QED
    BY <2>2, <2>4 DEF SavedInv
<1>2. CASE FlushRaises
  <2>1. PICK S \in SUBSET DOMAIN active :
          \E bad \in Detector!Reported(Detector!EventsIn(S)) :
            /\ Detector!Flush(S)
            /\ \/ SaveReported(Detector!Reported(Detector!EventsIn(S)) \ {bad}, {bad})
               \/ SaveReported(Detector!Reported(Detector!EventsIn(S)), {})
    BY <1>2 DEF FlushRaises
  <2> DEFINE all == Detector!Reported(Detector!EventsIn(S))
  <2>2. IsFiniteSet(all) /\ all \cap completed = {}
    BY FinitelyReported, NewlyReported
  <2>3. PICK failed \in SUBSET all :
          Detector!Flush(S) /\ SaveReported(all \ failed, failed)
    <3>1. PICK bad \in all :
            Detector!Flush(S) /\ (SaveReported(all \ {bad}, {bad}) \/ SaveReported(all, {}))
      BY <2>1
    <3>2. all = all \ {} /\ {} \in SUBSET all /\ {bad} \in SUBSET all
      OBVIOUS
    <3> QED
      BY <3>1, <3>2
  <2>4. completed' = completed \cup all
    BY <2>3 DEF Detector!Flush
  <2> HIDE DEF all
  <2>5. IsFiniteSet(all \ failed) /\ IsFiniteSet(failed)
    BY <2>2, FS_Subset
  <2>6. /\ (all \ failed) \cap failed = {} /\ ((all \ failed) \cup failed) \cap completed = {}
        /\ completed' = completed \cup (all \ failed) \cup failed
    BY <2>2, <2>3, <2>4
  <2>7. /\ ReportedIsSaved' /\ IsFiniteSet(completed)' /\ IsABag(rows)'
        /\ BagToSet(rows)' = BagToSet(rows) \cup (all \ failed)
    BY <2>3, <2>5, <2>6, ReportSaves
  <2> QED
    BY <1>2, <2>7 DEF SavedInv, FlushRaises
<1> QED
  BY <1>1, <1>2

\* stop saves again what is saved already.
LEMMA AgainSaves == ASSUME SavedInv, SaveFlushed \/ SaveFlushedRaises PROVE SavedInv'
<1>1. /\ UNCHANGED <<completed, eventsDetected, saveFailed>> /\ flushed' \subseteq flushed
      /\ \/ UNCHANGED rows
         \/ \E d \in flushed : rows' = rows (+) SetToBag({d})
  <2>1. CASE SaveFlushed
    BY <2>1 DEF SaveFlushed, detectorVars
  <2>2. CASE SaveFlushedRaises
    BY <2>2 DEF SaveFlushedRaises, detectorVars, storageVars
  <2> QED
    BY <2>1, <2>2
<1>2. IsABag(rows') /\ BagToSet(rows') = BagToSet(rows)
  <2>1. CASE UNCHANGED rows
    BY <2>1 DEF SavedInv
  <2>2. CASE \E d \in flushed : rows' = rows (+) SetToBag({d})
    <3>1. PICK d \in flushed : rows' = rows (+) SetToBag({d})
      BY <2>2
    <3>2. IsABag(rows') /\ BagToSet(rows') = BagToSet(rows) \cup {d}
      BY <3>1, BagGrows DEF SavedInv
    <3> QED
      BY <3>2 DEF SavedInv
  <2> QED
    BY <1>1, <2>1, <2>2
<1> QED
  BY <1>1, <1>2 DEF SavedInv, ReportedIsSaved

\* Every other step neither reports nor saves.
LEMMA OthersSaveNothing ==
  ASSUME [Next]_monitorVars,
         ~(FlushEvents \/ FlushRaises \/ SaveFlushed \/ SaveFlushedRaises),
         ~(OnEventDetected \/ SaveRaises)
  PROVE  UNCHANGED <<completed, flushed, storageVars>>
<1>1. CASE Clock
  BY <1>1 DEF Clock, Detector!Tick, Detector!ClockSetBack, Detector!history, controlVars
<1>2. CASE \E new \in Reconfigurations : UpdateConfig(new)
  BY <1>2 DEF UpdateConfig, Detector!UpdateRanges, controlVars
<1>3. CASE StartFails \/ Start \/ StartReturns \/ Pause \/ Resume \/ Stop \/ Join \/ Cleanup
  BY <1>3 DEF StartFails, Start, StartReturns, Pause, Resume, Stop, Join, Cleanup, detectorVars
<1>4. CASE ReadSpectrum \/ OnEventStarted \/ StartedRaises
  BY <1>4 DEF ReadSpectrum, Detector!ProcessSpectrum, Detector!ProcessOne, OnEventStarted,
              Detector!CallStarted, StartedRaises, Detector!OnStartedRaises, controlVars
<1>5. CASE LoopOnly
  BY <1>5 DEF LoopOnly, detectorVars
<1>6. CASE MonitorLoop
  <2>1. \/ ReadSpectrum \/ OnEventStarted \/ StartedRaises \/ OnEventDetected \/ SaveRaises
        \/ LoopOnly
    BY <1>6 DEF MonitorLoop, Begin, Top, CheckDevice, StepsOver, NextStep, OutOfCapabilities,
                Tune, TuneFails, TuneRaises, Reopen, Reopened, ScanOver, ReadSamples,
                ReadNothing, ReadRaises, CallbacksDone
  <2> QED
    BY <1>4, <1>5, <2>1
<1>7. CASE UNCHANGED monitorVars
  BY <1>7 DEF monitorVars, detectorVars, controlVars
<1> QED
  BY <1>1, <1>2, <1>3, <1>6, <1>7 DEF Next, Control

LEMMA InitSaved == Init => SavedInv
<1> SUFFICES ASSUME Init PROVE SavedInv
  OBVIOUS
<1>1. completed = {} /\ flushed = {} /\ rows = SetToBag({}) /\ saveFailed = {}
      /\ eventsDetected = 0
  BY DEF Init, Detector!Init, EmptyBag
<1>2. IsABag(rows) /\ BagToSet(rows) = {}
  BY <1>1 DEF SetToBag, IsABag, BagToSet
<1> QED
  BY <1>1, <1>2, FS_EmptySet DEF SavedInv, ReportedIsSaved

LEMMA NextSaved ==
  ASSUME SavedInv, Proved!TypeOK, Proved!OneFate, [Next]_monitorVars
  PROVE  SavedInv'
<1>1. CASE UNCHANGED <<completed, flushed, storageVars>>
  BY <1>1 DEF SavedInv, ReportedIsSaved, storageVars
<1> QED
  BY <1>1, OthersSaveNothing, FlushSaves, AgainSaves, CallbackSaves

LEMMA KeptSaved == Spec => []SavedInv
<1>1. SavedInv /\ Proved!TypeOK /\ Proved!OneFate /\ [Next]_monitorVars => SavedInv'
  BY NextSaved
<1> QED
  BY <1>1, InitSaved, DetectorKeeps, PTL DEF Spec

\* What on_event was given is in the database or its save raised, whichever thread gave it,
\* and _events_detected counts it once, though stop saves what flush returned a second time
\* (_on_event_detected, stop).
THEOREM ReportsAreSaved == Spec => []ReportedIsSaved
<1>1. SavedInv => ReportedIsSaved
  BY DEF SavedInv
<1> QED
  BY <1>1, KeptSaved, PTL

\* The state of the monitor is well-typed: its threads, its device and its tables.
THEOREM MonitorTypes == Spec => []TypeOK
<1>1. QuietInv /\ SavedInv /\ Proved!TypeOK => TypeOK
  <2> SUFFICES ASSUME QuietInv, SavedInv, Proved!TypeOK PROVE TypeOK
    OBVIOUS
  <2>1. completed \subseteq Detector!Completed /\ Detector!TypeOK
    BY SameTypes DEF Detector!TypeOK
  <2>2. /\ BagToSet(rows) \subseteq Detector!Completed /\ saveFailed \subseteq Detector!Completed
        /\ flushed \subseteq Detector!Completed
    BY <2>1 DEF SavedInv, ReportedIsSaved
  <2>3. eventsDetected \in Nat
    BY FS_CardinalityType DEF SavedInv, ReportedIsSaved
  <2> QED
    BY <2>1, <2>2, <2>3 DEF TypeOK, QuietInv, Types, SavedInv
<1> QED
  BY <1>1, KeptQuiet, KeptSaved, DetectorKeeps, PTL
=============================================================================
