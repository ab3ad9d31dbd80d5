------------------------------ MODULE RFMonitor ------------------------------
(***************************************************************************)
(* The monitor of src/src/rf_analyzer/engine/monitor.py: a controlling     *)
(* thread (GUI, CLI or daemon main thread) calls start, stop, pause,       *)
(* resume and update_config; start creates the monitor thread, whose       *)
(* _monitor_loop tunes the device, reads samples and feeds the event       *)
(* detector; completed events are saved to the event database by           *)
(* _on_event_detected.                                                     *)
(*                                                                         *)
(* The detector is the one of module EventDetector, whose actions the two  *)
(* threads take.                                                           *)
(*                                                                         *)
(* Frequencies, sample counts and delays are abstracted away: how many     *)
(* steps a sweep has, when a dwell ends, whether the 10 s between two      *)
(* reopens have passed and whether the hardware obeys are free choices.    *)
(* Every client creates a new RFMonitor for every start (main_window.py,   *)
(* cli.py, run_monitor_daemon), so start is called once.                   *)
(***************************************************************************)
EXTENDS Integers, FiniteSets, Bags

CONSTANTS
  Ranges, MinDuration, MinEventGap, WidebandTimeout,    \* see EventDetector
  MaxBack, MaxTime, MaxSpectra,                         \* see EventDetector
  MayRaise,          \* the storage may fail (sqlite3 raises) and the client's callbacks too
  JoinMayTimeOut,    \* the thread may outlive join(timeout=5.0) in stop
  ReopenAfter,       \* frequency errors in a row before a reopen (3)
  MaxErrors,         \* max_consecutive_errors (10)
  Reconfigurations,  \* the range sets update_config may install
  Loop               \* the monitor thread

ASSUME MonitorConstants ==
  /\ ReopenAfter \in Nat \ {0}
  /\ MaxErrors \in Nat /\ ReopenAfter <= MaxErrors
  /\ JoinMayTimeOut \in BOOLEAN
  /\ Reconfigurations \subseteq SUBSET Ranges
  /\ IsFiniteSet(Ranges)

VARIABLES
  now, ranges, active, lastWideband, spectrumCount,       \* see EventDetector
  startedPending, completedPending,
  announced, completed, discarded, dropped, skipped,
  state,           \* _state
  ctl,             \* where the controlling thread is
  used,            \* start has been called
  stopEvent,       \* _stop_event
  pauseEvent,      \* _pause_event: set means not paused
  hasDevice,       \* _device is not None
  handleOpen,      \* the SDR handle of that device is open
  hasDetector,     \* _detector and _processor are not None
  pc,              \* where the monitor thread is
  errors,          \* consecutive_errors, capped at MaxErrors
  flushed,         \* what flush returned, still to be saved by stop
  rows,            \* the events table: a bag of saved events
  eventsDetected,  \* _events_detected
  saveFailed,      \* history: events whose save_event raised
  overdue          \* history: join timed out

detectorVars == <<now, ranges, active, lastWideband, spectrumCount,
                  startedPending, completedPending,
                  announced, completed, discarded, dropped, skipped>>
controlVars == <<state, ctl, used, stopEvent, pauseEvent, flushed, overdue>>
deviceVars == <<hasDevice, handleOpen>>
storageVars == <<rows, eventsDetected, saveFailed>>
monitorVars == <<detectorVars, controlVars, deviceVars, hasDetector, pc, errors, storageVars>>

Detector == INSTANCE EventDetector WITH Callers <- {Loop}

ASSUME DetectorAssumption == Detector!DetectorConstants

States == {"STOPPED", "STARTING", "RUNNING", "PAUSED", "STOPPING", "ERROR"}
LoopPoints == {"none", "begin", "top", "pause", "step", "gate", "reopen",
               "opening", "scan", "reading", "callbacks", "done"}
ControlPoints == {"idle", "starting", "joining", "flushing", "saving", "cleanup"}

DeviceOk == hasDevice /\ handleOpen
Alive == pc \notin {"none", "done"}

-----------------------------------------------------------------------------
(* Saving, shared by both threads *)

\* Mutant: the event is counted after the save, so not when it raises.
SaveReported_CountAfter(ok, bad) ==
  /\ eventsDetected' = eventsDetected + Cardinality(ok)
  /\ rows' = rows (+) SetToBag(ok)
  /\ saveFailed' = saveFailed \cup bad

\* _on_event_detected counts the event, then saves it.
SaveReported(ok, bad) ==
  /\ eventsDetected' = eventsDetected + Cardinality(ok) + Cardinality(bad)
  /\ rows' = rows (+) SetToBag(ok)
  /\ saveFailed' = saveFailed \cup bad

-----------------------------------------------------------------------------
(* The controlling thread *)

\* start: the device does not open, or configuring it raises.
StartFails ==
  /\ ctl = "idle" /\ ~used /\ state \notin {"RUNNING", "STARTING"}
  /\ used' = TRUE
  /\ state' = "ERROR"
  /\ UNCHANGED <<detectorVars, ctl, stopEvent, pauseEvent, flushed, overdue,
                 deviceVars, hasDetector, pc, errors, storageVars>>

\* start up to and including the start of the thread.
Start ==
  /\ ctl = "idle" /\ ~used /\ state \notin {"RUNNING", "STARTING"}
  /\ used' = TRUE
  /\ state' = "STARTING"
  /\ hasDevice' = TRUE /\ handleOpen' = TRUE /\ hasDetector' = TRUE
  /\ stopEvent' = FALSE /\ pauseEvent' = TRUE
  /\ pc' = "begin"
  /\ ctl' = "starting"
  /\ UNCHANGED <<detectorVars, flushed, overdue, errors, storageVars>>

\* start sets RUNNING after the thread is already on its way.
StartReturns ==
  /\ ctl = "starting"
  /\ state' = "RUNNING"
  /\ ctl' = "idle"
  /\ UNCHANGED <<detectorVars, used, stopEvent, pauseEvent, flushed, overdue,
                 deviceVars, hasDetector, pc, errors, storageVars>>

Pause ==
  /\ ctl = "idle" /\ state = "RUNNING"
  /\ pauseEvent' = FALSE
  /\ state' = "PAUSED"
  /\ UNCHANGED <<detectorVars, ctl, used, stopEvent, flushed, overdue,
                 deviceVars, hasDetector, pc, errors, storageVars>>

Resume ==
  /\ ctl = "idle" /\ state = "PAUSED"
  /\ pauseEvent' = TRUE
  /\ state' = "RUNNING"
  /\ UNCHANGED <<detectorVars, ctl, used, stopEvent, flushed, overdue,
                 deviceVars, hasDetector, pc, errors, storageVars>>

\* update_config hands the new ranges to the detector; the monitor thread
\* keeps sweeping the ranges it read when it began.
UpdateConfig(new) ==
  /\ ctl = "idle" /\ hasDetector
  /\ Detector!UpdateRanges(new)
  /\ UNCHANGED <<controlVars, deviceVars, hasDetector, pc, errors, storageVars>>

\* Mutant: a paused thread is not woken.
Stop_LeavesPaused ==
  /\ ctl = "idle" /\ state # "STOPPED"
  /\ state' = "STOPPING"
  /\ stopEvent' = TRUE
  /\ ctl' = "joining"
  /\ UNCHANGED <<detectorVars, used, pauseEvent, flushed, overdue, deviceVars,
                 hasDetector, pc, errors, storageVars>>

\* stop up to the join; also the retry of a stop that raised.
Stop ==
  /\ ctl = "idle" /\ state # "STOPPED"
  /\ state' = "STOPPING"
  /\ stopEvent' = TRUE /\ pauseEvent' = TRUE
  /\ ctl' = "joining"
  /\ UNCHANGED <<detectorVars, used, flushed, overdue, deviceVars, hasDetector,
                 pc, errors, storageVars>>

Join_NoWait == \* mutant: the thread is not waited for
  /\ ctl = "joining"
  /\ ctl' = IF hasDetector THEN "flushing" ELSE "cleanup"
  /\ UNCHANGED <<detectorVars, state, used, stopEvent, pauseEvent, flushed,
                 overdue, deviceVars, hasDetector, pc, errors, storageVars>>

Join ==
  /\ ctl = "joining"
  /\ \/ ~Alive /\ UNCHANGED overdue
     \/ Alive /\ JoinMayTimeOut /\ overdue' = TRUE
  /\ ctl' = IF hasDetector THEN "flushing" ELSE "cleanup"
  /\ UNCHANGED <<detectorVars, state, used, stopEvent, pauseEvent, flushed,
                 deviceVars, hasDetector, pc, errors, storageVars>>

\* detector.flush(): its on_event callback saves every event it reports.
FlushEvents ==
  /\ ctl = "flushing"
  /\ Detector!Flush(DOMAIN active)
  /\ SaveReported(Detector!Reported(Detector!OpenEvents), {})
  /\ flushed' = Detector!Reported(Detector!OpenEvents)
  /\ ctl' = "saving"
  /\ UNCHANGED <<state, used, stopEvent, pauseEvent, overdue, deviceVars,
                 hasDetector, pc, errors>>

\* A save, or the client's on_event after it, raises inside flush, and so out of stop:
\* the ranges not reached stay open, the state stays STOPPING and nothing is released.
FlushRaises ==
  /\ ctl = "flushing" /\ MayRaise
  /\ \E S \in SUBSET DOMAIN active :
       \E bad \in Detector!Reported(Detector!EventsIn(S)) :
         /\ Detector!Flush(S)
         /\ \/ SaveReported(Detector!Reported(Detector!EventsIn(S)) \ {bad}, {bad})
            \/ SaveReported(Detector!Reported(Detector!EventsIn(S)), {})
  /\ ctl' = "idle"
  /\ UNCHANGED <<state, used, stopEvent, pauseEvent, flushed, overdue,
                 deviceVars, hasDetector, pc, errors>>

\* stop saves what flush returned, though the callback already has.
SaveFlushed ==
  /\ ctl = "saving"
  /\ IF flushed = {}
       THEN /\ ctl' = "cleanup"
            /\ UNCHANGED <<flushed, rows>>
       ELSE \E d \in flushed :
              /\ flushed' = flushed \ {d}
              /\ rows' = rows (+) SetToBag({d})
              /\ UNCHANGED ctl
  /\ UNCHANGED <<detectorVars, state, used, stopEvent, pauseEvent, overdue,
                 deviceVars, hasDetector, pc, errors, eventsDetected, saveFailed>>

SaveFlushedRaises ==
  /\ ctl = "saving" /\ flushed # {} /\ MayRaise
  /\ flushed' = {}
  /\ ctl' = "idle"
  /\ UNCHANGED <<detectorVars, state, used, stopEvent, pauseEvent, overdue,
                 deviceVars, hasDetector, pc, errors, storageVars>>

\* _cleanup, then STOPPED.
Cleanup ==
  /\ ctl = "cleanup"
  /\ hasDevice' = FALSE
  /\ handleOpen' = (handleOpen /\ ~hasDevice)
  /\ hasDetector' = FALSE
  /\ state' = "STOPPED"
  /\ ctl' = "idle"
  /\ UNCHANGED <<detectorVars, used, stopEvent, pauseEvent, flushed, overdue,
                 pc, errors, storageVars>>

Control ==
  \/ StartFails \/ Start \/ StartReturns \/ Pause \/ Resume
  \/ \E new \in Reconfigurations : UpdateConfig(new)
  \/ Stop \/ Join \/ FlushEvents \/ FlushRaises \/ SaveFlushed \/ SaveFlushedRaises
  \/ Cleanup

-----------------------------------------------------------------------------
(* The monitor thread *)

\* What a step of the loop that touches neither the detector nor the storage
\* leaves alone.
LoopOnly == UNCHANGED <<detectorVars, ctl, used, stopEvent, pauseEvent, flushed,
                        overdue, hasDevice, hasDetector, storageVars>>

OneMore == IF errors < MaxErrors THEN errors + 1 ELSE errors

\* The except clause around one frequency step, and the failed reopen: give
\* the state up after too many errors, which leaves only the for loop.
CountError(n) ==
  /\ errors' = n
  /\ IF n >= MaxErrors THEN state' = "ERROR" /\ pc' = "top"
                       ELSE pc' = "step" /\ UNCHANGED state

Begin ==
  /\ pc = "begin"
  /\ pc' = IF ranges = {} THEN "done" ELSE "top"
  /\ LoopOnly /\ UNCHANGED <<state, handleOpen, errors>>

\* while not stop_event, then the pause gate.
Top ==
  /\ pc = "top"
  /\ pc' = IF stopEvent THEN "done" ELSE "pause"
  /\ LoopOnly /\ UNCHANGED <<state, handleOpen, errors>>

\* Past the pause: stop check, then device check.
CheckDevice ==
  /\ pc = "pause" /\ pauseEvent
  /\ IF stopEvent \/ DeviceOk
       THEN pc' = (IF stopEvent THEN "done" ELSE "step") /\ UNCHANGED state
       ELSE pc' = "done" /\ state' = "ERROR"
  /\ LoopOnly /\ UNCHANGED <<handleOpen, errors>>

\* The for loop over the frequency steps ends: no step left, or stop seen.
StepsOver ==
  /\ pc = "step"
  /\ pc' = "top"
  /\ LoopOnly /\ UNCHANGED <<state, handleOpen, errors>>

NextStep ==
  /\ pc = "step" /\ ~stopEvent
  /\ pc' = "gate"
  /\ LoopOnly /\ UNCHANGED <<state, handleOpen, errors>>

\* The frequency is outside what the device can do.
OutOfCapabilities ==
  /\ pc = "gate" /\ pauseEvent /\ hasDevice
  /\ pc' = "step"
  /\ LoopOnly /\ UNCHANGED <<state, handleOpen, errors>>

\* The frequency is already set (errors unchanged) or gets set.
Tune ==
  /\ pc = "gate" /\ pauseEvent /\ hasDevice
  /\ errors' \in {errors, 0}
  /\ pc' = "scan"
  /\ LoopOnly /\ UNCHANGED <<state, handleOpen>>

\* set_center_freq returns False, its own recovery perhaps having lost the
\* handle; after ReopenAfter errors the device is closed to be reopened,
\* unless that was tried in the last 10 s.
TuneFails ==
  /\ pc = "gate" /\ pauseEvent /\ hasDevice
  /\ errors' = OneMore
  /\ \/ pc' = "step" /\ handleOpen' \in {handleOpen, FALSE}
     \/ OneMore >= ReopenAfter /\ pc' = "reopen" /\ handleOpen' = FALSE
  /\ LoopOnly /\ UNCHANGED state

\* _device is None: AttributeError.
TuneRaises ==
  /\ pc = "gate" /\ pauseEvent /\ ~hasDevice
  /\ CountError(OneMore)
  /\ LoopOnly /\ UNCHANGED handleOpen

\* After the two seconds' sleep of the reopen.
Reopen ==
  /\ pc = "reopen"
  /\ IF hasDevice THEN pc' = "opening" /\ UNCHANGED <<state, errors>>
                  ELSE CountError(errors)
  /\ LoopOnly /\ UNCHANGED handleOpen

\* open returns; then the gain and the frequency are set again.
Reopened ==
  /\ pc = "opening"
  /\ handleOpen' \in BOOLEAN
  /\ \/ handleOpen' /\ hasDevice /\ errors' = 0 /\ pc' = "step" /\ UNCHANGED state
     \/ CountError(errors)
  /\ LoopOnly

\* The dwell is over, stop is seen or the device is gone.
ScanOver ==
  /\ pc = "scan"
  /\ pc' = "step"
  /\ LoopOnly /\ UNCHANGED <<state, handleOpen, errors>>

ReadSamples ==
  /\ pc = "scan" /\ ~stopEvent /\ DeviceOk
  /\ pc' = "reading"
  /\ LoopOnly /\ UNCHANGED <<state, handleOpen, errors>>

\* No samples; read_samples may have lost the handle in its own recovery.
ReadNothing ==
  /\ pc = "reading"
  /\ errors' = OneMore
  /\ pc' = IF OneMore >= MaxErrors THEN "step" ELSE "scan"
  /\ handleOpen' \in {handleOpen, FALSE}
  /\ LoopOnly /\ UNCHANGED state

\* stop has outlived its join: _device is None after the device check, or there
\* are samples but _processor or _detector is None.
ReadRaises ==
  /\ pc = "reading"
  /\ \/ ~hasDevice /\ CountError(OneMore)
     \/ ~hasDetector /\ CountError(1)
  /\ LoopOnly /\ UNCHANGED handleOpen

\* Samples: the spectrum goes through the detector.
ReadSpectrum ==
  /\ pc = "reading" /\ hasDetector
  /\ Detector!ProcessSpectrum(Loop)
  /\ errors' = 0
  /\ pc' = "callbacks"
  /\ UNCHANGED <<controlVars, deviceVars, hasDetector, storageVars>>

OnEventStarted ==
  /\ pc = "callbacks"
  /\ Detector!CallStarted(Loop)
  /\ UNCHANGED <<controlVars, deviceVars, hasDetector, pc, errors, storageVars>>

\* The client's on_event_started raises, also into the loop's except clause.
StartedRaises ==
  /\ pc = "callbacks"
  /\ Detector!OnStartedRaises(Loop)
  /\ CountError(1)
  /\ UNCHANGED <<ctl, used, stopEvent, pauseEvent, flushed, overdue,
                 deviceVars, hasDetector, storageVars>>

\* _on_event_detected for one completed event.
OnEventDetected ==
  /\ pc = "callbacks"
  /\ Detector!CallCompleted(Loop)
  /\ SaveReported(completed' \ completed, {})
  /\ UNCHANGED <<controlVars, deviceVars, hasDetector, pc, errors>>

\* save_event, or the client's on_event after it, raises out of process_spectrum into the
\* loop's except clause.
SaveRaises ==
  /\ pc = "callbacks"
  /\ Detector!OnEventRaises(Loop)
  /\ \/ SaveReported({}, completed' \ completed)
     \/ SaveReported(completed' \ completed, {})
  /\ CountError(1)
  /\ UNCHANGED <<ctl, used, stopEvent, pauseEvent, flushed, overdue,
                 deviceVars, hasDetector>>

CallbacksDone ==
  /\ pc = "callbacks" /\ Detector!Idle(Loop)
  /\ pc' = "scan"
  /\ LoopOnly /\ UNCHANGED <<state, handleOpen, errors>>

MonitorLoop ==
  \/ Begin \/ Top \/ CheckDevice \/ StepsOver \/ NextStep
  \/ OutOfCapabilities \/ Tune \/ TuneFails \/ TuneRaises \/ Reopen \/ Reopened
  \/ ScanOver \/ ReadSamples \/ ReadNothing \/ ReadRaises \/ ReadSpectrum
  \/ OnEventStarted \/ StartedRaises \/ OnEventDetected \/ SaveRaises \/ CallbacksDone

-----------------------------------------------------------------------------
Init ==
  /\ Detector!Init
  /\ state = "STOPPED" /\ ctl = "idle" /\ used = FALSE
  /\ stopEvent = FALSE /\ pauseEvent = TRUE
  /\ hasDevice = FALSE /\ handleOpen = FALSE /\ hasDetector = FALSE
  /\ pc = "none" /\ errors = 0
  /\ flushed = {} /\ rows = EmptyBag /\ eventsDetected = 0
  /\ saveFailed = {} /\ overdue = FALSE

\* The clock, shared by both threads.
Clock ==
  /\ Detector!Tick \/ Detector!ClockSetBack
  /\ UNCHANGED <<controlVars, deviceVars, hasDetector, pc, errors, storageVars>>

Next == Clock \/ Control \/ MonitorLoop

Spec == Init /\ [][Next]_monitorVars

\* A call of stop runs on; the monitor thread is scheduled; a sweep has
\* finitely many steps and a dwell finitely many reads.
Fairness ==
  /\ WF_monitorVars(StartReturns \/ Join \/ FlushEvents \/ FlushRaises
                    \/ SaveFlushed \/ SaveFlushedRaises \/ Cleanup)
  /\ WF_monitorVars(MonitorLoop)
  /\ SF_monitorVars(StepsOver) /\ SF_monitorVars(ScanOver)

FairSpec == Spec /\ Fairness

-----------------------------------------------------------------------------
(* Properties *)

TypeOK ==
  /\ Detector!TypeOK
  /\ state \in States /\ ctl \in ControlPoints /\ pc \in LoopPoints
  /\ {used, stopEvent, pauseEvent, hasDevice, handleOpen, hasDetector, overdue}
       \subseteq BOOLEAN
  /\ errors \in 0 .. MaxErrors
  /\ flushed \in SUBSET Detector!Completed
  /\ IsABag(rows) /\ BagToSet(rows) \subseteq Detector!Completed
  /\ eventsDetected \in Nat
  /\ saveFailed \in SUBSET Detector!Completed

\* A stop whose join succeeded leaves nothing behind: no live thread, no open
\* device handle, no open event and no callback still to be made.
StoppedIsQuiet ==
  (state = "STOPPED" /\ used /\ ~overdue) =>
    /\ ~Alive /\ ~handleOpen /\ ~hasDetector
    /\ active = << >> /\ Detector!Idle(Loop)

\* Each event handed to on_event is in the database or its save raised, and
\* _events_detected counts them, failed saves included.
ReportedIsSaved ==
  /\ completed = BagToSet(rows) \cup saveFailed
  /\ BagToSet(rows) \cap saveFailed = {}
  /\ eventsDetected = Cardinality(completed)

\* stop ends the monitor thread, also one that is paused or reopening.
StopEndsThread == stopEvent ~> ~Alive

=============================================================================
