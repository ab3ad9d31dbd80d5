# SkyShield: TLA+ models, checks and proofs

This directory holds a formal model of the stateful core of this repository: the
library and daemon through which its receivers are driven (`src/libiio-0.26`), the
desktop analyser (`src/src/rf_analyzer`), the field worker (`src/src/sdr_worker.py`)
and, as a plan, the backend (`src/backend/app`). The modules are translated from the
code at the lines that `PROJECT.json` names definition by definition; TLC checks
them on small instances and TLAPS proves the main invariants for every value of
the constants.

    tlc -config Detector.cfg MCEventDetector      # any cfg with its MC module
    tlapm EventDetectorProofs.tla                 # any *Proofs module

Contents: [1 The system](#1-the-system) · [2 The modules](#2-the-modules) ·
[3 The runs](#3-the-runs) · [4 Fairness](#4-fairness) · [5 The proofs](#5-the-proofs) ·
[6 Where the code differs from what it says](#6-where-the-code-differs-from-what-it-says) ·
[7 What is not modelled](#7-what-is-not-modelled) · [8 Plan](#8-plan)

## 1 The system

Two programs listen for drone control and video links with an SDR receiver.

* The **desktop analyser** sweeps configured frequency ranges, turns spectra into
  *events* (a signal in a range from its rise to its fall), stores them in SQLite,
  shows them in a GUI and sends Telegram notifications.
* The **field worker** runs on an Orange Pi under systemd (`Restart=always`,
  `deploy/orangepi`). It scans channels in turn, condenses each cycle into a
  status OK / WARNING / CRITICAL, tells Telegram, an alert gateway and the
  telemetry backend. The **backend** (FastAPI, same host) keeps telemetry, serves
  a dashboard and forwards alerts to VK/Telegram with a cooldown.
* **libiio** brings samples from a receiver's converter to such programs. A program
  uses one *context*: of the machine it runs on (local backend), or of another
  machine whose daemon **iiod** it talks to over a socket (network backend) or a USB
  gadget (USB backend). iiod is itself a program on the local backend.

```
 desktop                                          field
 MainWindow / cli / daemon                        sdr_worker.main ----- Telegram
   | start stop pause update_config                 |          \
 RFMonitor --- SDR device                    telemetry post   alert post
   | spectrum     ^ samples                         v          v
 EventDetector    |                              backend: telemetry.py, notifications.py
   | on_event, on_event_started                     |          | background sends
 EventStorage   TelegramNotifier (thread)         SQLite     VK, Telegram

 libiio:  device.c channel.c buffer.c context.c
            |            |             |
      network.c ---.   usb.c        local.c ---- sysfs, /dev/iio:deviceN
      iiod-client.c |    | couples of endpoints      ^
                    v    v                           |
          iiod:  ops.c sessions <-> rw_thd ----------+
                 iiod.c, thread-pool.c, usbd.c, dns-sd.c: who lives how long
```

### Inventory

| Component | State it keeps | Operations | What is hard | What makes it correct |
|---|---|---|---|---|
| iiod sessions, `iiod/ops.c` | entries (device openings, each with a thread), handles of clients, answers under way | open, close, read, write, connect, hang up, stop; the loop of `rw_thd` | many clients share one buffer and its mask; a condition variable, an event per handle and reference counts; clients break off in mid-answer | references are exact; one buffer per device; answers in step; no lost wakeup; stop ends everything |
| iiod life, `iiod.c`, `thread-pool.c`, `usbd.c`, `dns-sd.c` | main's stage, pools with stop events, pipes, Avahi objects | signals, accept, the host's USB requests, Avahi callbacks | restart on SIGUSR1 while threads are anywhere; a pipe reopened before its session has ended | no thread outlives the context; a stop empties the pool; a pipe's new session is not stopped by the old stop |
| Network client, `network.c`, `iiod-client.c` | connections, their locks, timeouts, the cancel event | all commands, buffers, `set_timeout`, cancel | answers are told apart by counting only; errors within an answer; cancel from any thread | nothing of an answer is left to the next call; timeouts agree; cancel is final and ends the call |
| Local buffers, `local.c`, `buffer.c` | who holds each block, pointers, masks, timeout budget | create, destroy, refill, push, kernel buffer count, blocking mode, cancel | two kernel interfaces, each ioctl may fail, retry of a push | one holder per block; pushed once; open or clean; what is returned was moved |
| USB client, `usb.c` | endpoint couples, `ep_lock`, transfers in flight | connect, shut down, open, close, transfers, cancel | locks over exchanges that fail; a program that dies | couples exclusive, pipes closed, cancel reaches the transfer |
| Data model, `local.c`, `context.c`, `device.c`, `channel.c`, `xml.c`, `buffer.c` | the tree of devices, channels, attributes; masks; blocks of attributes | scan of sysfs, XML out and in, enable, layout, conversion, read and write of all attributes | order of `readdir`, names told apart by prefixes, two ends that must agree without saying so | the tree is the directory; both ends agree; samples and values arrive where they belong |
| Event detection, `detection/detector.py` | open event per range, last wideband detection, spectrum count, two callback lists per call | `process_spectrum`, `flush`, `update_ranges` | callbacks run after the lock is released; four ways to close an event; wall-clock time; `on_event` may raise | every event meets exactly one fate; nothing shorter than its minimum is reported |
| Monitor engine, `engine/monitor.py` | state, stop and pause events, device, detector, error count, event count | `start`, `stop`, `pause`, `resume`, `update_config`, the monitor loop | two threads, a join with a timeout, device errors and reopening, errors inside callbacks | stop leaves nothing running or open; every reported event is saved; stop takes effect |
| Event storage, `storage/event_storage.py` | the events table | `save_event`, queries, deletion | save may raise in either thread | rows = reported events |
| Telegram notifier, `notifications/telegram_notifier.py` | queue, waiting keys, last notification per key | `start`, `stop`, `notify_event/status/error`, the worker with retries | GUI thread and worker share two maps without a lock; retries with long sleeps; stop at any point | at most one message per key in flight, deliveries a cooldown apart |
| Field worker, `sdr_worker.py` | cycle readings, smoothed level, status with hysteresis counter, ELRS event window, video confirmation count, alert and post times | one loop iteration; restart | detections and smoothed levels change the status by different paths; device loss inside a cycle; failed posts; wall-clock steps | status fits level; a lasting threat is repeated; the backend catches up |
| Alert gateway, `routers/notifications.py` | last alert per source, settings | `receive_alert`, settings, background sends | cooldown stamped before a send nobody watches; monotonic clock near boot | a lasting threat is heard |
| Telemetry service, `routers/telemetry.py` | cache of latest values, history in a database | ingest, latest, history | cache and database diverge on failure and restart | latest is never older than history |
| SDR devices, `rf/sdr_device.py` | handle, cached frequency and gain | open, close, set, read | the cache survives a reopen | what is recorded as tuned is tuned |
| Desktop session, `gui/main_window.py` | monitor, notifier, watchdog, pending preset | start, stop, preset switch, watchdog tick | re-entrancy, a watchdog that reads what it refreshes | one live monitor at a time |
| Licence, `license/license_manager.py` | counters in a file | activate, check, record a report | file read-modify-write | limit respected |
| Signal processing, export, reports, configuration, CLI | none or files | pure functions and I/O | numerics | not state machines |

Components that interact: the monitor calls the detector on its own thread, and on
the controlling thread in `stop` (flush) and `update_config` (`update_ranges`); the
detector calls back into the monitor, which saves and emits; the GUI forwards
events to the notifier; the worker posts to the two backend routers. In libiio the
network and USB clients speak to iiod's sessions, which use the local backend; both
ends hold a tree made from the same XML. The hazards of this code are listed in
`PROJECT.json` with their lines and the properties that guard them; those for which
there is no property are in sections 6 and 7.

## 2 The modules

| Module | Models | Extends / uses |
|---|---|---|
| `IiodServer` | `iiod/ops.c`: sessions, entries, `rw_thd` | |
| `IiodDaemon` | `iiod.c`, `thread-pool.c`, `usbd.c`, `dns-sd.c` | |
| `NetworkClient` | `iiod-client.c`, `network.c`, and the daemon as it answers | |
| `LocalBuffer` | buffers of `local.c`, `buffer.c` | |
| `UsbBackend` | `usb.c` | |
| `DeviceScan` | `local.c`: from file names to devices and channels | |
| `ContextXml` | order of channels, XML written and read | `DeviceScan` |
| `SampleLayout` | sample sizes, places, conversions | `ContextXml` |
| `AttrBlocks` | all attributes in one block | `ContextXml` |
| `DataModel` | the four above as one life of a device, from sysfs to a client's buffer | `SampleLayout`, `AttrBlocks` |
| `EventDetector` | `detection/detector.py` | |
| `RFMonitor` | `engine/monitor.py`, `save_event`, the device seen from the monitor | `INSTANCE EventDetector` |
| `TelegramNotifier` | `notifications/telegram_notifier.py` | `INSTANCE NotificationGate` |
| `NotificationGate` | abstract: what a per-key rate limiter promises | |
| `ThreatWorker` | the loop of `sdr_worker.py` | |
| `*Proofs` | theorems of the component of that name; `IiodProofs` those of both `IiodServer` and `IiodDaemon` | the component, TLAPS |
| `MC*` | TLC values for the constants | the component |

In each component module the operators with a suffix (`Flush_KeepsOpen`,
`Join_NoWait`, ...) and the word *mutant* in their comment are plausible bugs of
the definition of the same name. They are no part of the model: each property is
known to notice the bug that `PROJECT.json` pairs it with.

### IiodServer

| Model | Code |
|---|---|
| `entries`, `rw` | the `DevEntry` structures with `ref_count`, `thdlist`, mask, flags; where `rw_thd` is |
| `thds`, `handles` | the `ThdEntry` structures, `pdata->thdlist_head` |
| `sess` | the interpreter of one client and what it has not yet read of its answer |
| `OpenNew`, `OpenJoin`, `CheckOpen`, `OpenWait` | `open_dev_helper` with the race between finding an entry and adding to it |
| `Measure`, `Rw`, `RwWait`, `RwBroken`, `Answered`, `LastLine` | `rw_dev`, `rw_buffer` before its lock and under it, the lines of an answer |
| `Iterate`, `Refill`, `RefillFails`, `PushBegins`, `Push`, `LeaveLoop`, `Leave` | one turn of `rw_thd`, cut where it lets go of `thdlist_lock` and where a push begins to wait under it (`Locked`) |
| `Unlisted`, `RemoveThd`, `FreeHandles`, `Put` | `remove_thd_entry`, `close_dev_helper`, `dev_entry_put` |

A step holds `thdlist_lock`, or is the piece between two places where the code gives it up;
the transfer to a client under the lock is part of the step. The exception is a push: it
waits for the device with the lock held, in a state of its own in which nobody else takes
the lock. Identities of freed entries are used again. A sample has one byte per channel, so
that a change of mask changes the size of samples.

### IiodDaemon

`pc` is the stage of `start_iiod` within `main`'s loop. A pool is the set of its threads,
the stop flag and the event in `stop_fd`, which `thread_pool_stop` writes and
`thread_pool_restart` or the end of `stop_and_wait` clears: places that may interleave with
signals, which also come between the clearing of the event and that of the flag
(`RestartPool`, `ClearStop`) and between the wait and the clearing (`WaitPool`,
`PurgePool`). `usbd_main` (`ClosePipes`, `OpenPipe`, `LeavePipe`,
`OpenEndpoints`, `EndUsb`) stops the pool of a pipe and waits for its session before it
opens the endpoints anew. The Avahi thread's attempts, callbacks and clean-up are steps
of their own beside `stop_avahi` of main.

### NetworkClient

A connection is three places: what is on its way up, the answer the daemon is giving, what
is on its way down; a unit on the way is a line with a number, a version, or a run of bytes.
A command is sent (`Send`) and its answer taken unit by unit (`TakeLine`, `TakeInt`,
`TakeValue`, `TakeMask`, `TakeSamples`, ...), in the order of `iiod_client_read_integer` and
its callers, with the errors at which the code stops reading. `Orphaned` and `TimeOut` are a
command given up. `Refuse` is a write that the daemon answers before it has read the value,
which stays in the stream and is taken for a command, or for the beginning of one
(`LeftOver`, `Misread`). `broken` says on which connections either has happened. `limits`
has the timeout of the context, of its socket and of the daemon, which another client may
change (`OtherClient`); `Spins` is a value that is discarded with a buffer of no size.
`network_cancel` is two steps (`Cancel`, `NoteCancel`), as in the code. Units carry their
owner for the properties only.

### LocalBuffer

`Create` runs all of `local_open` with a failure possible at each step (`Opened`,
`OpenBroken`, `OpenFailed`, `Unwound`). A call goes through `enqueue`, `check`, `poll`
and `move`, each a step, so that a cancel, an interrupt, the device and time may come
between. `holder` says who has each block of the high-speed interface; `fifo` counts the
samples of the other. `budget` is what is left of the timeout (`get_rel_timeout_ms`).
`Result` is what a call returns beside what it did: samples moved, a block handed over,
begun after the cancel or not.

### UsbBackend

Opening is `Enter` (wait for `ep_lock`), `OpenLocked` (reserve a couple), `OpenPipe`
(control transfer), four transfers for the OPEN command, then `OpenDone` or
`ClosePipe`; closing likewise. `Submit`, `Complete`, `Abort`, `TransferDone` are one bulk
transfer. The gadget's side is `pipes`: closed, idle or serving a device. `Die` is a
program that ends without closing; `Connect` resets what it left.

### The data model

`DeviceScan` works on file names cut into words; `ContextXml` on what the XML holds, with
numbers printed as the code prints them (a scale with six digits); `SampleLayout` on
bytes, with widths and two's complement; `AttrBlocks` on cells of four bytes. `DataModel`
puts them together: files come in any order, the tree is completed, the context sorted,
described and rebuilt by a client, channels enabled, buffers written by the one end and
read by the other, attributes written and read in blocks. Where the code recurses or
loops the modules fold.

### EventDetector

| Model | Code |
|---|---|
| `ProcessSpectrum(c)` | `process_spectrum` up to the release of the lock: classification, `_check_range` of each range, `_close_stale_events` |
| `CallStarted(c)`, `CallCompleted(c)`, `OnStartedRaises(c)`, `OnEventRaises(c)` | the callback loops after it, one call per step; an exception abandons the rest, that of `on_event_started` all completed events too |
| `Flush(S)` | `flush`, with the lock held over its callbacks; `S` are the ranges it reaches before a callback raises |
| `UpdateRanges(new)` | `update_ranges`, which ignores what `_close_event` returns |
| `Tick`, `ClockSetBack` | `time.time()` and its corrections |
| `active`, `lastWideband`, `spectrumCount`, `ranges` | `_active_events`, `_last_wideband_detection`, `_spectrum_count`, `ranges` |
| `announced`, `completed`, `discarded`, `dropped`, `skipped` | history: what became of each event |

A spectrum is the set of ranges above threshold and the subset with a signal wider
than 200 kHz; nothing else of it decides anything about the life of an event. An
event is identified by its range and the spectrum that opened it.

### RFMonitor

The controlling thread has a program counter `ctl` (`start`, then `stop`: join,
flush, save, cleanup) and the monitor thread a `pc` (top of the loop, pause gates,
frequency step, reopen, dwell, read, callbacks). Every call in the loop that may
fail or raise does so in a step of its own (`TuneFails`, `TuneRaises`,
`ReadNothing`, `ReadRaises`, `StartedRaises`, `SaveRaises`, `Reopen`/`Reopened`, ...), and the error
counters decide as in the code: `break` in the error branches leaves only the loop
over frequency steps, so a monitor in state ERROR goes on sweeping.
`Detector!...` steps are the detector's actions with the single caller `Loop`;
`Flush` and `UpdateRanges` are taken by the controlling thread. `rows` is a bag,
because what matters about the events table is how often an event is in it; a callback that
raises does so in the save or, with the row written, in the client's function behind it.
`start` sets RUNNING only after the thread was started (`StartReturns`), so the
thread's ERROR can be overwritten; the writes of `stop` up to the join, and
`_cleanup`, are one step each. `_cleanup` runs even when the join timed out.

### TelegramNotifier and NotificationGate

`notify_event` is four steps (waiting-key test, cooldown test, `add`, `put`) and the
worker's success is two (`StampNotification`, `DiscardPending`), because the two maps
are shared without a lock. Sleeps between attempts end whenever they like; a stop is
seen only at the head of an attempt, as in the code. The refinement to
`NotificationGate` hides the queue, the two threads and the order stamp-then-release:
a key counts as in flight until it is stamped.

### ThreatWorker

`pc` cuts an iteration into the reading (`OpenSdr`, `ReadFails`, `Read`), the alert
post and the telemetry post. `Read` contains the whole decision when it completes a
cycle: `Detect` (ELRS window of peaks, video confirmation count), `Stronger`
(strongest detection of the cycle), `Decide` (a detection sets status and level,
otherwise `Smooth` and the hysteresis of `_next_stable_status` in `Aim`,
`Confirmed`, `NextPending`). `Announcement` is the Telegram message of a change, if it can
be sent: one that cannot is given up, and nothing remembers it. Levels are whole
percents, smoothing rounds down. Times are ages, which need not grow beyond the
interval they are compared with; so time is unbounded in this module, and no
behaviour ends because a clock ran out. An alert post counts as sent when
it is answered, even if the answer says that the gateway refused it, as in
`send_notification_alert`.

## 3 The runs

| Run (cfg) | Distinct states | Question |
|---|---|---|
| `IiodServer` | 182 936 | A reader and a client that reads, writes or writes a cyclic buffer share a device, join, leave, break off in mid-answer; the kernel fails; the pool is stopped. |
| `IiodDaemon` | 91 528 | SIGTERM and SIGUSR1 at any point, every stage may fail, two network and two USB clients, Avahi comes and goes. |
| `NetworkClient` | 206 179 | Two threads give commands, one has a buffer the other cancels; one exchange is given up or one write refused early; another client changes the daemon's timeout. |
| `LocalBuffer` | 117 768 | Input and output, both kernel interfaces, blocking or not, cyclic or not, with and without a timeout, each system call may fail, cancel at any point. |
| `UsbBackend` | 94 484 | Two threads, two devices, couples for one or for both; transfers fail, cancels come, the program dies. |
| `DataModel` | 7 207 | Nine directories; all orders of their files; all masks; all elements from `SampleValues`; all answers of write callbacks. |
| `Detector` | 1 591 287 | Two ranges of different minimum duration, two threads inside `process_spectrum`, a storage that may raise, a clock set back, flush and reconfiguration at any point. |
| `Monitor` | 197 584 | Failing storage, reconfiguration, every device failure, a join that may time out: what is left of a monitor that was stopped? |
| `Telegram` | 54 500 | Two unlocked threads, failing sends, stop anywhere: is the notifier a rate limiter per key (`ImplementsGate`)? |
| `Worker` | 108 372 | Two channels with both detectors, device losses, failing posts and restarts anywhere. |
| `ClientLate`, `DataForeach` | | each shows one disagreement of section 6 |

### Properties worth knowing

*iiod.* `ReferencesAreCounted`, `OneBuffer` and `NoLostWakeup` are about what the threads
know of each other; `AnswersInStep` and `OneMaskPerAnswer` about what a client reads while
others come and go. A session that waits has its event coming, or its thread is awake and
has it to serve; the exception is `Outgrown`, a request that became smaller than a sample.
`AnswersInStep` has three exceptions, each the mark that a change of the mask or a failed
buffer leaves in a handle (section 6); all other ways to break off, fail and be stopped keep
the two ends in step. `StopEndsAll` needs no device that delivers: the last client that
leaves cancels the refill. It does need that no push goes on for ever, since nobody can
leave meanwhile (section 6), and says so in its premise. `ContextOutlivesThreads` is what a
restart must not break; `StopEmptiesPool` says that the event which stops the threads is not
cleared too early; `OpenedPipeStays` that it is not cleared too late.

*Network client.* `NothingIsLeft` is about every path by which an answer is read in
part: errors, values without room, a mask that is not wanted, writes that fail. It makes no
claim of connections on which an exchange was given up, of which `ClientLate` shows what
happens there, or a write was refused before its value was read. `TimeoutsAgree` says that
the timeout a new buffer takes over is twice the daemon's and that of the socket, but for the
two ways in which they part: another client's change and a refused change. `CallsReturn`
leaves out the call that spins. `CancelIsFinal` and `CancelEndsCalls` quote `iio.h`.

*Local buffers.* `BlocksHaveOneHolder` relates `last_dequeued`, the pointer of the
buffer and the driver's queue after any sequence of failures; of the pointer it says nothing
while a call that failed after its enqueueing waits to be tried again. `PushedOnce`, of
high-speed devices, is what `last_dequeued = -1` in `local_get_buffer` is for. `OpenOrClean`
checks all unwinding of `local_open`. `ReturnsWhatWasMoved` is about the interface without
blocks and about calls that succeed or say that there is nothing: a timeout, a cancel or an
error hides what was moved before it. `CancelIsFinal` allows for the block that a push hands
over before it looks at the event, the last one there is to hand over.

*USB.* `CancelReachesTransfer` is the comment at `usb.c:598`. `PipesAreClosed` leaves
out pipes of which a control transfer failed (`lost`): nobody can know those.
`LockIsGivenBack` needs transfers with a timeout.

*Data model.* `TreeIsTheDirectory` is a second definition of the tree, by what each
file name says, without an order; `BothEndsAgree` compares the two ends channel by
channel; `SamplesAreKept` asks that reading a channel gives what was written last,
under every mask; its premise `Regular` is that channels which share a place do so with
their predecessor and are not written. `ValuesReachTheirNames` needs a `BlockLen`
that all values fit into.

*Detector.* `OneFate`: open, reported, being reported, discarded, dropped, skipped
exclude each other and `on_event` is called at most once, although the callback
lists are walked after the lock is released. `ReportedLongEnough` also covers ranges
removed under an event, and clock corrections.

*Monitor.* `StoppedIsQuiet`, `ReportedIsSaved` (failed saves are counted but named) and
`StopEndsThread`. `~overdue` in the first is the join that succeeded.

*Notifier.* `PendingIsInFlight` ties the set of waiting keys to the queue and both
program counters; `ImplementsGate` is what users see.

*Worker.* `StatusMatchesLevel` holds over all mixtures of the two decision paths.
`AlertsRepeat` and `BackendCatchesUp` are about a service that runs on (`StaysUp`); a
worker that is restarted again and again may never come to post.

### Bounds

| Bound | Value | Why it is enough |
|---|---|---|
| iiod: 2 clients, 1 handle each, 2 entries | | one stays while the other joins and leaves; an old entry beside a new one |
| iiod: buffers of 3 samples of channel {1} and of 4 of channel {2} | | each mask and their union, of different sample size; a request is answered in one refill or several, and what is left of one may be less than a sample once the mask has grown; `Demux` FALSE, the daemon's default (option `-D`) |
| daemon: 2 clients, 2 pipes, `MaxTries` 3 (code: 20) | | pipes closed alone and together; first, middle and last attempt |
| client: 2 threads, `Timeouts` {2, 4}, `Breaks` 1 | | the second thread waits for the lock or cancels; a timeout raised and lowered; one exchange is given up or one write refused early, at any point |
| client: `InTurns` TRUE | | commands of the two connections do not overlap, which share nothing but the timeout that a new buffer takes over; while the timeouts are apart only `set_timeout` is called; `MaxLate` 2 in `ClientLate` lets a connection with late units be used again, in `NetworkClient` (0) only once they have come |
| local: 2 channels, 2 samples, 3 blocks, `Timeouts` {0, 2} | | partial reads and writes, one block at each place, time passing before, at and after the limit |
| USB: `MaxEps` 3, initial 2 or 3 couples | | one or two for devices, beside that of the commands |
| data: 2 samples, values {1, 65535}, write answers {-1, 0, 4, 5}, `BlockLen` 64 | | lowest and all bits, sign; error, nothing, a text that fills its cell and one that does not; 64 bytes hold all texts of a device (code: 1 MiB) |
| `MaxTime` | 2 (detector), 1 (monitor), 4 (notifier) | minimum durations are 0, 1 and 2 ticks, the wideband timeout 2, the cooldown 2: both sides of the comparisons occur; 4 allows two cooldowns |
| `MaxSpectra` | 2 (detector), 3 (monitor) | opening and closing an event, and a second event of another range or caller; 3 for a second event of one range |
| `MaxBack` | 1 | a clock set back below a duration and past it |
| callers 2, ranges 2 (monitor: 1) | | two threads with callback lists; ranges differ in minimum duration |
| `ReopenAfter` 1, `MaxErrors` 2 (code: 3, 10) | | one error below, at and above each limit |
| `MaxQueue` 1 | | status messages only, event messages are limited by their keys |
| `MaxAttempts` 2 (code: 5) | | one retry, then giving up |
| worker: levels {2, 80}, smoothing factor 1 (as deployed, `THREAT_EMA_ALPHA=1.0`), `Confirm` 2 | | quiet and critical in any sequence; without smoothing the level jumps as far as it can |
| `MaxConfirmCount` 1, `ElrsWindow` 0, `ElrsCrit` 2, `PostInterval` 2, `Retry` 1 | | both detectors decide and do not; a post that is due, not due and failed. The code's `confirm_count` has no limit: a signal that lasted long keeps the status up for as many quiet cycles |

The runs use no symmetry, and each passing run explores its whole state space.
`CHECK_DEADLOCK FALSE` is set where the system really may stop: a daemon that has
exited or whose clients have gone (`IiodServer`, `IiodDaemon`), a context that was
destroyed after a break (`NetworkClient`, `ClientLate`), a device whose attributes were
written (`DataModel`, `DataForeach`), a monitor and a notifier that were stopped.

## 4 Fairness

* *iiod sessions*: weak fairness of each session that can go on and of each device
  thread, which includes that a cancelled refill returns (`poll` on the cancel event in
  `local.c`). None of clients, who may never read on, and none of the kernel: a refill may
  never deliver and a push never end.
* *iiod life*: weak fairness of main and of the USB and Avahi threads; a session ends once
  its pool's event is there (what `StopEndsAll` shows of `IiodServer`).
* *Network client*: weak fairness of the daemon's answers on the control connection (its
  commands do not wait) and of the thread in a buffer call; strong fairness of each
  thread's command, since the lock is given to all who wait for it, in some order. None
  of the daemon on the buffer's connection, which waits for the device.
* *Local buffers*: weak fairness of a thread in a call, with time passing in `poll`. None
  of the device.
* *USB*: weak fairness of each thread's step, libusb's end of an aborted or timed-out
  transfer included. None of a transfer's success.
* *Detector*: weak fairness of each caller's callbacks. A thread that entered
  `process_spectrum` runs its callback loops; nothing blocks there.
* *Monitor*: weak fairness of the rest of a `start` or `stop` that was called, and of
  the monitor thread (OS scheduling). Strong fairness of the end of a sweep
  (`StepsOver`) and of a dwell (`ScanOver`): the loops have finitely many passes,
  which the model abstracts to a free choice. No fairness of the controlling
  thread's decisions: it may never call `stop`.
* *Notifier*: weak fairness of the worker (all its waits have timeouts) and of a
  `notify_event` under way. None of the Telegram API: it may fail for ever.
* *Worker*: weak fairness of the loop and of time. About the world outside, strong
  fairness: the device can be opened, each channel be read, and the services answer,
  again and again. Without these the properties are false for reasons outside the
  program (an unplugged receiver). Premises such as "the level stays critical" are
  written into the properties and not into the fairness.

## 5 The proofs

All theorems are proved for every value of the constants that satisfies the named assumption
of the component (`ServerAssumption`, `DaemonAssumption`, `ClientAssumption`,
`LocalAssumption`, `UsbAssumption`, `DetectorConstants`, `MonitorConstants`,
`NotifierConstants`, `WorkerConstants`), which TLC evaluates in every run. Each inductive
invariant was an invariant of a TLC run on the instance of section 3 before it was proved.
The two halves of the daemon share one proof module, which is why the definitions of
`IiodDaemon` that every specification has are called `DaemonInit`, `DaemonNext`,
`DaemonSpec`.

| Theorem | Says |
|---|---|
| `IiodProofs!DaemonTypes` | the type invariant of `IiodDaemon` |
| `IiodProofs!ContextIsNotOutlived` | `DaemonSpec => []ContextOutlivesThreads`, for any number of clients, pipes and attempts |
| `IiodProofs!OpenedPipesStay` | `DaemonSpec => []OpenedPipeStays` |
| `IiodProofs!ServerTypes` | the type invariant of `IiodServer`: reference counts are never negative, samples never empty |
| `IiodProofs!ServerReferences`, `!ServerOneBuffer` | `ReferencesAreCounted`, `OneBuffer`, for any clients, handles and entries |
| `IiodProofs!ServerWakeups` | `Spec => []NoLostWakeup` |
| `IiodProofs!ServerOneMask` | `Spec => OneMaskPerAnswer` |
| `IiodProofs!ServerAnswers` | `Spec => []AnswersInStep` |
| `NetworkClientProofs!ClientTypes` | the type invariant: a cancel event exists only with its `io_ctx` |
| `NetworkClientProofs!ConnectionsAreClean` | `Spec => []NothingIsLeft`, for any threads, timeouts and breaks, in turns or not |
| `NetworkClientProofs!TimeoutsStayTogether` | `Spec => []TimeoutsAgree`: a refusal and another client are the only ways in which they part |
| `NetworkClientProofs!CancelledCallsFail` | `Spec => CancelIsFinal` |
| `NetworkClientProofs!CallsGetTheirAnswers` | `Spec => AnswersAreOwn`: on a connection on which no exchange was given up and no write refused early, a call returns what answers its own command |
| `LocalBufferProofs!LocalTypes` | the type invariant of driver, device, buffer and call |
| `LocalBufferProofs!LocalBlocks`, `!LocalPushes` | `BlocksHaveOneHolder`, `PushedOnce`, for any number of blocks |
| `LocalBufferProofs!LocalOpenOrClean` | `Spec => []OpenOrClean` |
| `LocalBufferProofs!LocalReturns`, `!LocalCancel` | `ReturnsWhatWasMoved`, `CancelIsFinal`, each in the scope of section 3, for any lengths and timeouts |
| `UsbBackendProofs!TypeCorrect` | the type invariant: no couple is taken that the interface does not have |
| `UsbBackendProofs!CouplesStayExclusive`, `!PipesStayClosed`, `!CancelIsNotMissed` | `CouplesAreExclusive`, `PipesAreClosed`, `CancelReachesTransfer`, for any threads, devices and couples |
| `EventDetectorProofs!TypeCorrect` | `Spec => [](TypeOK /\ ActiveConfigured)` |
| `EventDetectorProofs!GapRuleIsDead` | `Spec => []GapRuleClosesNothing` |
| `EventDetectorProofs!ReportsAreLongEnough` | `Spec => []ReportedLongEnough`, for any number of callers and clock corrections of any size |
| `EventDetectorProofs!EveryEventHasOneFate` | `Spec => []OneFate` |
| `RFMonitorProofs!MonitorTypes` | the type invariant |
| `RFMonitorProofs!StopLeavesNothing` | `Spec => []StoppedIsQuiet` |
| `RFMonitorProofs!ReportsAreSaved` | `Spec => []ReportedIsSaved`, for any ranges, limits and reconfigurations |
| `TelegramNotifierProofs!TypeCorrect`, `!NoDuplicateInFlight`, `!DeliveriesApart` | the type invariant, `PendingIsInFlight`, `DeliveriesAreApart` |
| `TelegramNotifierProofs!NotifierImplementsGate` | `Spec => Gate!Spec` |
| `ThreatWorkerProofs!TypeCorrect`, `!StatusFitsLevel` | the type invariant, `StatusMatchesLevel` |
| `ThreatWorkerProofs!OverIsUnreachable` | the message that the threat is over is never sent |

*iiod sessions.* Four invariants build on each other. `ShareInv` is about the structures:
who is on an entry is in its list until the entry is closed (`Listed`) and counted in
`ref_count` (`Counted`), an entry is closed before its thread leaves and freed after
(`Phases`), a thread that has not left belongs to the entry that new clients join
(`Current`, from which `OneBuffer` follows), and a session's handles are its own and
distinct (`Held`). `ReferencesAreCounted` alone does not say that the handle an action
frees was on the entry. `WakeInv` says who is still to be served: what each flag of a
handle means for the thread (`AskedAt`), that an entry is cancelled only while all who are
in its list wait for a new buffer, and that who waits to be told is listed or has the event
(`Told`). `NoLostWakeup` looks only at sessions that wait; the step that would lose a wakeup
is taken long before. `MaskInv` says that the buffer has the channels and the length of
everybody in the list (`Covered`) and that a reader which was told a mask is given data under
that one (`Headed`). `InStep` says how far the two ends are at each point of an answer
(`Progress`), so that the counts are equal when it ends; it needs `Covered` because a
request of a writer is received at once only if the buffer is as large. `Spec => []ShareInv`
is proved alone, the others each from those before. Steps are proved by what they do to the
structures (a session that goes on, a thread that serves its list, one that leaves, a
handle that is taken off), and the actions are shown to be such steps.

*Network client.* Nothing in an answer says which command it belongs to, so what has to
be shown is a count. `Exchanges` says of each connection on which no exchange was given up
that there is one exchange or nothing: the command is still whole on its way up, or there is
an answer to it of which the daemon has sent the first `j` units and the client taken the
first `i` (`Answered`), and where the call stands says what `i` is (`TakenOf`): after the
mask, between two counts of a read in parts, behind the first line of a write whose samples
are still on their way (`DataUp`). The lemmas `ServeExchange`, `ReplyExchange` and
`TakeExchange` move `j` and `i`; `TakesLast`, `TakesInt`, `TakesCount`, `TakesSamples` and
`TakesStatus` show that what a call does with its unit fits the answer the command may have,
so that the last unit taken is the last there is. `ClientShape` says who may be where: who
waits on the control connection has its lock (`LockFits`), while a context is made there is
one call (`ContextFits`), and what makes it goes on from no exchange that was given up
(`MakingFits`). `LimitsFollow` needs the stream: the daemon has the new timeout as soon as
its answer is on the way, the client when it has come, and `TimeoutsAgree` holds before and
after but not between. All of it holds for two connections used at the same time
(`InTurns` FALSE) as well, which the run leaves out. `AnswersAreOwn` is the other side of
what `ClientLate` finds (section 6): a wrong answer needs a timeout or an early refusal
before it. A connection that either has put out of step need only be well formed
(`RefuseKeeps`).

*Local buffers.* `LocalInv` says that a device is set up in full while there is a buffer or
while one waits for its first block, and that nothing of it is left otherwise (`DeviceSet`);
where a thread in a call may be (`CallFits`); that past the enqueueing it holds no block
(`BlocksHeld`), which is why no push enqueues a block twice; that a push owes a block from
its enqueueing until another is had (`OwedIsOne`); that what is left, moved and whole of a
call add up (`MovedAndLeft`); that a call which began after the cancel is at no point where
it moves samples (`LateMovesNothing`), and that one which has handed a block over has got none
back (`GaveLast`). `local_open` is proved step by step:
`Closable` is what each of its failures leaves for the unwinding to take away.

*iiod life.* `ContextOutlivesThreads` is not inductive: that the context is destroyed only
when the pool is empty says nothing of the sessions of pipes, which are in pools of their
own. `DaemonInv` adds where main is while threads run (`ThreadsRun`), that there is a
context at those stages (`HasContext`), and that `usbd_main`, a thread of main's pool, is
there while a pipe has a session (`PipesAreAttended`): it leaves last, after it has waited
for them. `KnowsStop` says where main knows its pool as stopped. An event alone does not: a
signal between the clearing of the event and that of the flag leaves one without the other.
The lemmas go by who takes the step: signals, main, network sessions, the USB thread with
its pipes, Avahi. What the operators on pools and pipes return is stated once and then used
without their definitions.

*USB.* `UsbInv` adds to the three invariants that who opens or closes holds `ep_lock`
(`LockHeld`), that only the owner of a buffer uses or closes it (`OwnersUse`), and that
the couple a device is being opened with is reserved, is no other device's, and serves
the device as soon as the daemon has said so (`OpeningIsReserved`). Each action has a
lemma, with the types of what it writes apart.

*Detector, notifier, worker.* Events are open for configured ranges only
(`ActiveConfigured`), so a spectrum leaves nothing stale, and each event is told from later
ones by the number of its spectrum (`BornBefore`), which makes `OneFate` inductive. The
notifier's invariants need that the key the GUI thread has in hand is not yet waiting
(`GuiKeyIsFree`) and that a key's cooldown is over from the test to the delivery
(`CooldownInv`); with these each step is one of the gate or none. The worker's rest on
lemmas about `Decide`, by its cases.

*Monitor.* The model is written with the detector's actions, so what `EventDetectorProofs`
proves holds of every behaviour of the monitor; the lemma `MonitorDrivesDetector` carries it
over, through `INSTANCE` with the monitor's thread as the one caller. `QuietInv` adds to
`StoppedIsQuiet` that a call under way was made on a monitor that runs (`Calling`), that
callbacks wait only within `process_spectrum` (`CalledBack`), and how far an unwinding that
had no overdue join has come (`Joined`): from the flush on there is no thread, a thread that
lives has its device and its detector, and after the flush nothing is open. A `stop` that
raised leaves this true, so that the next one can be the last. `SavedInv` needs `OneFate`:
flush reports what was open, which was in no earlier report, so that each report is counted
once; and that ranges are finite, without which `eventsDetected` would count nothing. What
`stop` saves again is in the table (`flushed`).

*Only model-checked*:

* The four properties of the data model: its folds run over sequences, an induction that the
  prover cannot do, so what they compute is checked on the directories of `MCDataModel`.
* All liveness properties, which rest on fairness and are beyond the prover: `StopEndsAll`,
  `StopEmptiesPool`, `CancelEndsCalls`, `CallsReturn`, `LockIsGivenBack`, `StopEndsThread`,
  `AlertsRepeat`, `BackendCatchesUp`. The fairness in `Spec` is not used by any theorem.
* The type invariants of the modules without a proof module hold in the state spaces of their
  runs as well, but are not among the properties listed: each would follow from the shape of
  the model.

## 6 Where the code differs from what it says

Shown by a run that finds the counterexample:

1. *Late answers* (`ClientLate`). A command of the network client that timed out leaves its
   answer in the stream, and the connection stays in use (`iiod-client.c:408`): the next
   command takes it for its own. So the content of one attribute is returned for another,
   where `iio.h:746` speaks of the given attribute.
2. *`iio_buffer_foreach_sample` and padding* (`DataForeach`). The loop aligns its pointer to
   each channel but not to the end of a sample (`buffer.c:230`). With channels of 1, 2 and 1
   bytes samples have 6 bytes, and the second is looked for at byte 5. `iio.h:1592` promises
   each sample found in the buffer; `iio_buffer_step` has the right size.

Met while modelling; the modules describe the code as it is, and no run asserts the
opposite:

*iiod*

* A request is accepted by the sample size of the moment (`ops.c:841`). When a client that
  joins makes samples larger and less than one is left of it, it is not active any more
  (`ops.c:640`) and nobody signals its session, which waits until the mask changes again; or it
  returns with the result of an older event and prints no line, and what is left in the handle
  refuses the next request with -EBUSY. The operator `Outgrown` names this case.
* A writer that is answered because the mask changed before its data was received has sent
  nothing yet (`ops.c:642`): its client takes the line for the leave to send
  (`iiod_client_write_unlocked`) and sends data, which the daemon reads as commands, while the
  client waits for a second line.
* A request that was answered, and whose session has not run yet, is answered once more if
  the device thread leaves with an error (`ops.c:790`).
* While a push waits for the device, the thread holds `thdlist_lock` (`ops.c:727-781`). With
  no timeout set, `poll` in `local.c:251` has no end, and a session cannot take the lock to
  cancel it: a device that takes no data keeps its clients, and the daemon, from ending.
* A write of an attribute that is refused for want of the device or of memory is
  answered without its value being read (`ops.c:1242-1249`, `1299-1301`). The client has sent
  the value with the command (`iiod-client.c:515`), and it is read as commands, each of which
  gets an answer that the next call takes for its own. `Refuse` and `Misread` are this;
  `NothingIsLeft` and `AnswersAreOwn` except the connection.
* The first three of these were met as counterexamples to the invariant from which
  `AnswersInStep` is proved, which therefore names them.
* A client that opened one device twice and hangs up is closed once per device
  (`ops.c:1551`); the other handle keeps the entry.
* A failed refill goes round the loop without serving the writers (`ops.c:696`), which
  matters only for a device that has readers and writers at once.
* SIGUSR1 between `thread_pool_restart` and `restart_usr1 = false` (`iiod.c:546`) stops the
  pool and is forgotten as a restart: the daemon ends.
* `stop_avahi` logs "Avahi: Stopped" (`dns-sd.c:370`) although the thread which still tries
  to start it may announce the service afterwards; it frees what that thread creates
  (`dns-sd.c:318`). The comment at `dns-sd.c:355` says that the thread gives up within a
  minute, that at line 326 after 210 seconds, which is also how long a stop may take.

*Client and buffers*

* `network_set_timeout` is called by threads without a common lock (`network.c:897`): two of
  them may leave the socket with the one timeout and the daemon with half of the other. Half
  of 1 ms is 0, which is no timeout (`network.c:884`).
* A refused `set_timeout` leaves the socket with the new timeout (`network.c:892`), and the
  daemon's timeout is one for all its clients (`ops.c:1369-1374`): the last to set it decides.
* A value that does not fit is discarded into the caller's buffer (`iiod-client.c:349-363`): a
  buffer of no size discards nothing, for ever and with the lock held.
* A trigger is told by as many letters as the answer has (`iiod-client.c:275`), so `trigger1`
  is also found as `trigger10` if that comes first.
* `iio_buffer_cancel` promises that further calls "return immediately with an error"
  (`iio.h:1530-1533`); `device_check_ready` looks at the event only in blocking mode
  (`local.c:286`) and a cyclic push does not poll. `CancelIsFinal` is about the others.
* A push that times out has enqueued its block and leaves the buffer pointing to it
  (`local.c:490`): until the next call succeeds, the program may write to what the driver
  sends. A push of a cancelled buffer fails with its block handed over as well
  (`local.c:460-480`).
* A push of several writes that fails at a later one (`buffer.c:166`) returns the error only,
  and who tries again sends the first part twice. Within one call the same holds of what was
  read or written before a timeout, a cancel or an error (`local.c:352-356`, `400-404`): what
  was read is lost.
* A second `usb_open` of an open device is refused, but has taken back its cancel
  (`usb.c:256`). A bulk transfer that times out discards what had come (`usb.c:647`).
* Baud rates up to 4 000 000 are taken where `serial.c:525` says 1 000 000.

*Data model*

* A scan element whose `index` cannot be read keeps an error code as its index
  (`local.c:1289`), which the XML passes on and clients refuse, the whole context with it.
* Blocks of attributes are padded while the unsigned length left is not compared
  (`local.c:536-537`): near the end of the buffer it wraps.
* `iio_buffer_first` looks at the predecessor in the device for channels that share a place,
  `iio_buffer_foreach_sample` at the successor (`buffer.c:265-267`, `236-238`), enabled or
  not: with a shared index and a mask that has one of them only, they differ.
* The sample size divides by the length of a channel, which is 0 if its type was not read
  (`device.c:469`).

*Desktop*

* *Continuity of wideband signals*. `_classify_event` stamps `_last_wideband_detection`
  before `_check_range` compares it (`detector.py:229`), so every new wideband event is
  "recently seen", starts at its own time and is announced at once; the comment at
  `detector.py:159-160` describes a switch between two ranges.
* *Minimum gap*. The only use of `min_event_gap_ms` is the dead timeout rule (proved:
  `GapRuleIsDead`); events of one range may follow each other at once. `config.py:109` calls
  it the minimum interval between events.
* *Event count*. `flush` calls the saving callback and also returns the events, which `stop`
  saves again: two rows, counted once. `monitor.py:559` calls the counter the number of
  events saved in the database.
* *Stopping on errors*. After "Too many errors in monitor loop, stopping"
  (`monitor.py:494`) the loop goes on sweeping and detecting in state ERROR.

*Field worker*

* With the deployed `THREAT_EMA_ALPHA=1.0` the level may cross the whole scale in one cycle,
  and one counter confirms changes to different statuses (`sdr_worker.py:769`): a cycle that
  asked for CRITICAL can confirm one that asks for OK.
* A restart forgets status and last message (`sdr_worker.py:812`), so an alarm announced
  before is never taken back. Nor is a Telegram message that could not be sent ever sent
  again: the failure is swallowed (`sdr_worker.py:356-369`) and `last_status` moves on. Only
  the alert to the gateway is repeated.
* `confirm_count` of the video detector has no limit (`sdr_worker.py:691`): a signal that
  lasted long keeps CRITICAL for as many quiet cycles.
* A cycle is complete when as many frequencies were read as there are channels
  (`sdr_worker.py:905`): with two channels on one frequency it never is.

## 7 What is not modelled

*libiio*

* Discovery of contexts (`scan.c`, `dns_sd*.c`): lists built from what Avahi, Bonjour or mDNS
  report. The parser and lexer of iiod, which are generated into tables; the commands are
  modelled as the client sends them.
* Attribute, trigger and debug commands inside iiod: they read and write sysfs and keep
  nothing; `NetworkClient` has their answers.
* The zero-copy path over sockets (`WITH_NETWORK_GET_BUFFER`), sockets of Windows, the
  asynchronous reads of `ops.c:155-222`, used for USB pipes only. `serial.c` but for what its
  reading and writing share with `usb.c`.
* Differential channels and hwmon names in `DeviceScan`; their rules differ in the words
  that are cut off.
* How long a socket waits: `TimeOut` may come at any point of an exchange, whatever the
  timeout is.
* Modifiers of channels are a part of their names: that one is found by prefix (`x` for `x&y`,
  `channel.c:203-211`) would be found alike by both ends.
* Memory: allocation failures are failures of the step they are in, and the paths that then
  touch what is not there yet (`usb.c:1001`) have no counterpart.
* Bindings, tools, tests and examples.

*Desktop, field, backend*

* Signal processing, classification details, periodicity: floating-point functions of
  samples. Their decisions are free choices in the models.
* Lost answers of the Telegram API: a request that was accepted but not answered is sent
  again (`telegram_notifier.py:306`), so a user may get a message twice; the notifier's
  properties are about what it counts as delivered.
* A clock set back under the notifier (`telegram_notifier.py:129`, 223): a key then waits as
  much longer. `EventDetector` and `ThreatWorker` have such corrections.
* `RFMonitor.start` called twice on one object: every client creates a new one.
* HTML reports and dashboard, GUI drawing, YAML and SigMF files, logging, prototypes, the
  Python runtime and libraries.
* The hazards of components that are still planned: the alert gateway stamps its cooldown
  before a send nobody watches (`notifications.py:415`) and takes a source never heard of for
  one heard at monotonic time 0 (404); telemetry stamps its history write before it is made
  (`telemetry.py:191`) and answers from a cache that a restart empties (201); `RTLSDRDevice`
  remembers frequency and gain across a reopen (`sdr_device.py:336`); the GUI may start a
  monitor while the last one ends, and its watchdog reads what it has refreshed
  (`main_window.py:1931`, 2084). Device identity and licence counter are files read and
  written in one go.

## 8 Plan

In order of importance; done parts first.

| # | Module(s) | State |
|---|---|---|
| 1 | `IiodDaemon`, `UsbBackend` | done, safety proved |
| 2 | `IiodServer` | done, safety proved |
| 3 | `NetworkClient` | done, safety proved |
| 4 | `LocalBuffer` | done, safety proved |
| 5 | `DeviceScan`, `ContextXml`, `SampleLayout`, `AttrBlocks`, `DataModel` | done |
| 6 | `EventDetector` | done, safety proved |
| 7 | `RFMonitor` over `EventDetector` | done, safety proved |
| 8 | `TelegramNotifier`, `NotificationGate`, refinement | done, proved |
| 9 | `ThreatWorker` | done, main invariants proved |
| 10 | an abstract stream between a buffer of the client and the device, which `NetworkClient` over `IiodServer` would implement | |
| 11 | `AlertGateway`: cooldown per source, settings update, background sends that fail, restart; then `AlertPath`, composed with the worker's alert posts | |
| 12 | `Telemetry`: cache against database, write interval, failures, restart | |
| 13 | `RtlSdrDevice` with the reopen of the monitor; `MainWindow` with its watchdog; identity file, licence counter | |

Each new component gets a type invariant, properties for its hazards, a run of at most some
300 000 states, and a proof module once TLC agrees. A composition replaces the runs it
subsumes.
