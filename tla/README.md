# A TLA+ model of ssvc_open_connect

`ssvc_open_connect` is firmware for an ESP32 that drives the SSVC 0059
rectification controller over a UART and offers it to REST, MQTT and messenger
clients. This directory holds TLA+ models of its control logic, the TLC runs that
check them and TLAPS proofs about them. Paths below are relative to
`src/lib/ssvcOpenConnect/` unless they start with `src/`.

## Inventory

| Component | State it keeps | Operations | What must hold | Modelled |
|---|---|---|---|---|
| Journal transfer, `core/SsvcLogProtocol` | status, request, process, generation, counters, data, two timestamps, error; one object, one mutex | reserve, markSent, abort, release, cancel, completeDrain, expiry, checkTimeout, consume | a finished journal is the one asked for; a session is neither taken over nor revived; it ends; its memory comes back | yes |
| Journal REST handlers, `API/HandlerRegistrator.cpp` | none of their own | GET list, GET file, DELETE | replies agree with the object | yes |
| Command queue, `core/SsvcCommandsQueue` | `command_queue`, `safety_queue`, `_safetyEpoch`, the worker's command, timers | push, emergencyStop, worker loop, callbacks | every command has one owner and an end; START is never repeated; STOP comes first | partly |
| Receiver, `core/SsvcConnector` | line, mailbox, event bits, link state | frame assembly, silence, loss and return of the link | silence is reported; the settings are asked for after it; answers reach their command | yes |
| Rectification process, `core/rectification` | process, stages, metrics | telemetry frames, events, the reports to clients | the table of stages is that of the present process; the panel catches up | yes |
| Start-up, `core/SsvcOpenConnect` | order of the parts, greeting | begin, sendHello | parts work with the settings in RAM or a restart is owed | partly |
| Alarm monitor and subscribers, `core/AlarmMonitor`, `core/AlarmSubscribers` | last level per sensor, hardware faults, subscribers, notification timer | check, raise and clear a fault, reset, subscribe | no alarm is forgotten; transitions are delivered | yes |
| Relay engine and ports, `core/RelayRuleEngine`, `core/RelayPortCoordinator` | rules, overrides, alarm byte, shadow bytes | parse, recompute, on alarm, on fault, flush | rules, coordinator, chips and faults agree at rest | yes |
| Level sensors, `components/subsystem/Xkc25Subsystem`, `Xkc25Sensor` | polarity, debounced level, count of triggered sensors, ownership of the pause | poll, wizard, reaction, start check, watcher, enable, disable | polarity is that of the line; the count is exact; levels are followed | partly |
| Profiles, `core/profiles` | list of profiles, a file each | create, copy, save, rename, delete, activate, scan at start | crashes between writes leave a usable store | partly |
| Controller settings, `core/SsvcSettings`, `API/capabilities` | mirror of the settings, versions, reload timer | set, load, send in batches | the mirror comes back to what the controller has | partly |
| Subsystem manager, `core/SubsystemManager` | flags and instances, the object in NVS | register, begin, enable, disable, save | the user's switch survives | yes |
| Hardware and other settings services, `core/StatefulServices` | settings, files, backup | load, check, update, write | what was saved is loaded again | partly |
| Messengers, `components/VkMessenger`, Telegram, MQTT bridge | queue of alerts, live message, switch, worker | alert, work, enable, shut off | off is silent; accepted alerts are posted | VK |
| REST and MQTT entry points | none | parse, push | - | partly |
| Sensors and zones, watchdog, LED, clock, display | drivers | poll, show | - | as far as alarms depend on it |

How they interact: clients push commands into `command_queue` or, for a STOP, into
`safety_queue`; the worker writes one at a time to the UART and waits on an event
group; the receiver classifies each frame of the controller, stores it in one mailbox,
sets bits, and hands journal frames to the transfer object. `RectTelemetry` waits on a
bit of the same group and reads the same mailbox later. The rectification process feeds
the alarm timer, the level sensors' watcher and the messengers. Alarms reach the relays
by calls from subscriber to subscriber, in the task that caused them, under four
recursive mutexes; a failed relay write raises a fault in the middle of the call that
wrote. Profiles write files and push settings; settings are mirrored in RAM before the
controller has them and reloaded from its answers. The hardware settings decide what the
start switches on, and share one NVS object with the subsystem manager.

What is hard here: several tasks on one object whose mutex is released between two
calls; values that are stale when they are used; late, lost and unexpected frames; full
queues; timeouts that race an answer; calls back into the caller; power that fails between
two writes. `PROJECT.json` lists each hazard at its line.

## Modules

* `LogTransfer` - `SsvcLogProtocol::Transfer` as operators on its value. Each method
  runs under `_mutex`, so a call is one function from the value before to the value
  after. Chunks are names `<<process, number>>`; timestamps are ages, so that no
  absolute clock is needed, and `Elapsed` keeps the unsigned wrap of
  `nowMs - _lastActivityMs`. `buffer` is the memory of `_data`: `clear()` keeps it,
  `shrink_to_fit()` frees it.
* `LogSession` extends it: REST clients, command clients, the worker's path of GET_LOG
  and STOP, the clock, the receiver's `consume()` and a controller that answers,
  refuses, ignores or sends a file. One action per critical section: the window
  between `reserveFile()` and `generation()`, or between `snapshot()` and `data()`,
  is a place where any other task can step in.
* `CommandQueue` extends `LogTransfer` too, and has everything else the worker does: both
  queues, the epoch of emergency stops, staleness, deferral, attempts, the wait in
  slices, callbacks, retries, preemption by a STOP, `sendHello()`; the receiver's store
  and bit as two actions; `xEventGroupSetBits()` waking the worker in the same step;
  `BIT0` shared with `RectTelemetry`. `hist` is a history variable that no action
  reads (except for the bounds on commands and stops and the numbering of commands).
  `CommandDelivery` is what it promises those who push commands, in twelve actions:
  commands are made, handed over or refused, in the hands of one worker, written and ended.
  `Delivery == INSTANCE CommandDelivery WITH ...` maps both queues to one set, the worker to
  the command it holds with the attempts it has left (an attempt counts as used when it is
  over, so that a write and a failed write are single steps), and keeps the line, so that a
  second write of a command is seen. `DeliveryKept == Delivery!DeliverySpec`.
* `Rectification` - `RectificationProcess` as operators on its value: what a frame does
  to process, stages, events, pressure and volumes (`Update`), and what `getStatus()` and
  `writeTelemetryTo()` show (`Status`, `Telemetry`).
* `UartReceiver` composes it with the receiver's task, the mailbox, the two bits, the
  reading task, the worker as far as it waits for settings, the retry timer and a
  controller whose process, event and menu change under it. Storing a frame and setting
  the bit are two steps; the frame is read later, and an answer may have replaced it. The
  FIFO is the one of all commands: a request for the settings queues among others' and is
  dropped when there is no room. Commands other than GET_SETTINGS are one value, of the kind
  that a session defers; GET_LOG and STOP, which it does not, are in `CommandQueue`.
* `RelayRules` - parsing, serialisation and matching of rules (a rule keeps its place in the
  array when others are not accepted, since only the order matters); `AlarmRelay` - monitor,
  notifications, alarm lines, engine, coordinator and chips. The calls a task is inside of
  are the frames of `stack[task]`; a step of a task runs to its next mutex or shared
  value, so the re-entrant call of a failed write is a frame above the write.
* `LevelSensors` - polling and debouncing, the wizard with its electrical probe, the
  reaction to a level, the start check, the watcher, settings, switch and restarts, for
  every kind of wiring, right or wrong.
* `SettingRules` - ranges, versions and handlers of every controller setting;
  `ControllerSettings` - the mirror, what is sent and in which batches, the queue, the
  controller's answers, the 30 s timer; `Profiles` extends it with the store and its
  requests, one write per step, crashes in between, and the start. `ProfileStore` is the
  abstract store that `Profiles` implements: `Store == INSTANCE ProfileStore WITH ...`
  maps files to profiles and the flags of the list to marks, and `StoreKept ==
  Store!StoreSpec` is a property of the run `profiles`.
* `Subsystems` - `SubsystemManager` as operators; `Hardware` - the hardware settings
  (`Updated` is `OpenConnectHardwareConfig::update`), the file with its check and backup, the
  steps of the start that take the settings, the requests and the NVS object.
* `VkMessenger` - producers of alerts, the worker with its calls to VK, the web server
  that changes the settings and switches, and a VK that loses answers.
* `MC*` modules hold the small sets, setups and symmetry of the runs. `*Proofs` hold the
  theorems.

Operators whose name extends that of another (`FailKeepsBuffer`, `NoSafetyFirst`, ...)
and whose comment begins with "Mutant of" are plausible mistakes in the code; no
behaviour of the model uses them. They document which mistake each property catches.

## Runs

| Run | Module, configuration | Shows |
|---|---|---|
| `log_session` | `MCLogSession`, `MCLogSession.cfg` | types, consistency and memory of the transfer object, intact downloads, no takeover, drains stay drains, a session that is heard of is not timed out |
| `session_ends` | `MCLogSession`, `MCSessionEnds.cfg` | every blocking session ends |
| `queue_gate` | `MCCommandQueue`, `MCQueueGate.cfg` | ownership of commands, stale START dropped, STOP overtaken by one command at most |
| `queue_log` | `CommandQueue`, `MCQueueLog.cfg` | `CommandQueue` implements `CommandDelivery` (START once, attempts not exceeded, nothing dropped or put back that reached the line); no ordinary command between GET_LOG and its answer; every command settles |
| `telemetry` | `MCUartReceiver`, `MCUartReceiver.cfg` | the table of stages is that of the present process; the panel catches up; silence is reported; the settings are asked for after a loss, though others' commands share the FIFO |
| `alarm_relay` | `MCAlarmRelay`, `MCAlarmRelay.cfg` | at rest rules, coordinator, chips and faults agree, and no alarm is forgotten, with a failing write, overrides, profiles and new thresholds |
| `relays_settle` | `MCAlarmRelay`, `MCRelaysSettle.cfg` | without failed writes the last readings, faults and stage reach the relays, also when an alarm ends or a fault comes and goes; saved rules are the same when applied again |
| `levels` | `MCLevelSensors`, `MCLevelSensors.cfg` | polarity, exact count, debounced level, the watcher's notice |
| `profiles` | `MCProfiles`, `MCProfiles.cfg` | `Profiles` implements `ProfileStore`; every file is listed at rest; the mirror follows the controller |
| `hardware` | `MCHardware`, `MCHardware.cfg` | settings the parts can rely on; a restart that is owed is told; saved settings are loaded; switches of messengers are kept |
| `messenger` | `MCVkMessenger`, `MCVkMessenger.cfg` | off is silent, no alert of an earlier period waits, a summary is not repeated, accepted alerts are posted |
| `calibration_lost` | `MCHardware`, `MCCalibrationLost.cfg` | violated: a calibration that was saved is there after a restart |

The last is the finding of `PROJECT.json`: the file is loaded by the same `update()` that
serves a request, which never takes calibration from its input
(`OpenConnectHardwareConfig.cpp:402-417`), against the comment "калибровка пройдена и
сохранена" (`OpenConnectHardwareConfig.h:30`).

### Other differences between code and intent

These properties are stated in the modules too; each is violated by the configuration
named, which `tlc -config X.cfg M` shows.

| Configuration, module | Property | What the code does |
|---|---|---|
| `MCRequeueHang`, `MCCommandQueue` | the safety queue is polled while a command is deferred | `SsvcCommandsQueue.cpp:352` loops until the deferred command fits, with no way out when other tasks keep the queue full |
| `MCWaitOverrun`, `MCCommandQueue` | a wait ends at its timeout | the unsigned remainder at 488 is compared with `<= 0` |
| `MCLateAnswer`, `MCCommandQueue` | an answer belongs to the command that waits | a late answer of the same verb is credited to the next command |
| `MCCatchUp`, `MCCommandQueue` | no START made before a STOP is written behind it | STOP is in its queue before the epoch changes (222-229) |
| `MCFenceRace`, `MCCommandQueue` | stale START dropped, with three calls of `emergencyStop()` | `_safetyEpoch` is read and written unprotected (213, 229) |
| `MCErrorWiped`, `MCLogSession` | the reply to a GET carries the error of its download | a new request between two critical sections wipes it |
| `MCTimeoutWraps`, `MCLogSession` | only a session without activity for longer than the limit is timed out (`SsvcLogProtocol.h:151-152`) | `nowMs` is read before the mutex is taken: a frame that comes in between is later than `nowMs`, and the unsigned difference at 880 wraps |
| `MCExpiredKept`, `MCLogSession` | the expiry of a result gives its memory back | `clear()` keeps the capacity |
| `MCFaultKept`, `MCUartReceiver` | the fault of the link ends when the controller is back | `uartCommunicationError` is reset though `clearHardwareFault()` was skipped (`SsvcConnector.cpp:416`) |
| `MCAlarmSilenced`, `MCAlarmRelay` | an alarm line stays on while a sensor alarms | one alarm byte serves all sensors: the recovery of one silences the other |
| `MCLockOrder`, `MCAlarmRelay` | every event is delivered | a failing write locks coordinator, then engine; a recomputation locks them the other way round |
| `MCFilledRuns`, `MCLevelSensors` | a triggered sensor holds the process paused | a sensor that is filled when the process starts causes no event |
| `MCProfileApplied`, `MCProfiles` | an activated profile reaches the controller | what the mirror already shows is not sent, and the mirror may lie |
| `MCSpeedsValid`, `MCProfiles` | a valve is open no longer than its period | no setter compares the two |

Smaller things met while reading, not stated as properties:

* Journals: `releaseExpiredResult()` takes the same difference as `checkTimeout()` and can
  drop a result that has just been completed.
* Receiver and process: an event that follows another without a gap leaves PAUSED; a
  manual event in the frame that ends a process shows RUNNING without a pid for one frame;
  a stage of the old process may become FINISHED in the new table when the standby between
  them was not seen (`RectificationProcess.cpp:443`); GET_SETTINGS counts as done though
  telemetry has overwritten the mailbox; `RectTelemetry` ends for ever when it fails
  to take its mutex.
* Alarms: NORMAL may be told before CRITICAL when a nested write clears the fault; the lists
  of `SensorCoordinator` grow while its timer iterates over them; a rule on a setting of
  another type matches by default; `I2CBusSubsystem::enable` raises a fault with the bus
  in hand.
* Levels: the fall of one sensor resumes the process while another was filled when the
  subsystem came on; a resume lifts a later pause of the user; a level that falls before
  telemetry shows PAUSED leaves the pause; the count is not kept when a calibration turns
  the level without an event; the step "with liquid" does not require the first;
  a line that floats when wet passes calibration by the difference of the pull-ups; `disable()`
  does not join the polling task, so `enable()` may start a second; `persistSensor` writes a
  calibration to the slot of that number even when it is wired anew.
* Profiles and settings: a crash while the last profile is deleted leaves an entry without
  a file, and then perhaps two marks; deleting the active profile marks another only at the
  next start; a release speed of -1 in a mirror never loaded is sent as 0; `release_*` are sent
  only to firmware with tails; a PUT may race the answer to GET_SETTINGS; three `uchar`
  settings wrap modulo 256 and negative timers become the maximum; `parallel_v3` and the
  settings of the steps are not clamped; one SET of a batch may be dropped while the
  others go; a SET accepted while the callback of the reload timer runs
  (`SsvcCommandsQueue.cpp:656-662`) resets a timer whose deletion is queued (676), which at best
  does nothing, so that SET is not read back.
* Hardware: a hardware subsystem that the user switches off is on again after a restart;
  entries of NVS without a registered subsystem are dropped; a second spoilt file replaces
  the backup; switching the atmospheric sensor off and on registers a second driver;
  a change that is taken back still asks for a restart; a switched-off sensor on an
  expander of relays is accepted by PUT and refused at the next load with the rest of
  the file (`Shadowed`); a request with the single address of old versions
  (`OpenConnectHardwareConfig.cpp:194`) puts the relays on the expander of an enabled sensor,
  which the comment at 254 says cannot be: two owners then write one chip, and the next
  start refuses the whole file and works with the defaults.
* VK: a worker that is deleted in a call takes `_httpMutex` with it; between
  `vTaskDelete(NULL)` and the test of the handle lies a window (`VkMessengerClient.cpp:1171`); a full
  queue drops the newest alert; an alert whose answer is lost is posted again; a task that could not
  be created leaves the switch on; a summary is missed when the next process ends before
  the worker looks again.

### Bounds

`Setups`, `Budgets` and `Limits` are sets of initial bounds: TLC explores each kind of history
in depth (processes, losses, wizard, crashes, ...) instead of all of them at once.

* Two journals of equal length (`MCTwoAlike`) are the case in which a chunk of one can be
  taken for a chunk of the other; a limit of two full chunks and ticks of two, one
  reach every comparison on both sides. `MCOneEmpty` adds the journal without chunks
  and one that is too large (`DataMax = 1`).
* `MaxGen` bounds the number of sessions: two sessions are enough for an old frame,
  command or deadline to meet a new one; `session_ends` has three.
* `MaxNoise` is the number of faults: a frame lost, one damaged, short memory, a failed
  write. **`DownloadIntact` is a claim about one fault.** With two, a lost frame of one
  file and one of another splice two journals of equal length, because a chunk frame
  does not name its file (`SsvcLogProtocol.h:764-797`).
* `MaxLag = 1`: between reading `millis()` and taking the mutex a tick may pass and a frame
  come; the difference then wraps. `LiveNotTimedOut` counts silence by a clock of its own
  (`quiet`, set back by every accepted request and every frame the object is given), not by
  the object's stamp, so a frame that renews no deadline violates it; the wrap is the
  exception it names and what `MCTimeoutWraps` shows.
* `queue_gate` has two interchangeable tasks, three commands and two emergency stops in
  queues of one. **`StaleDropped` is a claim about two calls**, overlapping or not.
* `queue_log` has START, GET_LOG and VERSION, two commands, one stop, two attempts and one
  greeting; `TickMod = 2` with `Timeout = 1` and `MaxLate = 0` keeps the wait exact, so
  liveness is not decided by the wrap of `MCWaitOverrun`; queues hold all commands,
  so it is not decided by `MCRequeueHang` either.
* `telemetry`: two process numbers and two processes, so that an old frame can be taken for
  the present process; a threshold of two errors; two stages. The FIFO of commands holds two:
  others' commands, the settings and the version, so that a recovery finds it full, half full
  or empty. Histories: processes with a command; noise with a loss, or with two seconds of
  silence of a controller that is on (`quiet`); a loss with a session; a session with a GET_LOG;
  a loss with others' commands; the button. **`RecoveryAsks` leaves out what the code forgets**:
  a first frame that meets a session (`skipped = "session"`, the case of `MCFaultKept`) or a full
  FIFO (`"full"`), for which `uartCommunicationError` is cleared all the same
  (`SsvcConnector.cpp:412-416`), and a worker that cannot put its command back (`Stuck`, the
  case of `MCRequeueHang`).
* `alarm_relay`: a sensor, a chip of three lines, a failed write and two inputs: enough for
  a fault raised inside a flush while a client changes rules or thresholds.
  `relays_settle` has no failed write, since with one `MCLockOrder` applies, and two inputs of
  any kind: an alarm that begins and ends, a fault during an alarm, a stage during a fault. Its
  rules (`MixedFile`) let each of the three change a line.
* `levels`: every wiring with the wizard and one sensor; two sensors with a process; two
  samples of debouncing, so that a reading can be taken back.
* `profiles`: numbers up to three, two requests with a crash and a failing write or with
  two crashes; the settings are those of `MCFields`, one for each way a setting is treated
  (a number, a valve, a byte that wraps, a choice, a percentage, a flag, -1), each with
  values inside and outside its range. The timer's callback is two steps, so that a SET may come
  between its GET_SETTINGS and the clearing of its handle.
* `hardware`: files missing, spoilt, old and current; fifteen bodies with every kind of
  refusal and the single address of old versions; two requests and a restart, toggles, a calibration, a failing write.
* `messenger`: a queue of one and two alerts, so that a drop, an overwrite and a stale
  alert occur; up to three switches and two ends of a process.

`CHECK_DEADLOCK FALSE` is set where the histories end when their bounds are used up: with
nothing more coming from outside, every task waits, and that is right. The runs of the
journals and of the queue report deadlock: the clock (or the telemetry) can always step.

### Fairness

* `LogSession`: weak fairness of `Tick` and `TimeoutCheck`. The receiver's loop calls
  `checkTimeout()` at least every `UART_READ_TIMEOUT_MS` (`SsvcConnector.cpp:243`, `275`).
  Nothing is assumed of the clients, the controller or the line.
* `CommandQueue`: weak fairness of the worker, the receiver, `RectTelemetry`, the session's
  timeout and each task's step inside a call, since FreeRTOS schedules each of these tasks;
  none of the controller, of telemetry, or of a client starting a call.
* `UartReceiver`: weak fairness of the receiver's loop, the two tasks behind it, the retry
  timer and the end of a session (which `session_ends` shows). The receiver's step includes
  the frame a controller that is on sends every second.
* `AlarmRelay`: strong fairness of each task's step inside a call, as FreeRTOS hands a mutex
  that is given back to a waiting task, and of the two timers; weak fairness of the
  subscription at the start.
* `LevelSensors`: weak fairness of polling that succeeds, of the watcher, of telemetry and
  of the controller taking a command.
* `VkMessenger`: weak fairness of the worker, a producer, the end of a shut-off and of a
  backoff; strong fairness of a call that VK answers: it does not refuse for ever.
* `Profiles` and `Hardware` have no liveness.

## Proofs

All theorems hold for every value of the constants under the named assumptions
(`ProcsAssumption`, `DataMaxAssumption`, `TimeAssumption`, `FileChunksAssumption`,
`SessionBoundsAssumption`, `TypesAssumption`, `QueueBoundsAssumption`, `NoPidAssumption`,
`ValveAssumption`, `ReceiverAssumption`, `LevelAssumption`, `ConstantsAssumption`, `BodiesAssumption`,
`HardwareAssumption`, `SavedAssumption`, `MarksAssumption`, `MessengersAssumption`,
`TailsAssumption`, `SettingsAssumption`, `ProfilesAssumption`, `ChipsAssumption`,
`TasksAssumption`, `RulesAssumption`): any number of processes, clients, tasks, sensors,
chips, alerts, requests and faults, any limits.

* `LogSessionProofs` proves first, method by method, that the object keeps `Sound`: the field
  types, request and status, counters and stored chunks, memory and deadline. `ConsumeSound` is
  the case of `consume()`, with one lemma per kind of frame. Then that `SessionInv` is
  inductive. It is `TypeOK`, `Sound(tr)` and `StreamOfJournal`: the file the controller sends is a journal it has. The last part makes
  every chunk that reaches `consume()` a chunk of a journal, without which the stored data
  would not keep its type; without the full `Sound` a method's postcondition could not be
  shown. `TypeCorrect`, `ObjectStaysSound` and the parts of it (`TransferStaysConsistent`,
  `BufferIsFreed`, `BlockedIsTimed`) are its consequences; `SessionsAreNotTakenOver` and
  `DrainsAreFinal` use it for the steps. Two more layers stand on it:
  * `IntactInv`, until the second fault: what is received is the beginning of its journal, with
    the right total (`Filling`); a file on its way is that of the session that receives, and
    without a fault it is still on its way (`StreamFits`). The last part is needed because a chunk
    does not name its file: only a lost end of one file lets the next one be taken for it, and that
    is the first fault; the second is the lost START of the other. Theorem
    `IntactUntilSecondFault`, and `DownloadsIntact` for `MaxNoise <= 1`.
  * `StepDue`: a step to a timeout is `checkTimeout()` of an object whose stamp has the age of
    `TransferTimeout`, or is later than the clock that was read. `ClockInv`: as long as the
    stamp is compared at all, its age is the time since the last request or frame, whatever
    methods ran in between. Theorem `LiveSessionsAreKept`, for any `MaxLag`.
* `CommandQueueProofs` is built in layers that are inductive one after the other:
  * The types: `TypeOK` is inductive together with `JournalLine`: the chunks on the line are of
    journals. Theorem `QueueTypeCorrect`.
  * `Owned` = `EachCommandOwned` and `Holding` (the worker has a command except where it
    looks for one; without it a take could overwrite a command). Each step is shown to move
    one id between the calling tasks, the two queues, the worker and the ended commands.
    Theorem `NoneLostOrDoubled`.
  * `Unwritten`, on top of `Owned`: what is not in the worker's hands was not written, and a
    START, NEXT or RESUME at the beginning of an attempt was not. Theorem `NeverTwice`.
  * `Promised` adds `AnswerAwaited` (what is waited for has been written, without which an answer
    could complete a command that never reached the line) and is all that the refinement of
    `CommandDelivery` needs: one lemma per action of the abstract specification
    (`DeliveryMakes`, `DeliveryWrites`, ...) and one per step of the queue that maps it
    (`TakesMap`, `WriteOkMaps`, ...). Theorem `DeliveryRefined`.
  * `Overtaken`: while a STOP waits, what has been written is at most the command the worker
    holds, and nothing when it is about to take one from the FIFO. The safety queue has
    only STOPs in it, which is part of the invariant. Theorem `AtMostOneOvertakes`.
  * `GateHolds`: past the gate an ordinary command finds no session that waits for an answer,
    because no method but `markSent()` makes one wait and only the worker, when it has a
    GET_LOG, calls it. Theorem `GateKeepsOut`.
  * `Fenced`: a START, NEXT or RESUME under way has the epoch of now or an older one; of this
    epoch it is younger than every STOP that has returned (`fence`), and younger than a STOP that
    waits to publish an epoch it would share. It is inductive as long as `_safetyEpoch` does
    not go back, theorem `StaleDroppedForward`, for any number of stops. The epoch goes back only
    when a call publishes an older one than another call did: not while calls do not overlap
    (`NextEpoch`, theorem `StaleDroppedApart`), and not with two calls (`Paired`: two that wait hold
    the same epoch; theorem `TwoStopsFence`). With three, `MCFenceRace` has the counterexample.
* `RectificationProofs`: `UpdateSound` says what a frame, or an answer taken for one, does to
  the table; `IInv` = `TypeInv` and `TableInv`. `TypeInv` has the types, the controller's
  stage in its order and one running stage. `TableInv` says that no process number is known but
  those given out, the newest of them being the present one's, that the frame in the mailbox,
  however old, tells of an earlier process or of a stage the present one has been in, and
  that the table of the present process has only such stages: without it a frame that is
  read late could put a stage of the last process into the table of this one.
  Theorems `UartTypeCorrect`, `OneStageRuns`, `TableStaysSound`.
* `LevelSensorsProofs`: `TypeInv` (types, and probes only of a sensor that is there);
  `AlertInv` adds that an absent sensor is silent, since the count is of those that are
  there; `PolarityInv` adds that the running object of a calibrated slot has the
  polarity of the slot (`SameFlag`) and that a slot shown both states has that of its line
  (`FlagRight`). Theorems `LevelTypeCorrect`, `AlertsStayExact`, `PolarityStaysRight`.
* `MessengerProofs`: `IInv` = types, `OffInv` (handle, worker and switch agree at every step of
  a switch), `AlertInv` (what waits to be told was raised since the switch was thrown on),
  `SummaryInv` (once a summary was posted of the process that ended last, the worker knows of
  that end). Theorems `MessengerTypeCorrect`, `MessengerStaysSafe`.
* `HardwareProofs`: `HardwareInv` (what has been set up was set up from whole settings, and the
  fields that `rebootFieldsDiffer()` compares are all that the parts take) gives
  `RestartIsTold`; `SettingsInv` (types, and of the file too, which is loaded over the
  defaults by the same `update()`; and relays apart from enabled sensors, unless they came by
  a single address, `Compared`) gives `HardwareTypeCorrect`, for requests of any keys; `ToggleInv`
  (a messenger's flag in RAM is its entry in NVS, and what the last `saveConfig()` has
  collected is what the flags are) gives `TogglesAreKept`; `KeptInv` (the file holds right
  settings, those saved last) gives `SettingsAreKept`, since `RightLooksValid`, `RightAccepted`
  and `RightLoaded` show that right settings pass the check, are not refused and are loaded
  unchanged.

* `ProfilesProofs`: `Inv` = `SettingsInv` and `StoreInv`, inductive together, since a step of a
  profile may write settings (theorem `ProfilesInvariant`).
  * `SettingsTyped` has the types, and two ranges: `Shaped`, as many numbers as the setting takes,
    of the mirror, and `InRange` of what a SET holds and of what the controller has. The mirror is
    written by profiles without a check, so it is `Shaped` only; that a setter makes an `InRange`
    value of any `Shaped` one (`Written` and `Said`, one lemma per group of settings) is what
    keeps the queue right. Theorem `ProfilesTypeCorrect`.
  * `AnswerSound`: an answer in the mailbox belongs to the GET at the head of the queue and is
    what the controller has, unless `unsure`. `MirrorSound`: with no answer, nothing unsure and
    nothing under way that reads back, the mirror is the controller's. A timer whose callback has
    asked already reads nothing back, and a SET that meets it is `unsure`. Neither is inductive alone:
    the answer becomes the mirror, and what reads back is in the queue. That the commands of a
    batch and the gate only lengthen the queue (`Extends`) keeps the head in its place.
    Theorem `MirrorSafe`.
  * `StoreTyped` and `OpTyped`: files, list, and at which steps each request can be.
    `FilesKnown`: every file is on the list, but for the one a create or a copy has written and
    not listed yet, once the start is through with the list and while no write has failed; a start
    that found no profile has no file but the first, which is what its steps 2 and 3 rely on.
    Theorem `ProfilesListed`.
  * `StoreRefined` proves `Spec => Store!StoreSpec`. For each action of the abstract store one lemma
    says which files, list and flag before and after make it (`StoreAdds`, ...), one lemma per
    action of `Profiles` shows that its step is one of them or leaves the store alone (`AddMaps`, `DeleteMaps`,
    ...), and `InitMaps` is the initial state. A repair at the start is `Mends` only because
    `Repaired` keeps every entry that has a file and adds each file that has none: it is a list in
    order of the numbers (`Ascending`, lemmas on ranks), which exists for every finite set by
    `Cardinality` alone.

* `AlarmRelayProofs`: a task's calls can nest without end (a write that fails reports a fault,
  whose event recomputes the lines, which flushes again), so nothing can be said frame by frame. A stack is
  described by its first frame and by two facts on those below, however many: each of them
  waits for a call it made (`Low`), and so many of them hold a mutex (`Count`). Every action is
  one of three moves, another frame in place of the first, a call and a return, whose effect on
  both facts is a lemma. On this stand:
  * `TypeInv`: the types, and `LocksOK`: a mutex has at most one owner, who holds it as often as
    the frames of its task say. A task inside a frame that holds a mutex is therefore its owner
    (`HolderOwns`). Theorem `AlarmTypeCorrect`.
  * `LinesOK`: of each line that the plant does not decide, some task is going to decide it
    again (`Deciding`); or the decision in hand is the one the rules give now, and the
    coordinator has it or is about to be told. Rules, overrides, alarms and faults change while other
    tasks are in the middle of the loop over the lines; each such change leaves a frame that
    runs the loop from the start. The first frame of a stack is enough here, because a
    recomputation waits for nothing but the flush after its last line.
  * `OutputsOK`: a chip that took its last write shows the coordinator's image, or a frame
    somewhere, not only a first one, has still to flush it (`Flushes`); `FaultsOK`: the table of
    faults says what the last write of the chip gave, or the frame that reports it is the
    first of its stack (the coordinator's mutex admits one).
  * `AlarmsOK`: an alarm on the monitor's books is known to the engine, or is the event a task
    is about to tell it, under the mutex of the thresholds, or a change of thresholds is under way
    that is going to forget it (`Updating`). Theorems `RelaysAreRight` and `AlarmsRemembered`: with all
    stacks empty only the first alternatives are left.
  * `RulesSurviveSaving`: `ConditionSaved`, for each type of condition, says that what
    `SerializeCondition` makes of an accepted condition is accepted and read as the same;
    the rules in use are always those of some file (`FromFile`).

Of the constants, these proofs assume that a body or an input has for each setting a sequence
of as many numbers as it takes (`Shaped`, `Seq(Int)`): the fields of `SsvcSettings` are arrays of
fixed length, and values of other shapes are listed under "Not modelled". Of the alarm path they
assume that the fault keys are the chips, the bus and the devices, no role being two of these, that a relay chip has more than the two reserved
lines, and that the text filter of a rule stands for sensors or devices that exist.

Every safety invariant of the passing runs is stated by a theorem. All liveness is
model-checked only (`SessionEnds`, `EveryCommandSettles`, `ProcessFollows`, `SilenceReported`,
`RecoveryAsks`, `AlarmsTakeEffect`, `LevelFollows`, `StartWarned`, `AlertDelivered`): it needs fairness.

## What is abstracted

* JSON, Base64 and field parsing are the outcome `intact` of a frame, or a function of the
  keys an object has; a list of files is kept as the fact that it arrived. `err_*` codes are
  one value.
* In `CommandQueue` the API gates, the CR and LF test and the SET filter of
  `pushCommandInQueue()` refuse a command before anything changes; they are not modelled
  there (`ControllerSettings` has the gate of the versions). The timers that push
  GET_SETTINGS and VERSION are in `UartReceiver` and `ControllerSettings`; `CommandQueue`
  covers their pushes by those of `Tasks`. Delays of 100 ms and 2 s have no clock: any
  number of other steps may come first.
* The bounds of `pushCommandInQueue()` in modules other than `CommandQueue` are a queue of
  the same behaviour with the commands that module needs.
* `beginList()` and `beginFile()`, the paths of generation 0, have no caller.
* Measured values of telemetry (temperatures, voltages) are copied without a decision.
* The protocol notes disagree on whether the controller repeats a whole command in `request`
  (`SsvcLogProtocol.h:277-285`) or its verb; `SsvcConnector.cpp:388` and `423` compare
  with `"GET_LOG"` exactly. The model takes a journal answer to be recognised.
* `millis()`, `xTaskGetTickCount()` and the epoch of stops keep their wrap where a comparison
  depends on it (`Elapsed`, `TickMod`).

## Not modelled

* Telegram: the same parts as VK in a library of its own that polls in a task of its own. Read
  with it: `_botMutex` stays null after a disable; a disable during a boot of more than 5 s and the
  deletion of its telemetry task may leave locks taken; a failed boot switches it off in NVS.
* The MQTT bridge (topics and JSON in, JSON out), the REST layer's parsing, the history of
  telemetry and the zones of sensors: conversions without decisions of their own.
* Drivers: DS18B20, BMP581, DS3231, LCD, LED, PCF8574 (a write succeeds or not), NVS and
  LittleFS (a write succeeds, leaves the old content or spoils it).
* The self-check of level sensors on request (the probe of `LevelSensors` in another task) and
  the zone of a portable sensor.
* Hazards seen in the code that no property of a run covers:
  * journals: the GET that should report an error reserves again first
    (`HandlerRegistrator.cpp:470`, `MCErrorWiped`); `snapshot()` and `data()` are two critical
    sections, so a 200 may carry another body (511); `generation()` is read after the
    reservation (486); a session cancelled between the check of its generation and the
    write still sends GET_LOG (`SsvcCommandsQueue.cpp:326`); a journal that completes between
    `isFileSession()` and `cancel()` is thrown away (393); two line faults can splice two
    journals (`SsvcLogProtocol.h:772`);
  * queue: a waiting command is put back without an end (`SsvcCommandsQueue.cpp:352`,
    `MCRequeueHang`); the wrap of the wait (488, `MCWaitOverrun`); a late answer (368,
    `MCLateAnswer`, and `SsvcConnector.cpp:452`); three overlapping stops (229, `MCFenceRace`);
    STOP has one attempt (217); `BIT0` of telemetry ends a slice of another wait (492);
    GET_SETTINGS reads a mailbox that telemetry may have replaced (582);
  * delays, which need a clock: the greeting and the receiver push into queues that may be
    full for a second (`SsvcOpenConnect.cpp:186`, `SsvcConnector.cpp:412`);
  * process: the end of an event sets RUNNING whatever the state was
    (`RectificationProcess.cpp:730`);
  * alarms: transitions are told outside the lock and may change places
    (`AlarmMonitor.cpp:298`); one alarm byte for all sensors
    (`RelayPortCoordinator.cpp:94`, `MCAlarmSilenced`); two locks in both orders
    (`RelayRuleEngine.cpp:562`, `MCLockOrder`);
  * link: the fault is kept and the settings are not asked for when the first frame meets a
    session (`SsvcConnector.cpp:416`, `MCFaultKept`), or a full FIFO; a frame between
    `millis()` and the mutex ends its own session (`SsvcLogProtocol.h:880`, `MCTimeoutWraps`);
  * levels: whose a pause is (`Xkc25Subsystem.cpp:261`, see `MCFilledRuns`), and an alert
    across `disable()` and `enable()` (213; `AlertsExact` leaves such a sensor out);
  * profiles and subsystems: a profile marked active and not applied (`ProfileService.cpp:564`,
    `MCProfileApplied`); unlocked flags of the manager (`SubsystemManager.cpp:88`; `TogglesKept`
    leaves both windows out by name); a SET that meets the callback of the reload timer
    (`SsvcCommandsQueue.cpp:656-662`; `MirrorFollows` leaves it out by name);
  * VK: a worker deleted in a call (`VkMessengerClient.cpp:1171`; `AlertDelivered` leaves the lost
    lock out by name).

## Plan

What a next step would add, in order of importance:

1. `JournalService`, an abstract specification of journal downloads implemented by `LogSession`,
   and the order of commands in `CommandDelivery`: its queue is a set, so STOP first and the
   order of the FIFO are not part of what it promises.
2. The composition of `LevelSensors` with `CommandQueue`: a pause of a level sensor between a
   user's commands, deferral and a STOP.
3. Telegram, on the pattern of `VkMessenger`.
4. Theorems: the refinement of item 1, once it is stated.
