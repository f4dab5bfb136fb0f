---------------------------- MODULE LevelSensors ----------------------------
(***************************************************************************)
(* The level sensors of the receiving tanks (Xkc25Subsystem, Xkc25Sensor): *)
(* the polling task with its debouncing, the wizard that measures which    *)
(* level of a line means liquid, what a change of level does to the        *)
(* process, the check before a start, and the switching on and off of the  *)
(* whole subsystem.  The tanks, the wiring, the controller and the users   *)
(* are external.                                                           *)
(*                                                                         *)
(* Three threads meet here: the polling task (Poll), the timer of          *)
(* SensorCoordinator (Watch), and the web server (the wizard, the          *)
(* settings, the switch), which handles one request at a time.             *)
(***************************************************************************)
EXTENDS Naturals, Sequences, FiniteSets

CONSTANTS
    Slots,        \* the sensors of the configuration
    Debounce,     \* kDebounceSamples
    Setups,       \* what a behaviour starts from: wiring, slots in use, options, and the
                  \* bounds on tides, requests, orders and failing snapshots
    UserCommands, \* what users may ask of the controller
    QueueLimit    \* room in the command queue

Wirings == {"npn", "pnp", "npn_open", "pnp_open", "input", "stuck_high", "stuck_low"}

\* xkc25TriggerAction and xkc25StartGuardMode
Options == [trigger: {"pause", "abort", "notify"}, guard: {"off", "warn", "block"}]
Bounds == [tides: Nat, requests: Nat, orders: Nat, misses: Nat]

ASSUME LevelAssumption ==
    /\ IsFiniteSet(Slots) /\ Slots # {}
    /\ Debounce \in Nat \ {0} /\ QueueLimit \in Nat \ {0}
    /\ Setups \subseteq [wiring: [Slots -> Wirings], used: SUBSET Slots, options: Options, left: Bounds]
    /\ UserCommands \subseteq {"start", "pause", "resume", "stop"}

Bits == {0, 1}
ProcessStates == {"idle", "running", "paused"}
NoSensor == [there |-> FALSE, valid |-> FALSE, filled |-> FALSE, cand |-> FALSE, count |-> 0,
             activeLow |-> TRUE]
NoProbe == [up |-> 2, down |-> 2]

VARIABLES
    wiring,   \* external: how the line of each slot is wired
    liquid,   \* external: is there liquid in front of the sensor
    config,   \* the slots of OpenConnectHardwareConfig::xkc25Sensors
    options,  \* xkc25TriggerAction and xkc25StartGuardMode
    sensors,  \* the objects in _sensors, one for a slot at most
    probes,   \* _withoutLiquid
    sub,      \* the flags and counters of Xkc25Subsystem, and its polling tasks
    ctrl,     \* external: the state of the controller's process
    shown,    \* the state RectificationProcess shows of it
    commands, \* the command queue
    left,     \* what may still happen: tides, requests, orders, snapshots that fail
    taught,   \* history: what the wizard was truly shown in this slot, of "dry" and "wet"
    silent,   \* history: slots whose level changed without an event, or lost its event
    due       \* history: a process has begun that must be warned of

physical == <<wiring, liquid>>
levelVars == <<config, options, sensors, probes, sub>>
processVars == <<ctrl, shown, commands>>
history == <<taught, silent, due>>
vars == <<physical, levelVars, processVars, left, history>>

Spend(what) == left[what] > 0 /\ left' = [left EXCEPT ![what] = @ - 1]

-----------------------------------------------------------------------------
(* The line of a sensor, and what a read of it gives.                      *)

\* What drives the line: a level, or nothing ("open").
Driven(s) ==
    CASE wiring[s] \in {"npn", "input"} -> IF liquid[s] THEN 0 ELSE 1
      [] wiring[s] = "pnp" -> IF liquid[s] THEN 1 ELSE 0
      [] wiring[s] = "npn_open" -> IF liquid[s] THEN 0 ELSE 2
      [] wiring[s] = "pnp_open" -> IF liquid[s] THEN 1 ELSE 2
      [] wiring[s] = "stuck_high" -> 1
      [] wiring[s] = "stuck_low" -> 0

Held(s) == wiring[s] \in {"npn", "pnp", "input"}
OnExpander(s) == wiring[s] = "input"

\* A line nothing drives reads as it pleases; a read over the bus may fail ("none").
Read(s) == IF Driven(s) = 2 THEN Bits ELSE {Driven(s)}
Reads(s) == Read(s) \cup (IF OnExpander(s) THEN {2} ELSE {})
Failed == 2

Probe(s) ==
    IF OnExpander(s) THEN NoProbe
    ELSE IF Driven(s) = 2 THEN [up |-> 1, down |-> 0]
    ELSE [up |-> Driven(s), down |-> Driven(s)]

Active(activeLow, raw) == IF activeLow THEN raw = 0 ELSE raw = 1

-----------------------------------------------------------------------------
(* Xkc25Sensor.                                                            *)

FirstRead(sensor, active) ==
    [sensor EXCEPT !.valid = TRUE, !.filled = active, !.cand = active, !.count = Debounce]

\* A level is taken over after Debounce equal reads and one more.
Debounced(sensor, active) ==
    IF active # sensor.cand THEN [sensor EXCEPT !.cand = active, !.count = 1]
    ELSE IF sensor.count < Debounce THEN [sensor EXCEPT !.count = @ + 1]
    ELSE [sensor EXCEPT !.filled = active]

\* Mutant of ReadValue: a failed read counts as a low level.
ReadValueFailedLow(sensor, raw) ==
    IF ~sensor.valid THEN FirstRead(sensor, Active(sensor.activeLow, raw % 2))
    ELSE Debounced(sensor, Active(sensor.activeLow, raw % 2))

ReadValue(sensor, raw) ==
    IF raw = Failed THEN sensor
    ELSE IF ~sensor.valid THEN FirstRead(sensor, Active(sensor.activeLow, raw))
    ELSE Debounced(sensor, Active(sensor.activeLow, raw))

Initialized(slot, raw) ==
    ReadValue([NoSensor EXCEPT !.there = TRUE, !.activeLow = slot.activeLow], raw)

Calibrated(sensor, activeLow, raw) ==
    IF raw = Failed THEN [sensor EXCEPT !.activeLow = activeLow, !.valid = FALSE]
    ELSE FirstRead([sensor EXCEPT !.activeLow = activeLow], Active(activeLow, raw))

-----------------------------------------------------------------------------
(* Xkc25Subsystem: what a change of level does.                            *)

\* Mutant of Put: a full queue takes one more.
PutOneMore(queue, command) == IF Len(queue) <= QueueLimit THEN Append(queue, command) ELSE queue

Put(queue, command) == IF Len(queue) < QueueLimit THEN Append(queue, command) ELSE queue

\* getSnapshot(): "unknown" when the mutex of the process could not be taken in time.
Snapshot(seen) == IF seen = shown THEN UNCHANGED left ELSE Spend("misses")

Rises(seen) ==
    /\ sub' = [sub EXCEPT !.alerts = @ + 1,
                          !.owns = @ \/ (options.trigger = "pause" /\ seen = "running")]
    /\ commands' =
        IF options.trigger = "abort" /\ seen \in {"running", "paused"} THEN Put(commands, "stop")
        ELSE IF options.trigger = "pause" /\ seen = "running" THEN Put(commands, "pause")
        ELSE commands

\* Mutant of Falls: the last sensor to fall forgets to count itself out.
FallsOneLeft(seen) ==
    LET rest == IF sub.alerts > 1 THEN sub.alerts - 1 ELSE sub.alerts
        ends == rest = 0 /\ sub.owns
    IN /\ sub' = [sub EXCEPT !.alerts = rest, !.owns = @ /\ ~ends]
       /\ commands' = IF ends /\ seen = "paused" THEN Put(commands, "resume") ELSE commands

Falls(seen) ==
    LET rest == IF sub.alerts > 0 THEN sub.alerts - 1 ELSE 0
        ends == rest = 0 /\ sub.owns
    IN /\ sub' = [sub EXCEPT !.alerts = rest, !.owns = @ /\ ~ends]
       /\ commands' = IF ends /\ seen = "paused" THEN Put(commands, "resume") ELSE commands

\* One sensor's turn in fastPollLoop().
PollReads(s, raw) ==
    /\ sub.tasks > 0 /\ sensors[s].there
    /\ LET next == ReadValue(sensors[s], raw)
           was == sensors[s]
       IN /\ sensors' = [sensors EXCEPT ![s] = next]
          /\ \/ /\ was.valid /\ next.filled /\ ~was.filled
                /\ \E seen \in {shown, "unknown"} : Snapshot(seen) /\ Rises(seen)
                /\ UNCHANGED silent
             \/ /\ was.valid /\ ~next.filled /\ was.filled
                /\ \E seen \in {shown, "unknown"} : Snapshot(seen) /\ Falls(seen)
                /\ UNCHANGED silent
             \/ /\ ~was.valid \/ next.filled = was.filled
                /\ silent' = IF next.filled # was.filled THEN silent \cup {s} ELSE silent
                /\ UNCHANGED <<sub, commands, left>>
    /\ UNCHANGED <<physical, config, options, probes, ctrl, shown, taught, due>>

Poll(s) == \E raw \in Reads(s) : PollReads(s, raw)

\* The task leaves its loop when it sees _fastPollStop.
TaskEnds ==
    /\ sub.stop /\ sub.tasks > 0
    /\ sub' = [sub EXCEPT !.tasks = @ - 1]
    /\ UNCHANGED <<physical, config, options, sensors, probes, processVars, left, history>>

-----------------------------------------------------------------------------
(* The wizard: one step a request, on a sensor that is alive.              *)

\* recordLevelWithoutLiquid(): refused when the line follows the pulls of the probe.
WithoutLiquid(s) ==
    /\ sub.on /\ sensors[s].there /\ Spend("requests")
    /\ LET probe == Probe(s) IN
        /\ probes' = [probes EXCEPT ![s] = probe]
        /\ IF probe.up # probe.down
           THEN taught' = [taught EXCEPT ![s] = {}] /\ UNCHANGED config
           ELSE \E raw \in Read(s) :
                 /\ config' = [config EXCEPT ![s].dry = raw, ![s].calibrated = FALSE]
                 /\ taught' = [taught EXCEPT ![s] = IF liquid[s] THEN {} ELSE {"dry"}]
    /\ UNCHANGED <<physical, options, sensors, sub, processVars, silent, due>>

\* The two levels as the probes of the two steps tell them apart, else as they were read.
Levels(s, raw) ==
    LET dry == probes[s]
        wet == Probe(s)
    IN CASE dry # NoProbe /\ wet.up # dry.up -> [dry |-> dry.up, wet |-> wet.up]
         [] dry # NoProbe /\ wet.up = dry.up /\ wet.down # dry.down ->
                [dry |-> dry.down, wet |-> wet.down]
         [] OTHER -> [dry |-> config[s].dry, wet |-> raw]

\* Mutant of ActiveLow: the polarity taken from the level without liquid.
ActiveLowOfDry(levels) == levels.dry = 0

ActiveLow(levels) == levels.wet = 0

\* recordLevelWithLiquid(): equal levels mean the sensor did not react, nothing is saved.
WithLiquid(s) ==
    /\ sub.on /\ sensors[s].there /\ Spend("requests")
    /\ \E raw \in Read(s), again \in Reads(s) :
        LET levels == Levels(s, raw)
            next == Calibrated(sensors[s], ActiveLow(levels), again)
        IN /\ levels.wet # levels.dry
           /\ config' = [config EXCEPT ![s].dry = levels.dry, ![s].wet = levels.wet,
                                       ![s].activeLow = ActiveLow(levels), ![s].calibrated = TRUE]
           /\ sensors' = [sensors EXCEPT ![s] = next]
           /\ silent' = IF next.filled # sensors[s].filled THEN silent \cup {s} ELSE silent
    /\ taught' = [taught EXCEPT ![s] = IF liquid[s] THEN @ \cup {"wet"} ELSE {}]
    /\ UNCHANGED <<physical, options, probes, sub, processVars, due>>

-----------------------------------------------------------------------------
(* Settings, switching on and off, restart.                                *)

\* A slot switched on or off is wired anew: its calibration is void (update()).
PutSlot(s) ==
    /\ Spend("requests")
    /\ config' = [config EXCEPT ![s].enabled = ~@, ![s].calibrated = FALSE, ![s].activeLow = TRUE]
    /\ UNCHANGED <<physical, options, sensors, probes, sub, processVars, history>>

PutOptions ==
    /\ Spend("requests")
    /\ options' \in Options \ {options}
    /\ UNCHANGED <<physical, config, sensors, probes, sub, processVars, history>>

\* runBootAutocheck(): equal levels cannot come from the wizard.
Autochecked(slot) ==
    [slot EXCEPT !.calibrated = @ /\ ~(slot.enabled /\ slot.dry = slot.wet)]

\* enable(): a sensor whose address is registered already stays as it is.
Enable ==
    /\ ~sub.on
    /\ config' = [s \in Slots |-> Autochecked(config[s])]
    /\ \E raw \in [Slots -> Bits \cup {Failed}] :
        /\ \A s \in Slots : raw[s] \in Reads(s)
        /\ sensors' = [s \in Slots |->
            IF config'[s].enabled /\ ~sensors[s].there THEN Initialized(config'[s], raw[s])
            ELSE sensors[s]]
    /\ \E s \in Slots : sensors'[s].there
    /\ sub' = [sub EXCEPT !.on = TRUE, !.wasRunning = FALSE, !.stop = FALSE, !.tasks = @ + 1]
    /\ silent' = silent \cup {s \in Slots : sensors'[s].filled /\ ~sensors[s].filled}
    /\ due' = IF shown = "running" THEN "none" ELSE "armed"
    /\ UNCHANGED <<physical, options, probes, processVars, left, taught>>

\* disable(): it waits 200 ms for the task, and goes on whether the task has ended or not.
Disable ==
    /\ sub.on /\ Spend("requests")
    /\ sub' = [sub EXCEPT !.on = FALSE, !.stop = TRUE, !.alerts = 0, !.owns = FALSE,
                          !.wasRunning = FALSE]
    /\ silent' = silent \cup {s \in Slots : sensors[s].filled}
    /\ due' = "none"
    /\ UNCHANGED <<physical, config, options, sensors, probes, processVars, taught>>

Off == [on |-> FALSE, alerts |-> 0, owns |-> FALSE, wasRunning |-> FALSE, stop |-> FALSE, tasks |-> 0]

\* Loading goes through update(), which takes no calibration from the file.
Loaded(slot) ==
    [slot EXCEPT !.calibrated = FALSE, !.activeLow = TRUE, !.dry = 1, !.wet = 0]

Restart ==
    /\ Spend("requests")
    /\ config' = [s \in Slots |-> Loaded(config[s])]
    /\ sensors' = [s \in Slots |-> NoSensor]
    /\ probes' = [s \in Slots |-> NoProbe]
    /\ sub' = Off /\ shown' = "idle" /\ commands' = <<>>
    /\ taught' = [s \in Slots |-> {}]
    /\ silent' = {} /\ due' = "none"
    /\ UNCHANGED <<physical, options, ctrl>>

-----------------------------------------------------------------------------
(* The process: what the watcher sees of it, and who commands it.          *)

Uncalibrated == \E s \in Slots : config[s].enabled /\ ~config[s].calibrated

\* Mutant of SeenRunning: once a process ran, the watcher never forgets it.
SeenRunningEver(running) == sub.wasRunning \/ running

SeenRunning(running) == running

\* checkProcessTransition()
Watch ==
    /\ sub.on
    /\ LET running == shown = "running" IN
        /\ sub' = [sub EXCEPT !.wasRunning = SeenRunning(running)]
        /\ due' = IF ~running THEN "armed"
                  ELSE IF due = "due" /\ ~sub.wasRunning THEN "none"
                  ELSE due
    /\ UNCHANGED <<physical, config, options, sensors, probes, processVars, left, taught, silent>>

\* checkStart()
StartRefused == options.guard = "block" /\ Uncalibrated

\* The web interface, MQTT and the bots, through the command queue.
UserAsks(c) ==
    /\ Spend("orders")
    /\ c = "start" => ~StartRefused
    /\ commands' = Put(commands, c)
    /\ UNCHANGED <<physical, levelVars, ctrl, shown, history>>

Does(c, state) ==
    CASE c = "start" /\ state = "idle" -> "running"
      [] c = "pause" /\ state = "running" -> "paused"
      [] c = "resume" /\ state = "paused" -> "running"
      [] c = "stop" -> "idle"
      [] OTHER -> state

\* The buttons of the controller itself.
UserPresses(c) ==
    /\ Spend("orders")
    /\ ctrl' = Does(c, ctrl)
    /\ UNCHANGED <<physical, levelVars, shown, commands, history>>

CtrlTakes ==
    /\ commands # <<>>
    /\ ctrl' = Does(Head(commands), ctrl)
    /\ commands' = Tail(commands)
    /\ UNCHANGED <<physical, levelVars, shown, left, history>>

Telemetry ==
    /\ shown' = ctrl
    /\ due' = IF ctrl # "running" THEN (IF due = "due" THEN "armed" ELSE due)
              ELSE IF shown # "running" /\ due = "armed"
                   THEN (IF Uncalibrated THEN "due" ELSE "none")
              ELSE due
    /\ UNCHANGED <<physical, levelVars, ctrl, commands, left, taught, silent>>

LiquidMoves(s) ==
    /\ Spend("tides")
    /\ liquid' = [liquid EXCEPT ![s] = ~@]
    /\ UNCHANGED <<wiring, levelVars, processVars, history>>

-----------------------------------------------------------------------------
NewSlot == [enabled |-> FALSE, calibrated |-> FALSE, dry |-> 1, wet |-> 0, activeLow |-> TRUE]

Init ==
    /\ \E setup \in Setups :
        /\ wiring = setup.wiring /\ options = setup.options /\ left = setup.left
        /\ config = [s \in Slots |-> [NewSlot EXCEPT !.enabled = s \in setup.used]]
    /\ liquid = [s \in Slots |-> FALSE]
    /\ sensors = [s \in Slots |-> NoSensor]
    /\ probes = [s \in Slots |-> NoProbe]
    /\ sub = Off
    /\ ctrl = "idle" /\ shown = "idle" /\ commands = <<>>
    /\ taught = [s \in Slots |-> {}]
    /\ silent = {} /\ due = "none"

Next ==
    \/ \E s \in Slots : Poll(s) \/ WithoutLiquid(s) \/ WithLiquid(s) \/ PutSlot(s) \/ LiquidMoves(s)
    \/ TaskEnds \/ PutOptions \/ Enable \/ Disable \/ Restart
    \/ Watch \/ CtrlTakes \/ Telemetry
    \/ \E c \in UserCommands : UserAsks(c) \/ UserPresses(c)

Spec == Init /\ [][Next]_vars

\* The tasks run, telemetry arrives every second, the bus does not fail for ever.
Fairness ==
    /\ \A s \in Slots : WF_vars(\E raw \in Read(s) : PollReads(s, raw))
    /\ WF_vars(Watch) /\ WF_vars(Telemetry) /\ WF_vars(CtrlTakes)

FairSpec == Spec /\ Fairness

-----------------------------------------------------------------------------
SensorType ==
    [there: BOOLEAN, valid: BOOLEAN, filled: BOOLEAN, cand: BOOLEAN, count: 0..Debounce,
     activeLow: BOOLEAN]
SlotType == [enabled: BOOLEAN, calibrated: BOOLEAN, dry: Bits, wet: Bits, activeLow: BOOLEAN]
SubType ==
    [on: BOOLEAN, alerts: Nat, owns: BOOLEAN, wasRunning: BOOLEAN, stop: BOOLEAN, tasks: Nat]
Orders == UserCommands \cup {"pause", "resume", "stop"}
Queues == {q \in Seq(Orders) : Len(q) <= QueueLimit}

\* Every variable is of its type; a count of debouncing stays within its bound.
TypeOK ==
    /\ wiring \in [Slots -> Wirings] /\ liquid \in [Slots -> BOOLEAN]
    /\ config \in [Slots -> SlotType]
    /\ options \in Options
    /\ sensors \in [Slots -> SensorType]
    /\ probes \in [Slots -> [up: 0..2, down: 0..2]]
    /\ sub \in SubType
    /\ ctrl \in ProcessStates /\ shown \in ProcessStates
    /\ commands \in Queues
    /\ left \in Bounds
    /\ taught \in [Slots -> SUBSET {"dry", "wet"}]
    /\ silent \subseteq Slots /\ due \in {"none", "armed", "due"}

\* Whatever the order of the wizard's steps, of refusals, restarts and changes of the slot:
\* a sensor that counts as calibrated and was shown both states truly holds the polarity
\* of its line, in the configuration and in the running object alike.
PolarityRight ==
    \A s \in Slots :
        config[s].calibrated /\ Held(s) /\ taught[s] = {"dry", "wet"} =>
            /\ config[s].activeLow = (wiring[s] # "pnp")
            /\ sensors[s].there => sensors[s].activeLow = config[s].activeLow

\* As long as no level was taken over without an event, _sensorsOnAlert is what its comment
\* says: the number of sensors that signal liquid.
AlertsExact ==
    silent = {} => sub.alerts = Cardinality({s \in Slots : sensors[s].filled})

Observed(s) ==
    /\ sub.on /\ sub.tasks > 0 /\ sensors[s].there /\ Held(s)
    /\ sensors[s].activeLow = (wiring[s] # "pnp")

\* A sensor with the polarity of its line ends up saying what stands in front of it: neither
\* debouncing nor failed reads of the bus keep a level from being taken over.
LevelFollows ==
    \A s \in Slots :
        /\ <>[](Observed(s) /\ liquid[s]) => <>[](sensors[s].filled)
        /\ <>[](Observed(s) /\ ~liquid[s]) => <>[](~sensors[s].filled)

\* A process that begins with an uncalibrated sensor, from whatever button, is noticed by
\* the watcher as long as it runs, the second one as well as the first.
StartWarned ==
    due = "due" ~> (due # "due" \/ shown # "running" \/ ~sub.on)

\* The class comment: as long as one sensor is triggered, the process is held paused.
FilledHolds ==
    (sub.on /\ options.trigger = "pause" /\ ctrl = "running" /\ \E s \in Slots : sensors[s].filled)
        ~> (~sub.on \/ ctrl # "running" \/ \A s \in Slots : ~sensors[s].filled)
=============================================================================
