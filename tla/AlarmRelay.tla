----------------------------- MODULE AlarmRelay -----------------------------
(***************************************************************************)
(* Alarms and relays: AlarmMonitor turns readings and device faults into   *)
(* events, its subscribers (the rule engine, the notifications, the alarm  *)
(* lines) receive them in the task that caused them, and what they do to   *)
(* the relay ports can cause further events in the middle of the first.    *)
(*                                                                         *)
(* Four recursive mutexes are taken on the way: T of the threshold service *)
(* (held during a whole check), E of the engine, C of the port             *)
(* coordinator, and the monitor's own, which is never held across a call   *)
(* and is therefore one step here, as is the I2C bus around one write.     *)
(* The calls of a task are the frames of stack[task], the current one      *)
(* first; a step of a task runs to its next mutex or shared value.         *)
(***************************************************************************)
EXTENDS RelayRules, FiniteSets

CONSTANTS
    Webs,         \* tasks that serve HTTP and MQTT
    Devices,      \* roles of other devices, each watched by a task of its own
    SensorOrder,  \* the sensors in the order of their addresses
    ChipOrder,    \* relay chips in the order of their lines
    LinesPerChip, \* SSVC_RELAY_PCF8574_LINES_PER_CHIP
    Readings,     \* values a sensor can have
    Settings,     \* threshold settings a client can send
    Stages,       \* stages of the rectification, as the metric names them
    SettingValues,\* values of the controller's settings
    RuleFiles,    \* arrays of rules in the profiles
    MaxNoise,     \* bound: failed writes
    MaxInputs     \* bound: other changes from outside

Chips == ToSet(ChipOrder)
Lines == 0..(Len(ChipOrder) * LinesPerChip - 1)
Bus == "i2c_bus"
Tasks == {"timer", "boot"} \cup Webs \cup Devices
Locks == {"T", "E", "C"}
Subscribers == {"engine", "notif", "pinout"}

\* SENSOR_ERROR_VALUE is an invalid reading, and FAILURE_THRESHOLD_VALUE the bound that
\* the event of a failed sensor names.
Invalid == -999
Failure == Invalid

ASSUME ChipsAssumption ==
    /\ Len(ChipOrder) > 0
    /\ LinesPerChip \in Nat /\ LinesPerChip >= 3
    /\ ChipOrder \in Seq(Chips) /\ SensorOrder \in Seq(Sensors)
    /\ ToSet(SensorOrder) = Sensors
    /\ FaultKeys = Chips \cup {Bus} \cup Devices
    /\ Chips \cap (Devices \cup {Bus}) = {} /\ Bus \notin Devices
    /\ Sensors \cap FaultKeys = {}
    /\ Readings \subseteq Int
    /\ Settings \subseteq [enabled: BOOLEAN, min: Int, dangerous: Int, critical: Int]

NoSettings == [enabled |-> FALSE, min |-> 0, dangerous |-> 0, critical |-> Invalid]
NoTask == "none"
ASSUME TasksAssumption == NoTask \notin Tasks

\* A name filter in a file of rules stands for the sensors, or devices, it finds.
ASSUME RulesAssumption ==
    \A file \in RuleFiles : \A i \in DOMAIN file : Has(file[i], "condition") =>
        /\ Get(file[i].condition, "sensorNameContains", {}) \subseteq Sensors
        /\ Get(file[i].condition, "roleContains", {}) \subseteq FaultKeys

NoEvent == [src |-> "none", level |-> "NORMAL", bound |-> 0]
Events == [src: Sensors \cup FaultKeys, level: Levels, bound: Int]
Hardware(ev) == ev.src \in FaultKeys

VARIABLES
    registered, \* SensorManager: sensors found on the wires
    reading,    \* their last values
    thresholds, \* AlarmThresholdsState, NoSettings where there is no entry
    level,      \* _last_alarm_states, "unset" where there is no entry
    faults,     \* _last_hw_alarm_states and _hw_fault_active_codes
    subs,       \* _subscribers
    rules,      \* RelayRuleEngine::_rules
    manual,     \* _manualMask and _manualEnergized
    seen,       \* _sensorAlarmStates, NORMAL where there is no entry
    notif,      \* NotificationSubscriber: timer, _isAlarmActive, _lastActiveAlarm
    coord,      \* RelayPortCoordinator: energised user lines and the alarm byte
    out,        \* energised outputs of each chip
    plant,      \* rectification stage and settings of the controller
    locks, stack,
    inputs,     \* changes from outside so far: "noise" and "other"
    written     \* history: the result of the last write to each chip
    
monitorVars == <<registered, reading, thresholds, level, faults, subs>>
engineVars == <<rules, manual, seen>>
portVars == <<coord, out, written>>
vars == <<monitorVars, engineVars, notif, portVars, plant, locks, stack, inputs>>

-----------------------------------------------------------------------------
(* Frames and mutexes.                                                     *)

Procedures == {"check", "update", "notify", "event", "force", "recompute", "held", "flush", "pins"}
Places == {"lock", "sensor", "reset", "next", "line", "set", "unlock", "write", "report", "bus"}
Results == {"OK", "I2C_NACK", "I2C_BUS_DOWN"}

Frames == [proc: Procedures, at: Places, i: Nat, ev: Events \cup {NoEvent},
           to: Seq(Subscribers), res: Results \cup {"", "on", "off"}]

Frame(proc, at) ==
    [proc |-> proc, at |-> at, i |-> 0, ev |-> NoEvent, to |-> <<>>, res |-> ""]

Idle(t) == stack[t] = <<>>
Top(t) == Head(stack[t])
At(t, proc, at) == ~Idle(t) /\ Top(t).proc = proc /\ Top(t).at = at

Goto(t, frame) == stack' = [stack EXCEPT ![t] = <<frame>> \o Tail(@)]
Call(t, frame, callee) == stack' = [stack EXCEPT ![t] = <<callee, frame>> \o Tail(@)]
Return(t) == stack' = [stack EXCEPT ![t] = Tail(@)]
Enter(t, frame) == Idle(t) /\ stack' = [stack EXCEPT ![t] = <<frame>>]

Free(l, t) == locks[l].owner \in {NoTask, t}
Acquire(l, t) ==
    /\ Free(l, t)
    /\ locks' = [locks EXCEPT ![l] = [owner |-> t, depth |-> @.depth + 1]]
Release(l, t) ==
    locks' = [locks EXCEPT ![l] =
        [owner |-> IF @.depth = 1 THEN NoTask ELSE t, depth |-> @.depth - 1]]

NotifyFrame(ev) == [Frame("notify", "next") EXCEPT !.ev = ev, !.to = subs]

\* An event is sent when the state of its source changed.
Report(t, frame, changed, ev) ==
    IF changed THEN Call(t, frame, NotifyFrame(ev)) ELSE Goto(t, frame)

Input(kind, bound) ==
    /\ inputs[kind] < bound
    /\ inputs' = [inputs EXCEPT ![kind] = @ + 1]

-----------------------------------------------------------------------------
(* AlarmMonitor: faults of devices.                                        *)

FaultEvent(key, lvl) == [src |-> key, level |-> lvl, bound |-> 0]

\* raiseHardwareFault() and clearHardwareFault() up to notifySubscribers(): the code is
\* always stored, the event is sent on a transition only.
Raise(t, frame, key, code) ==
    /\ faults' = [faults EXCEPT ![key] = code]
    /\ Report(t, frame, faults[key] = "NONE", FaultEvent(key, "CRITICAL"))

Clear(t, frame, key) ==
    /\ faults' = [faults EXCEPT ![key] = "NONE"]
    /\ Report(t, frame, faults[key] # "NONE", FaultEvent(key, "NORMAL"))

\* A device's task finds its device absent or present again; I2CBusSubsystem does it for
\* the bus.
DeviceFault(d) ==
    /\ Input("other", MaxInputs)
    /\ faults' = [faults EXCEPT ![d] = "I2C_NACK"]
    /\ faults[d] = "NONE"
    /\ Enter(d, NotifyFrame(FaultEvent(d, "CRITICAL")))
    /\ UNCHANGED <<registered, reading, thresholds, level, subs, engineVars, notif,
                   portVars, plant, locks>>

DeviceRecovers(d) ==
    /\ faults[d] # "NONE"
    /\ faults' = [faults EXCEPT ![d] = "NONE"]
    /\ Enter(d, NotifyFrame(FaultEvent(d, "NORMAL")))
    /\ UNCHANGED <<registered, reading, thresholds, level, subs, engineVars, notif,
                   portVars, plant, locks, inputs>>

-----------------------------------------------------------------------------
(* AlarmMonitor: readings against thresholds.                              *)

LevelOf(v, th) ==
    CASE v >= th.critical -> "CRITICAL"
      [] v < th.critical /\ v >= th.dangerous -> "DANGEROUS"
      [] v < th.critical /\ v < th.dangerous /\ v <= th.min -> "MIN"
      [] OTHER -> "NORMAL"

Crossed(lvl, th) ==
    CASE lvl = "CRITICAL" -> th.critical
      [] lvl = "DANGEROUS" -> th.dangerous
      [] lvl = "MIN" -> th.min
      [] OTHER -> 0

Monitored(s) == s \in registered /\ thresholds[s].enabled

Known(s) == IF level[s] = "unset" THEN "NORMAL" ELSE level[s]

SensorEvent(s, lvl, bound) == [src |-> s, level |-> lvl, bound |-> bound]

\* checkAllSensors() begins: read() takes the mutex of the thresholds.
CheckBegins(t) ==
    /\ At(t, "check", "lock")
    /\ Acquire("T", t)
    /\ Goto(t, [Top(t) EXCEPT !.at = "sensor", !.i = 1])
    /\ UNCHANGED <<monitorVars, engineVars, notif, portVars, plant, inputs>>

CheckSensor(t) ==
    LET f == Top(t)
        s == SensorOrder[f.i]
        next == [f EXCEPT !.i = @ + 1]
        new == IF reading[s] = Invalid THEN "CRITICAL" ELSE LevelOf(reading[s], thresholds[s])
        bound == IF reading[s] = Invalid THEN Failure ELSE Crossed(new, thresholds[s])
        first == reading[s] = Invalid /\ level[s] = "unset"
    IN
    /\ At(t, "check", "sensor")
    /\ f.i <= Len(SensorOrder)
    /\ IF ~Monitored(s)
       THEN Goto(t, next) /\ UNCHANGED level
       ELSE IF first
       THEN level' = [level EXCEPT ![s] = "NORMAL"] /\ Goto(t, next)
       ELSE /\ level' = IF new # Known(s) THEN [level EXCEPT ![s] = new] ELSE level
            /\ Report(t, next, new # Known(s), SensorEvent(s, new, bound))
    /\ UNCHANGED <<registered, reading, thresholds, faults, subs, engineVars, notif,
                   portVars, plant, locks, inputs>>

CheckEnds(t) ==
    /\ At(t, "check", "sensor")
    /\ Top(t).i > Len(SensorOrder)
    /\ Release("T", t)
    /\ Return(t)
    /\ UNCHANGED <<monitorVars, engineVars, notif, portVars, plant, inputs>>

\* SensorCoordinator's timer polls and checks; a change of the sensor configuration
\* makes a client's task check.
StartCheck(t) ==
    /\ t \in Webs \cup {"timer"} /\ (t \in Webs => inputs.other < MaxInputs)
    /\ Enter(t, Frame("check", "lock"))
    /\ inputs' = IF t = "timer" THEN inputs ELSE [inputs EXCEPT !.other = @ + 1]
    /\ UNCHANGED <<monitorVars, engineVars, notif, portVars, plant, locks>>

\* A sensor is found, or has a new value: a failed one keeps its address.
Sense(s) ==
    /\ Input("other", MaxInputs)
    /\ registered' = registered \cup {s}
    /\ \E v \in Readings \cup {Invalid} : v # reading[s] /\ reading' = [reading EXCEPT ![s] = v]
    /\ UNCHANGED <<thresholds, level, faults, subs, engineVars, notif, portVars, plant,
                   locks, stack>>

\* AlarmThresholdsState::update() for the settings of one sensor.  While no sensor is
\* registered they are taken without being called a change; later those of sensors that
\* are not registered are refused, and removed where they are stored.
UpdatedThresholds(s, setting) ==
    IF registered = {} THEN [thresholds EXCEPT ![s] = setting]
    ELSE [x \in Sensors |-> IF x \notin registered THEN NoSettings
                            ELSE IF x = s THEN setting ELSE thresholds[x]]

UpdateThresholds(w) ==
    /\ Idle(w)
    /\ Input("other", MaxInputs)
    /\ Free("T", w)
    /\ \E s \in Sensors, setting \in Settings :
        /\ thresholds' = UpdatedThresholds(s, setting)
        /\ stack' = [stack EXCEPT ![w] =
                IF registered # {} /\ thresholds' # thresholds
                THEN <<[Frame("update", "reset") EXCEPT !.i = 1, !.to = subs]>>
                ELSE <<>>]
    /\ UNCHANGED <<registered, reading, level, faults, subs, engineVars, notif, portVars,
                   plant, locks>>

\* onThresholdsUpdated(): every subscriber forgets its alarms, then the monitor does,
\* then all sensors are checked.
ResetSubscriber(w) ==
    LET f == Top(w)
        next == [f EXCEPT !.i = @ + 1]
    IN
    /\ At(w, "update", "reset")
    /\ f.i <= Len(f.to)
    /\ CASE f.to[f.i] = "engine" ->
              /\ Call(w, next, Frame("force", "lock"))
              /\ UNCHANGED <<notif, coord>>
         [] f.to[f.i] = "notif" ->
              /\ notif' = [timer |-> FALSE, active |-> FALSE, last |-> NoEvent]
              /\ Goto(w, next)
              /\ UNCHANGED coord
         [] f.to[f.i] = "pinout" ->
              /\ Free("C", w)
              /\ coord' = [coord EXCEPT !.alarm = "NORMAL"]
              /\ Call(w, next, Frame("flush", "lock"))
              /\ UNCHANGED notif
    /\ UNCHANGED <<monitorVars, engineVars, out, written, plant, locks, inputs>>

\* Mutant of ForgetLevels: the levels told before the change are kept.
ForgetLevelsKeeps(w) ==
    /\ At(w, "update", "reset")
    /\ Top(w).i > Len(Top(w).to)
    /\ Goto(w, Frame("check", "lock"))
    /\ UNCHANGED <<monitorVars, engineVars, notif, portVars, plant, locks, inputs>>

ForgetLevels(w) ==
    /\ At(w, "update", "reset")
    /\ Top(w).i > Len(Top(w).to)
    /\ level' = [s \in Sensors |-> "unset"]
    /\ Goto(w, Frame("check", "lock"))
    /\ UNCHANGED <<registered, reading, thresholds, faults, subs, engineVars, notif,
                   portVars, plant, locks, inputs>>


-----------------------------------------------------------------------------
(* notifySubscribers() and the subscribers' onAlarm().                     *)

\* Mutant of Notified: the timer goes on after the alarm.
NotifiedTimerRuns(ev) ==
    IF ev.level # "NORMAL"
    THEN [timer |-> TRUE, active |-> TRUE, last |-> ev]
    ELSE [notif EXCEPT !.active = FALSE]

\* NotificationSubscriber::onAlarm(): one timer and one remembered alarm for all sources.
Notified(ev) ==
    IF ev.level # "NORMAL"
    THEN [timer |-> TRUE, active |-> TRUE, last |-> ev]
    ELSE [notif EXCEPT !.timer = FALSE, !.active = FALSE]

\* The list of subscribers is copied when the event is sent (frame.to); the calls are
\* made in that order and without a lock.
NotifySubscriber(t) ==
    LET f == Top(t)
        last == f.i + 1 = Len(f.to)
        rest == (IF last THEN <<>> ELSE <<[f EXCEPT !.i = @ + 1]>>) \o Tail(stack[t])
        subscriber == f.to[f.i + 1]
    IN
    /\ At(t, "notify", "next")
    /\ CASE subscriber = "engine" ->
              /\ stack' = [stack EXCEPT ![t] = <<[Frame("event", "lock") EXCEPT !.ev = f.ev]>> \o rest]
              /\ UNCHANGED <<notif, coord>>
         [] subscriber = "notif" ->
              /\ notif' = Notified(f.ev)
              /\ stack' = [stack EXCEPT ![t] = rest]
              /\ UNCHANGED coord
         [] subscriber = "pinout" /\ Hardware(f.ev) ->
              /\ stack' = [stack EXCEPT ![t] = rest]
              /\ UNCHANGED <<notif, coord>>
         [] subscriber = "pinout" /\ ~Hardware(f.ev) ->
              /\ Free("C", t)
              /\ coord' = [coord EXCEPT !.alarm = f.ev.level]
              /\ stack' = [stack EXCEPT ![t] = <<Frame("flush", "lock")>> \o rest]
              /\ UNCHANGED notif
    /\ UNCHANGED <<monitorVars, engineVars, out, written, plant, locks, inputs>>

\* reAlarmTimerCallback(): a sensor that is no longer in alarm stops the repetition.
StillViolating(ev) ==
    \/ ev.level = "MIN" /\ reading[ev.src] <= ev.bound
    \/ ev.level \in {"DANGEROUS", "CRITICAL"} /\ reading[ev.src] >= ev.bound

ReAlarm ==
    /\ Idle("timer") /\ notif.timer /\ notif.active
    /\ notif.last.src \in Sensors /\ ~StillViolating(notif.last)
    /\ notif' = [notif EXCEPT !.timer = FALSE, !.active = FALSE]
    /\ UNCHANGED <<monitorVars, engineVars, portVars, plant, locks, stack, inputs>>

-----------------------------------------------------------------------------
(* RelayRuleEngine.                                                        *)

Reserved(line) == line \in {0, 1}
UserLines == {line \in Lines : ~Reserved(line)}
ChipOf(line) == ChipOrder[line \div LinesPerChip + 1]
LinesOf(chip) == {line \in Lines : ChipOf(line) = chip}

\* Mutant of EngineEvent: the end of an alarm is not recorded.
EngineEventRaisesOnly(t) ==
    LET ev == Top(t).ev IN
    /\ At(t, "event", "lock")
    /\ Hardware(ev) \/ Free("E", t)
    /\ seen' = IF Hardware(ev) \/ ev.level = "NORMAL" THEN seen
               ELSE [seen EXCEPT ![ev.src] = ev.level]
    /\ Goto(t, Frame("recompute", "lock"))
    /\ UNCHANGED <<monitorVars, rules, manual, notif, portVars, plant, locks, inputs>>

\* onAlarm(): only the level of a sensor is kept; the mutex is given back before
\* recomputeAndApply() takes it again.
EngineEvent(t) ==
    LET ev == Top(t).ev IN
    /\ At(t, "event", "lock")
    /\ Hardware(ev) \/ Free("E", t)
    /\ seen' = IF Hardware(ev) THEN seen ELSE [seen EXCEPT ![ev.src] = ev.level]
    /\ Goto(t, Frame("recompute", "lock"))
    /\ UNCHANGED <<monitorVars, rules, manual, notif, portVars, plant, locks, inputs>>

\* forceResetAlarm(), setManualOverride(), clearAllManualOverrides() and loadRules()
\* hold the mutex over the recomputation they call.
Holding(t, from) ==
    /\ Acquire("E", t)
    /\ stack' = [stack EXCEPT ![t] = <<Frame("recompute", "lock"), Frame("held", "unlock")>> \o from]

ForceReset(t) ==
    /\ At(t, "force", "lock")
    /\ Holding(t, Tail(stack[t]))
    /\ seen' = [s \in Sensors |-> "NORMAL"]
    /\ UNCHANGED <<monitorVars, rules, manual, notif, portVars, plant, inputs>>

Override(w) ==
    /\ Idle(w)
    /\ Input("other", MaxInputs)
    /\ \/ \E line \in UserLines, choice \in {"on", "off", "rules"} :
            manual' = [manual EXCEPT ![line] = choice]
       \/ manual' = [line \in UserLines |-> "rules"]
    /\ Holding(w, <<>>)
    /\ UNCHANGED <<monitorVars, rules, seen, notif, portVars, plant>>

LoadRules(w) ==
    /\ Idle(w)
    /\ Input("other", MaxInputs)
    /\ \E file \in RuleFiles : rules' = ParseRules(file)
    /\ Holding(w, <<>>)
    /\ UNCHANGED <<monitorVars, manual, seen, notif, portVars, plant>>

EngineUnlock(t) ==
    /\ At(t, "held", "unlock")
    /\ Release("E", t)
    /\ Return(t)
    /\ UNCHANGED <<monitorVars, engineVars, notif, portVars, plant, inputs>>

\* The engine's own timer of three seconds.
RulesTick ==
    /\ Enter("timer", Frame("recompute", "lock"))
    /\ UNCHANGED <<monitorVars, engineVars, notif, portVars, plant, locks, inputs>>

\* The stage of the rectification or a setting of the controller changes; nobody tells
\* the engine, which sees it at its next recomputation.
PlantChanges ==
    /\ Input("other", MaxInputs)
    /\ plant' \in [stage: Stages, settings: SettingValues]
    /\ plant' # plant
    /\ UNCHANGED <<monitorVars, engineVars, notif, portVars, locks, stack>>

Decision(line) ==
    IF manual[line] # "rules" THEN manual[line] = "on"
    ELSE Energised(rules, line, seen, faults, plant.stage, plant.settings)

\* The loop skips the two reserved lines, 0 and 1.
RecomputeBegins(t) ==
    /\ At(t, "recompute", "lock")
    /\ Acquire("E", t)
    /\ Goto(t, [Top(t) EXCEPT !.at = "line", !.i = 2])
    /\ UNCHANGED <<monitorVars, engineVars, notif, portVars, plant, inputs>>

\* One line of the loop: its rules are evaluated, then setUserLine() waits for the
\* coordinator's mutex with the decision in hand.
DecideLine(t) ==
    /\ At(t, "recompute", "line")
    /\ Goto(t, [Top(t) EXCEPT !.at = "set", !.res = IF Decision(Top(t).i) THEN "on" ELSE "off"])
    /\ UNCHANGED <<monitorVars, engineVars, notif, portVars, plant, locks, inputs>>

SetUserLine(t) ==
    LET f == Top(t) IN
    /\ At(t, "recompute", "set")
    /\ Free("C", t)
    /\ coord' = [coord EXCEPT !.user = IF f.res = "on" THEN @ \cup {f.i} ELSE @ \ {f.i}]
    /\ IF f.i + 1 \in Lines
       THEN Goto(t, [f EXCEPT !.at = "line", !.i = @ + 1, !.res = ""])
       ELSE Call(t, [f EXCEPT !.at = "unlock"], Frame("flush", "lock"))
    /\ UNCHANGED <<monitorVars, engineVars, notif, out, written, plant, locks, inputs>>

RecomputeEnds(t) ==
    /\ At(t, "recompute", "unlock")
    /\ Release("E", t)
    /\ Return(t)
    /\ UNCHANGED <<monitorVars, engineVars, notif, portVars, plant, inputs>>

-----------------------------------------------------------------------------
(* RelayPortCoordinator::flush() and Pcf8574RelayPort::flush().            *)

\* buildAlarmByte() and effectiveShadowChipLocked(), as sets of energised lines.
AlarmLines(lvl) ==
    CASE lvl = "DANGEROUS" -> {0} [] lvl = "CRITICAL" -> {1} [] OTHER -> {}

Image(chip) == (coord.user \cup AlarmLines(coord.alarm)) \cap LinesOf(chip)

\* Mutant of FlushBegins: the first chip is left out.
FlushBeginsLate(t) ==
    /\ At(t, "flush", "lock")
    /\ Acquire("C", t)
    /\ Goto(t, [Top(t) EXCEPT !.at = "write", !.i = 2])
    /\ UNCHANGED <<monitorVars, engineVars, notif, portVars, plant, inputs>>

FlushBegins(t) ==
    /\ At(t, "flush", "lock")
    /\ Acquire("C", t)
    /\ Goto(t, [Top(t) EXCEPT !.at = "write", !.i = 1])
    /\ UNCHANGED <<monitorVars, engineVars, notif, portVars, plant, inputs>>

\* The bus may be inactive, or the chip may not acknowledge.
WriteChip(t) ==
    LET f == Top(t)
        chip == ChipOrder[f.i]
    IN
    /\ At(t, "flush", "write")
    /\ f.i <= Len(ChipOrder)
    /\ \E r \in Results :
        /\ IF r = "OK" THEN UNCHANGED inputs ELSE Input("noise", MaxNoise)
        /\ out' = IF r = "OK" THEN [out EXCEPT ![chip] = Image(chip)] ELSE out
        /\ written' = [written EXCEPT ![chip] = r]
        /\ Goto(t, [f EXCEPT !.at = "report", !.res = r])
    /\ UNCHANGED <<monitorVars, engineVars, notif, coord, plant, locks>>

\* The fault is raised or cleared with the bus free but the coordinator locked.
ReportChip(t) ==
    LET f == Top(t)
        chip == ChipOrder[f.i]
        next == [f EXCEPT !.at = "write", !.i = @ + 1, !.res = ""]
    IN
    /\ At(t, "flush", "report")
    /\ CASE f.res = "OK" -> Clear(t, [f EXCEPT !.at = "bus"], chip)
         [] f.res = "I2C_NACK" -> Raise(t, next, chip, "I2C_NACK")
         [] f.res = "I2C_BUS_DOWN" -> Raise(t, next, Bus, "I2C_BUS_DOWN")
    /\ UNCHANGED <<registered, reading, thresholds, level, subs, engineVars, notif,
                   portVars, plant, locks, inputs>>

ReportBus(t) ==
    LET f == Top(t) IN
    /\ At(t, "flush", "bus")
    /\ Clear(t, [f EXCEPT !.at = "write", !.i = @ + 1, !.res = ""], Bus)
    /\ UNCHANGED <<registered, reading, thresholds, level, subs, engineVars, notif,
                   portVars, plant, locks, inputs>>

FlushEnds(t) ==
    /\ At(t, "flush", "write")
    /\ Top(t).i > Len(ChipOrder)
    /\ Release("C", t)
    /\ Return(t)
    /\ UNCHANGED <<monitorVars, engineVars, notif, portVars, plant, inputs>>

-----------------------------------------------------------------------------
\* SsvcOpenConnect::begin(): the engine subscribes before the sensors are polled, then the
\* notifications, then the alarm lines, which reset themselves after they have subscribed.
BootOrder == <<"engine", "notif", "pinout">>

Subscribe ==
    LET new == BootOrder[Len(subs) + 1] IN
    /\ Idle("boot") /\ Len(subs) < 3
    /\ subs' = Append(subs, new)
    /\ stack' = IF new = "pinout"
                THEN [stack EXCEPT !["boot"] = <<Frame("pins", "reset")>>] ELSE stack
    /\ UNCHANGED <<registered, reading, thresholds, level, faults, engineVars, notif,
                   portVars, plant, locks, inputs>>

ResetPins(t) ==
    /\ At(t, "pins", "reset")
    /\ Free("C", t)
    /\ coord' = [coord EXCEPT !.alarm = "NORMAL"]
    /\ Goto(t, Frame("flush", "lock"))
    /\ UNCHANGED <<monitorVars, engineVars, notif, out, written, plant, locks, inputs>>

Init ==
    /\ registered = {}
    /\ reading = [s \in Sensors |-> Invalid]
    /\ thresholds \in [Sensors -> Settings]
    /\ level = [s \in Sensors |-> "unset"]
    /\ faults = [k \in FaultKeys |-> "NONE"]
    /\ subs = <<"engine">>
    /\ rules \in {ParseRules(file) : file \in RuleFiles}
    /\ manual = [line \in UserLines |-> "rules"]
    /\ seen = [s \in Sensors |-> "NORMAL"]
    /\ notif = [timer |-> FALSE, active |-> FALSE, last |-> NoEvent]
    /\ coord = [user |-> {}, alarm |-> "NORMAL"]
    /\ out = [c \in Chips |-> {}]
    /\ plant \in [stage: Stages, settings: SettingValues]
    /\ locks = [l \in Locks |-> [owner |-> NoTask, depth |-> 0]]
    /\ stack = [t \in Tasks |-> <<>>]
    /\ inputs = [noise |-> 0, other |-> 0]
    /\ written = [c \in Chips |-> "OK"]

Inside(t) ==
    \/ CheckBegins(t) \/ CheckSensor(t) \/ CheckEnds(t)
    \/ ResetSubscriber(t) \/ ForgetLevels(t)
    \/ NotifySubscriber(t)
    \/ EngineEvent(t) \/ ForceReset(t) \/ EngineUnlock(t)
    \/ RecomputeBegins(t) \/ DecideLine(t) \/ SetUserLine(t) \/ RecomputeEnds(t)
    \/ FlushBegins(t) \/ WriteChip(t) \/ ReportChip(t) \/ ReportBus(t) \/ FlushEnds(t)
    \/ ResetPins(t)

Web(w) == UpdateThresholds(w) \/ Override(w) \/ LoadRules(w)
Device(d) == DeviceFault(d) \/ DeviceRecovers(d)

Next ==
    \/ \E t \in Tasks : Inside(t)
    \/ \E w \in Webs : Web(w)
    \/ \E d \in Devices : Device(d)
    \/ \E t \in Tasks : StartCheck(t)
    \/ \E s \in Sensors : Sense(s)
    \/ ReAlarm \/ RulesTick \/ PlantChanges \/ Subscribe

\* Every task runs, FreeRTOS calls the timers that are due, and a mutex that is given back
\* again and again is handed to a task that waits for it (strong fairness).
Fairness ==
    /\ \A t \in Tasks : SF_vars(Inside(t))
    /\ SF_vars(RulesTick) /\ SF_vars(StartCheck("timer"))
    /\ WF_vars(Subscribe)

Spec == Init /\ [][Next]_vars
FairSpec == Spec /\ Fairness
-----------------------------------------------------------------------------
(* Properties.                                                             *)

\* The state of the alarm path is made of the values named here; a mutex has an owner
\* exactly while it is held.
TypeOK ==
    /\ registered \subseteq Sensors
    /\ reading \in [Sensors -> Readings \cup {Invalid}]
    /\ thresholds \in [Sensors -> Settings \cup {NoSettings}]
    /\ level \in [Sensors -> Levels \cup {"unset"}]
    /\ faults \in [FaultKeys -> FaultCodes \cup {"NONE"}]
    /\ ToSet(subs) \subseteq Subscribers
    /\ manual \in [UserLines -> {"on", "off", "rules"}]
    /\ seen \in [Sensors -> Levels]
    /\ notif.last \in Events \cup {NoEvent} /\ notif.timer = notif.active
    /\ coord.user \subseteq UserLines /\ coord.alarm \in Levels
    /\ \A c \in Chips : out[c] \subseteq LinesOf(c)
    /\ \A l \in Locks : (locks[l].owner = NoTask) = (locks[l].depth = 0)
    /\ stack \in [Tasks -> Seq(Frames)]

AtRest == \A t \in Tasks : Idle(t)

\* When no call is in progress, the coordinator holds for every line what the rules say
\* of the alarms and faults known now, unless the rule depends on the plant, which the
\* engine looks at only every three seconds.
FollowsPlant(line) ==
    \E i \in DOMAIN rules :
        rules[i].target = line /\ rules[i].cond.kind \notin {"sensor_alarm", "hardware_fault"}

LinesFollowRules ==
    AtRest =>
        \A line \in UserLines : ~FollowsPlant(line) =>
            ((line \in coord.user) = Decision(line))

\* When no call is in progress, a chip that took its last write shows what the
\* coordinator holds for it.
OutputsMatch ==
    AtRest => \A c \in Chips : written[c] = "OK" => out[c] = Image(c)

\* When no call is in progress, a chip that took its last write has no fault, and one that
\* did not acknowledge it has; a bus that is down leaves the fault of a chip as it was.
FaultTableTrue ==
    AtRest => \A c \in Chips : /\ written[c] = "OK" => faults[c] = "NONE"
                              /\ written[c] = "I2C_NACK" => faults[c] = "I2C_NACK"

\* The relays are right: rules, coordinator, chips and the table of faults agree whenever the
\* tasks are at rest, though each of them is brought up to date by a call from inside another.
RelaysRight == LinesFollowRules /\ OutputsMatch /\ FaultTableTrue

\* An alarm the monitor has on its books is known to the engine when no call is in
\* progress: a change of thresholds may not lose it.
NoAlarmForgotten ==
    AtRest =>
        \A s \in Sensors : level[s] \notin {"unset", "NORMAL"} => seen[s] = level[s]

\* A profile that is saved and applied again has the same rules.
SavedRulesSame == ParseRules(SerializeRules(rules)) = rules

\* The alarm outputs follow the levels of the sensors.
Alarming == {s \in Sensors : level[s] \in {"DANGEROUS", "CRITICAL"}}

\* An alarm line that is on stays on, once everybody has subscribed, while a sensor is
\* DANGEROUS or CRITICAL.
AlarmLineKept ==
    [][Len(subs) = 3 /\ Idle("boot") /\ AlarmLines(coord.alarm) # {} /\ AlarmLines(coord'.alarm) = {}
       => Alarming' = {}]_vars

\* An event that AlarmMonitor sends is delivered to all its subscribers.
Delivering(t) == \E i \in DOMAIN stack[t] : stack[t][i].proc = "notify"
EventsDelivered == \A t \in Tasks : Delivering(t) ~> ~Delivering(t)

\* What the engine knows of the sensors comes to agree with what they read, and the
\* relays with the rules, also for rules on the state of the plant.
Expected(s) ==
    IF ~Monitored(s) THEN "NORMAL"
    ELSE IF reading[s] = Invalid THEN "CRITICAL" ELSE LevelOf(reading[s], thresholds[s])

\* What the sensors, the devices and the plant are when they come to rest reaches the
\* relays, however the alarms and faults that began and ended before that were told.
AlarmsTakeEffect ==
    <>[](/\ \A s \in Sensors : seen[s] = Expected(s)
         /\ \A line \in UserLines : (line \in out[ChipOf(line)]) = Decision(line))

=============================================================================
