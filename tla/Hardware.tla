----------------------------- MODULE Hardware -----------------------------
(***************************************************************************)
(* The hardware settings of the device and the start that they govern:     *)
(* OpenConnectHardwareConfig (what a request or a file may change, and     *)
(* what it implies), OpenConnectHardwareMigration (the check of the file   *)
(* before it is loaded), OpenConnectHardwareSettingsService with           *)
(* FSPersistence (the file), SubsystemManager with the object in NVS, and  *)
(* the requests PUT /rest/oc/hardware, PUT /rest/subsystem and the         *)
(* calibration of level sensors.                                           *)
(*                                                                         *)
(* Two tasks run here: the main task, which starts everything (`main` says *)
(* how far it is), and the task of the web server, which answers one       *)
(* request at a time and changes the settings in RAM first and the file    *)
(* after that (`writing`).  A restart may come between any two steps; a    *)
(* write of the file may fail and leave the old file or a spoilt one.      *)
(*                                                                         *)
(* A body of a request, a file and the settings are functions of the keys  *)
(* of the JSON object.  Keys with a value of a wrong type that the code    *)
(* passes over are keys that are not there; `Wrong` stands for a value     *)
(* that it refuses.                                                        *)
(***************************************************************************)
EXTENDS Subsystems, Sequences, Integers

CONSTANTS
    Files,      \* what the file may hold when the history begins
    Saved,      \* what NVS may hold then
    Bodies,     \* bodies of PUT /rest/oc/hardware
    Toggles,    \* names that PUT /rest/subsystem switches
    Messengers, \* messengers among the subsystems
    Limits,     \* bounds: how many requests, restarts and failing writes
    Wrong, None, Bad

VARIABLES cfg, file, backup, nvs, main, writing, manager, inForce, kept, asked, flaws, left

vars == <<cfg, file, backup, nvs, main, writing, manager, inForce, kept, asked, flaws, left>>

(***************************************************************************)
(* Keys and values.                                                        *)
(***************************************************************************)
Switches == {"pressureSensorEnabled", "userRelayPcfEnabled", "rtcEnabled", "oledEnabled",
             "lcd1602Enabled"}
Addressed == {"bmp581I2cAddress", "ds3231I2cAddress", "lcd1602I2cAddress"}
Numbers == {"xkc25TriggerAction", "xkc25SharedTankIndex", "xkc25StartGuardMode"}
Flags == Switches \cup {"xkc25AutoPause", "xkc25AbortRectification"}
Lists == {"relayPcf8574Addresses", "xkc25Sensors"}
Keys == Flags \cup Addressed \cup Numbers \cup Lists

IsAddress(a) == a \in 8 .. 119
MaxRelayChips == 8
MaxSensors == 3

\* Where a line of a sensor comes from: a pin of the chip or a bit of an expander.
Pin(n) == <<"gpio", n>>
Bit(addr, n) == <<"pcf8574", addr, n>>
OnPcf(s) == s.input[1] = "pcf8574"
IsInput(i) ==
    IF i[1] = "gpio" THEN i[2] \in (1 .. 48) \ ({3, 19, 20, 45, 46} \cup 22 .. 37)
    ELSE IsAddress(i[2]) /\ i[3] \in 0 .. 7

NewSensor == [enabled |-> FALSE, input |-> Pin(0), zone |-> 0, shared |-> FALSE,
              activeLow |-> TRUE, calibrated |-> FALSE]

Default ==
    [pressureSensorEnabled |-> TRUE, userRelayPcfEnabled |-> FALSE, rtcEnabled |-> FALSE,
     oledEnabled |-> FALSE, lcd1602Enabled |-> FALSE,
     bmp581I2cAddress |-> 71, ds3231I2cAddress |-> 104, lcd1602I2cAddress |-> 39,
     xkc25AutoPause |-> TRUE, xkc25AbortRectification |-> FALSE, xkc25TriggerAction |-> 0,
     xkc25SharedTankIndex |-> 0, xkc25StartGuardMode |-> 1,
     relayPcf8574Addresses |-> <<36>>, xkc25Sensors |-> << >>, pendingReboot |-> FALSE]

Given(body, k) == k \in DOMAIN body

\* What a body or a file may hold: values of a type that update() takes, or `Wrong`.  A sensor has
\* all its keys, since update() fills in those that are missing.
InputType == ({"gpio"} \X Int) \cup ({"pcf8574"} \X Int \X Int)
SensorType ==
    [enabled : BOOLEAN, input : InputType, zone : Int, shared : BOOLEAN,
     activeLow : BOOLEAN, calibrated : BOOLEAN]
WellTyped(body) ==
    /\ \A k \in Flags \cup {"xkc25BlockStartUntilCalibrated"} :
          Given(body, k) => body[k] \in BOOLEAN \cup {Wrong}
    /\ Given(body, "relayPcf8574Addresses") => body["relayPcf8574Addresses"] \in Seq(Int) \cup {Wrong}
    /\ Given(body, "relayPcf8574I2cAddress") => body["relayPcf8574I2cAddress"] \in Int
    /\ Given(body, "xkc25Sensors") => body["xkc25Sensors"] \in Seq(SensorType) \cup {Wrong}

ASSUME HardwareAssumption == \A body \in Bodies \cup (Files \ {None, Bad}) : WellTyped(body)

SettingsType ==
    [pressureSensorEnabled : BOOLEAN, userRelayPcfEnabled : BOOLEAN, rtcEnabled : BOOLEAN,
     oledEnabled : BOOLEAN, lcd1602Enabled : BOOLEAN,
     bmp581I2cAddress : 8 .. 119, ds3231I2cAddress : 8 .. 119, lcd1602I2cAddress : 8 .. 119,
     xkc25AutoPause : BOOLEAN, xkc25AbortRectification : BOOLEAN, xkc25TriggerAction : 0 .. 2,
     xkc25SharedTankIndex : 0 .. 2, xkc25StartGuardMode : 0 .. 2,
     relayPcf8574Addresses : Seq(Int), xkc25Sensors : Seq(SensorType), pendingReboot : BOOLEAN]

\* The marks are no values of what they stand beside.
ASSUME MarksAssumption ==
    /\ None \notin SettingsType /\ Bad \notin SettingsType
    /\ Wrong \notin BOOLEAN /\ Wrong \notin Int
    /\ Wrong \notin Seq(Int) /\ Wrong \notin Seq(SensorType)

\* An object of NVS, and what the manager keeps: names of subsystems that are on or off.
OnOff(f) == \A n \in DOMAIN f : f[n] \in BOOLEAN
ASSUME SavedAssumption == \A saved \in Saved : OnOff(saved)

\* No messenger has the name of a subsystem that the program switches by itself.
ASSUME MessengersAssumption ==
    Messengers \cap {"settings", "thermal", "i2c_bus", "atm_sensor", "lcd1602_display",
                     "xkc25_sensor"} = {}

(***************************************************************************)
(* OpenConnectHardwareConfig::update.                                      *)
(***************************************************************************)
\* structurallyEqual(): the fields that make an earlier calibration worthless.
Wired(s) == [f \in {"enabled", "input", "zone", "activeLow"} |-> s[f]]

\* validateAddressList() and the guard against an enabled sensor on the same expander.
\* Mutant of RelaysRefused: the guard that this direction once lacked.
RelaysRefusedNoGuard(list, sensors) ==
    ~(Len(list) \in 1 .. MaxRelayChips /\ IsInjective(list) /\ \A i \in DOMAIN list : IsAddress(list[i]))
RelaysRefused(list, sensors) ==
    \/ ~(Len(list) \in 1 .. MaxRelayChips /\ IsInjective(list))
    \/ \E i \in DOMAIN list : ~IsAddress(list[i])
    \/ \E s \in Range(sensors) : s.enabled /\ OnPcf(s) /\ s.input[2] \in Range(list)

\* The list of sensors: each on an input of its own, none on an expander of relays.
SensorsRefused(list, relays) ==
    \/ Len(list) > MaxSensors
    \/ \E i \in DOMAIN list : ~IsInput(list[i].input) \/ list[i].zone \notin 0 .. 2
    \/ \E i, j \in DOMAIN list : i # j /\ list[i].input = list[j].input
    \/ \E s \in Range(list) : OnPcf(s) /\ s.input[2] \in Range(relays)

\* A sensor of the body in slot i: what the calibration found stays that of the slot, unless the
\* slot is wired anew.
Slot(new, i, old) ==
    LET previous == IF i <= Len(old) THEN old[i] ELSE NewSensor
        taken == [new EXCEPT !.activeLow = previous.activeLow, !.calibrated = previous.calibrated]
    IN IF Wired(taken) = Wired(previous) THEN taken
       ELSE [taken EXCEPT !.activeLow = TRUE, !.calibrated = FALSE]

\* The single address of old versions, in a file or a request, counts only where there is no list.
\* Nothing compares it with the sensors there are.
Single(body) ==
    /\ ~Given(body, "relayPcf8574Addresses")
    /\ Given(body, "relayPcf8574I2cAddress") /\ IsAddress(body["relayPcf8574I2cAddress"])
Relays(c, body) ==
    IF Given(body, "relayPcf8574Addresses") THEN body["relayPcf8574Addresses"]
    ELSE IF Single(body) THEN <<body["relayPcf8574I2cAddress"]>> ELSE c["relayPcf8574Addresses"]

Guard(c, body) ==
    IF Given(body, "xkc25StartGuardMode") THEN body["xkc25StartGuardMode"]
    ELSE IF Given(body, "xkc25BlockStartUntilCalibrated")
         THEN IF body["xkc25BlockStartUntilCalibrated"] THEN 2 ELSE 0
         ELSE c["xkc25StartGuardMode"]

Refused(c, body) ==
    \/ \E k \in DOMAIN body : body[k] = Wrong
    \/ \E k \in Addressed : Given(body, k) /\ ~IsAddress(body[k])
    \/ Given(body, "relayPcf8574Addresses")
         /\ RelaysRefused(body["relayPcf8574Addresses"], c["xkc25Sensors"])
    \/ Given(body, "xkc25Sensors") /\ SensorsRefused(body["xkc25Sensors"], Relays(c, body))
    \/ \E k \in Numbers : Given(body, k) /\ body[k] \notin 0 .. 2

\* The settings with the keys of the body, pendingReboot aside.
Merged(c, body) ==
    [k \in DOMAIN c |->
        CASE k = "relayPcf8574Addresses" -> Relays(c, body)
          [] k = "xkc25StartGuardMode" -> Guard(c, body)
          [] k = "xkc25Sensors" /\ Given(body, k) ->
                [i \in DOMAIN body[k] |-> Slot(body[k][i], i, c[k])]
          [] k # "pendingReboot" /\ k \in Keys \ Lists /\ Given(body, k) -> body[k]
          [] OTHER -> c[k]]

\* rebootFieldsDiffer(), with xkc25SensorsDiffer() and xkc25SharedFlagsDiffer().
\* Mutant of RebootFields: the flag of a portable sensor is forgotten.
RebootFieldsUnshared(c) ==
    [k \in Switches \cup Addressed \cup Lists |->
        IF k = "xkc25Sensors" THEN [i \in DOMAIN c[k] |-> <<Wired(c[k][i]), FALSE>>] ELSE c[k]]
RebootFields(c) ==
    [k \in Switches \cup Addressed \cup Lists |->
        IF k = "xkc25Sensors" THEN [i \in DOMAIN c[k] |-> <<Wired(c[k][i]), c[k][i].shared>>] ELSE c[k]]

Updated(c, body) ==
    IF Refused(c, body) THEN c
    ELSE LET m == Merged(c, body)
         IN IF RebootFields(c) # RebootFields(m) THEN [m EXCEPT !["pendingReboot"] = TRUE] ELSE m

AnyEnabled(c) == \E s \in Range(c["xkc25Sensors"]) : s.enabled

\* The subsystems that the settings switch: syncSubsystemNvsAtmSensor() and its like write the
\* entry when the switch changes.
Switched == [atm_sensor |-> "pressureSensorEnabled", lcd1602_display |-> "lcd1602Enabled",
             xkc25_sensor |-> "xkc25Sensors"]
Wanted(c, n) == IF n = "xkc25_sensor" THEN AnyEnabled(c) ELSE c[Switched[n]]
\* Mutant of SyncedNvs: the object is written with the changed entries alone.
SyncedNvsAlone(saved, before, after) ==
    [n \in {n \in DOMAIN Switched : Wanted(before, n) # Wanted(after, n)} |-> Wanted(after, n)]
SyncedNvs(saved, before, after) ==
    [n \in DOMAIN saved \cup {n \in DOMAIN Switched : Wanted(before, n) # Wanted(after, n)} |->
        IF n \in DOMAIN Switched /\ Wanted(before, n) # Wanted(after, n) THEN Wanted(after, n)
        ELSE saved[n]]

(***************************************************************************)
(* The file: fileLooksValid(), and what may become of a write.             *)
(***************************************************************************)
Parsable(f) == f \notin {None, Bad}

LooksValid(f) ==
    /\ Parsable(f)
    /\ Given(f, "bmp581I2cAddress")
    /\ \A k \in Addressed : Given(f, k) => IsAddress(f[k])
    /\ Given(f, "xkc25Sensors") => ~SensorsRefused(f["xkc25Sensors"], << >>)
    /\ IF Given(f, "relayPcf8574Addresses") THEN ~RelaysRefused(f["relayPcf8574Addresses"], << >>)
       ELSE Given(f, "relayPcf8574I2cAddress") /\ IsAddress(f["relayPcf8574I2cAddress"])

\* A write of content: done, or failed with the old file or a spoilt one.
Written(content) ==
    \/ file' = content /\ UNCHANGED <<flaws, left>>
    \/ /\ left.faults > 0
       /\ file' \in {file, Bad}
       /\ flaws' = flaws \cup {"lost write"}
       /\ left' = [left EXCEPT !.faults = @ - 1]

(***************************************************************************)
(* The start, by the main task.                                            *)
(***************************************************************************)
\* OpenConnectHardwareMigration::ensure: a file that does not look right is set aside.
Ensure ==
    /\ main = "ensure"
    /\ IF LooksValid(file) THEN main' = "read" /\ UNCHANGED <<file, backup>>
       ELSE /\ main' = "defaults"
            /\ backup' = IF file = None THEN backup ELSE file
            /\ file' = None
    /\ UNCHANGED <<cfg, nvs, writing, manager, inForce, kept, asked, flaws, left>>

\* The defaults, with the pressure sensor as NVS has it; NVS follows when the write is done.
Defaults ==
    LET on == IF "atm_sensor" \in DOMAIN nvs THEN nvs["atm_sensor"] ELSE TRUE
    IN /\ main = "defaults"
       /\ main' = "read"
       /\ \/ /\ file' = [Default EXCEPT !["pressureSensorEnabled"] = on]
             /\ nvs' = Synced(nvs, "atm_sensor", on)
             /\ UNCHANGED <<flaws, left>>
          \/ /\ left.faults > 0
             /\ flaws' = flaws \cup {"lost write"}
             /\ left' = [left EXCEPT !.faults = @ - 1]
             /\ UNCHANGED <<file, nvs>>
       /\ UNCHANGED <<cfg, backup, writing, manager, inForce, kept, asked>>

\* readFromFS(): a file that update() refuses leaves the settings as they are.
Read ==
    /\ main = "read"
    /\ cfg' = IF Parsable(file) THEN Updated(cfg, file) ELSE cfg
    /\ nvs' = SyncedNvs(nvs, cfg, cfg')
    /\ IF Parsable(file) THEN UNCHANGED <<file, flaws, left>> ELSE Written(cfg')
    /\ main' = "clear"
    /\ UNCHANGED <<backup, writing, manager, inForce, kept, asked>>

\* begin() takes back pendingReboot, which loading has set, and the file is written again.
Clear ==
    /\ main = "clear"
    /\ main' = "relays"
    /\ cfg' = [cfg EXCEPT !["pendingReboot"] = FALSE]
    /\ IF cfg["pendingReboot"] THEN Written(cfg') ELSE UNCHANGED <<file, flaws, left>>
    /\ UNCHANGED <<backup, nvs, writing, manager, inForce, kept, asked>>

\* What a part of the program takes from the settings when it is set up.
TakenBy(part, c) ==
    CASE part = "relays" -> c["relayPcf8574Addresses"]
      [] part = "list" -> [n \in DOMAIN Switched |-> Wanted(c, n)]
      [] part = "rtc" -> <<c["rtcEnabled"], c["ds3231I2cAddress"]>>
      [] part = "atm_sensor" -> c["bmp581I2cAddress"]
      [] part = "lcd1602_display" -> c["lcd1602I2cAddress"]
      [] part = "xkc25_sensor" ->
            [i \in DOMAIN c["xkc25Sensors"] |->
                [f \in {"enabled", "input", "zone", "shared"} |-> c["xkc25Sensors"][i][f]]]

SetUp(parts) ==
    inForce' = [p \in parts \cup DOMAIN inForce |->
                   IF p \in parts THEN TakenBy(p, cfg) ELSE inForce[p]]

\* RelayPortCoordinator::configure(); soon after it the web server answers.
Serving == main \notin {"ensure", "defaults", "read", "clear", "relays"}
ConfigureRelays ==
    /\ main = "relays"
    /\ main' = "register"
    /\ SetUp({"relays"})
    /\ UNCHANGED <<cfg, file, backup, nvs, writing, manager, kept, asked, flaws, left>>

Base == {"settings", "thermal", "i2c_bus"}
Hardware == DOMAIN Switched

\* subsystemManager(): the subsystems of the settings are listed and asked for.
Register ==
    LET wanted == Base \cup {n \in Hardware : Wanted(cfg, n)}
    IN /\ main = "register"
       /\ main' = "begin"
       /\ \E garbage \in BOOLEAN :
             manager' = Asked(Registered(manager, wanted \cup Messengers, garbage),
                              [n \in wanted |-> TRUE])
       /\ SetUp({"list"})
       /\ UNCHANGED <<cfg, file, backup, nvs, writing, kept, asked, flaws, left>>

\* SubsystemManager::begin: targets and instances first, then one after the other is enabled.
Begin ==
    /\ main = "begin"
    /\ main' = "atm_sensor"
    /\ manager' = Initialized(manager, nvs)
    /\ UNCHANGED <<cfg, file, backup, nvs, writing, inForce, kept, asked, flaws, left>>

\* enable() of a hardware subsystem takes its part of the settings; or it fails, for want of the
\* device or of the bus, and takes itself off the subsystems that are on.
Enables(n) ==
    /\ IF n \in DOMAIN inForce THEN UNCHANGED inForce ELSE SetUp({n} \cap Hardware)
    /\ manager' = Marked(manager, n, TRUE)
Fails(n) ==
    /\ n \in Hardware \ DOMAIN inForce
    /\ manager' = Marked(manager, n, FALSE)
    /\ UNCHANGED inForce

Following == [atm_sensor |-> "lcd1602_display", lcd1602_display |-> "xkc25_sensor",
              xkc25_sensor |-> "collect"]
EnableNext ==
    /\ main \in Hardware
    /\ main' = Following[main]
    /\ IF main \in Names(manager) /\ manager.enabled[main]
       THEN \/ Enables(main) /\ UNCHANGED nvs
            \/ Fails(main) /\ nvs' = Collected(manager')
       ELSE UNCHANGED <<manager, inForce, nvs>>
    /\ UNCHANGED <<cfg, file, backup, writing, kept, asked, flaws, left>>

\* The final saveConfig() of begin(): the flags are collected, then written.
Collect ==
    /\ main = "collect"
    /\ main' = "save"
    /\ manager' = [manager EXCEPT !.collected = Collected(manager)]
    /\ UNCHANGED <<cfg, file, backup, nvs, writing, inForce, kept, asked, flaws, left>>

SaveConfig ==
    /\ main = "save"
    /\ nvs' = manager.collected
    /\ main' = "up"
    /\ SetUp({"rtc"})
    /\ UNCHANGED <<cfg, file, backup, writing, manager, kept, asked, flaws, left>>

(***************************************************************************)
(* The requests, by the task of the web server.                            *)
(***************************************************************************)
Spent(f) == left[f] > 0 /\ left' = [left EXCEPT ![f] = @ - 1]

\* A change of the settings: RAM and NVS first, then the file.
\* Mutant of Changes: the file follows only changes that need a restart.
ChangesUnsaved(to) ==
    /\ cfg' = to
    /\ nvs' = SyncedNvs(nvs, cfg, to)
    /\ writing' = (RebootFields(cfg) # RebootFields(to))
Changes(to) ==
    /\ cfg' = to
    /\ nvs' = SyncedNvs(nvs, cfg, to)
    /\ writing' = TRUE

\* PUT /rest/oc/hardware.  What is refused or changes nothing leaves everything as it is; a single
\* address always counts as a change.  The history notes relays that were not compared with the
\* sensors, until a list of them is.
PutHardwareConfig(body) ==
    /\ Serving /\ ~writing /\ Spent("puts")
    /\ ~Refused(cfg, body)
    /\ Updated(cfg, body) # cfg \/ Single(body)
    /\ Changes(Updated(cfg, body))
    /\ flaws' = IF Single(body) THEN flaws \cup {"relays unchecked"}
                ELSE IF Given(body, "relayPcf8574Addresses") THEN flaws \ {"relays unchecked"}
                ELSE flaws
    /\ UNCHANGED <<file, backup, main, manager, inForce, kept, asked>>

\* persistSensor(), by the last step of a calibration: whatever line the live sensor reads, its
\* finding goes to the slot of that number in the settings.
Calibrate(i, low) ==
    /\ Serving /\ ~writing /\ Spent("calibrations")
    /\ "xkc25_sensor" \in DOMAIN inForce
    /\ i \in DOMAIN inForce["xkc25_sensor"] /\ inForce["xkc25_sensor"][i].enabled
    /\ i \in DOMAIN cfg["xkc25Sensors"]
    /\ Changes([cfg EXCEPT !["xkc25Sensors"][i].activeLow = low,
                           !["xkc25Sensors"][i].calibrated = TRUE])
    /\ UNCHANGED <<file, backup, main, manager, inForce, kept, asked, flaws>>

\* writeToFS() of the update handler; then the request is answered.
WriteFile ==
    /\ writing
    /\ writing' = FALSE
    /\ Written(cfg)
    /\ kept' = IF file' = cfg THEN cfg ELSE kept
    /\ UNCHANGED <<cfg, backup, nvs, main, manager, inForce, asked>>

\* PUT /rest/subsystem {n: on}, answered with success.  Its saveConfig() may come between the
\* two steps of begin()'s, and before begin() nothing is saved at all.
Toggle(n, on) ==
    /\ Serving /\ ~writing /\ Spent("toggles")
    /\ Accepted(manager, n, on)
    /\ manager.made \/ ~Calls(manager, n, on)
    /\ IF ~Calls(manager, n, on) THEN UNCHANGED <<manager, inForce, nvs>>
       ELSE /\ IF on THEN Enables(n) \/ Fails(n)
               ELSE /\ manager' = Marked(manager, n, FALSE)
                    /\ inForce' = Restrict(inForce, DOMAIN inForce \ {n})
            /\ nvs' = Collected(manager')
    /\ asked' = IF n \in Messengers THEN [asked EXCEPT ![n] = on] ELSE asked
    /\ flaws' = IF main = "save" \/ ~manager.made THEN flaws \cup {"toggle overtaken"} ELSE flaws
    /\ UNCHANGED <<cfg, file, backup, main, writing, kept>>

\* A restart: by the user, by a loss of power, or by a toggle that meets no instance yet.
Restart ==
    /\ Spent("restarts")
    /\ cfg' = Default /\ main' = "ensure" /\ writing' = FALSE
    /\ manager' = NewManager /\ inForce' = << >>
    /\ flaws' = flaws \ {"relays unchecked"}
    /\ UNCHANGED <<file, backup, nvs, kept, asked>>

Init ==
    /\ cfg = Default /\ main = "ensure" /\ writing = FALSE
    /\ manager = NewManager /\ inForce = << >>
    /\ file \in Files /\ nvs \in Saved /\ backup = None
    /\ kept = None /\ flaws = {} /\ left \in Limits
    /\ asked = [n \in Messengers |-> None]

Start == Ensure \/ Defaults \/ Read \/ Clear \/ ConfigureRelays \/ Register \/ Begin \/ EnableNext
           \/ Collect \/ SaveConfig
Next ==
    \/ Start
    \/ \E body \in Bodies : PutHardwareConfig(body)
    \/ \E i \in 1 .. MaxSensors, low \in BOOLEAN : Calibrate(i, low)
    \/ WriteFile
    \/ \E n \in Toggles, on \in BOOLEAN : Toggle(n, on)
    \/ Restart

Spec == Init /\ [][Next]_vars

(***************************************************************************)
(* Properties.                                                             *)
(***************************************************************************)
\* No enabled sensor sits on an expander of relays: two owners would write one chip.
Apart(list, relays) ==
    \A s \in Range(list) : s.enabled /\ OnPcf(s) => s.input[2] \notin Range(relays)

\* Types, and what every part of the program may rely on when it reads the settings: addresses
\* are addresses, there is a chip for the relays, no two sensors share an input.  No enabled
\* sensor sits on an expander of relays, in whatever order requests, files and restarts bring the
\* two, unless the relays came by a request with the single address, which update() takes without
\* a look at the sensors, and no list has come since.
TypeOK ==
    /\ cfg \in SettingsType
    /\ ~RelaysRefused(cfg["relayPcf8574Addresses"], << >>)
    /\ "relays unchecked" \notin flaws => Apart(cfg["xkc25Sensors"], cfg["relayPcf8574Addresses"])
    /\ ~SensorsRefused(cfg["xkc25Sensors"], << >>)
    /\ DOMAIN manager = DOMAIN NewManager
    /\ OnOff(nvs) /\ OnOff(manager.enabled) /\ OnOff(manager.initial) /\ OnOff(manager.collected)
    /\ DOMAIN manager.enabled \subseteq Base \cup Hardware \cup Messengers
    /\ DOMAIN inForce \subseteq Hardware \cup {"relays", "list", "rtc"}

\* A part that was set up from other settings than those in RAM is a part the user has been told
\* to restart the device for: needsReboot of GET and PUT /rest/oc/hardware.
RebootOwed ==
    \A part \in DOMAIN inForce : inForce[part] # TakenBy(part, cfg) => cfg["pendingReboot"]

\* The settings, what a calibration found and pendingReboot aside.
Settings(c) ==
    [k \in Keys |->
        IF k = "xkc25Sensors"
        THEN [i \in DOMAIN c[k] |-> [f \in {"enabled", "input", "zone", "shared"} |-> c[k][i][f]]]
        ELSE c[k]]

\* A sensor on an expander of relays, a switched-off one or one that a single address has met: a
\* request may bring it about, loading refuses it with the whole file.
Shadowed(c) ==
    \E s \in Range(c["xkc25Sensors"]) : OnPcf(s) /\ s.input[2] \in Range(c["relayPcf8574Addresses"])

\* What a request has saved is what the device works with until the next one, over every restart;
\* only a write that failed, or a sensor in the shadow of the relays, loses it.
SettingsKept ==
    Serving /\ ~writing /\ kept # None /\ flaws \cap {"lost write"} = {} /\ ~Shadowed(kept)
        => Settings(cfg) = Settings(kept)

\* A messenger starts as the user has left it: the entry in NVS is the answer of the last toggle,
\* though the hardware settings, the migration and the start write the same object.
TogglesKept ==
    \A n \in Messengers :
        asked[n] # None /\ "toggle overtaken" \notin flaws
            => Target(NewManager, nvs, n) = asked[n]

\* "Calibration is done and saved" (OpenConnectHardwareConfig.h): it is there after a restart.
CalibrationKept ==
    Serving /\ ~writing /\ kept # None /\ flaws = {}
        => \A i \in DOMAIN kept["xkc25Sensors"] \cap DOMAIN cfg["xkc25Sensors"] :
              kept["xkc25Sensors"][i].calibrated => cfg["xkc25Sensors"][i].calibrated
===========================================================================
