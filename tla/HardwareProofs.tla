--------------------------- MODULE HardwareProofs ---------------------------
(***************************************************************************)
(* Proofs about the hardware settings, for any files, requests, toggles,   *)
(* restarts and failing writes:                                            *)
(*  - RestartIsTold: whoever works with other settings than those in RAM   *)
(*    owes the user a restart, and the settings say so (HardwareInv);      *)
(*  - HardwareTypeCorrect: types, and what every part may rely on          *)
(*    (SettingsInv: also of the file, which is loaded again);              *)
(*  - TogglesAreKept: a messenger starts as the user has left it           *)
(*    (ToggleInv: the flags in RAM and the object in NVS agree);           *)
(*  - SettingsAreKept: what was saved is loaded again (KeptInv: the file   *)
(*    holds right settings, which the check before the load lets through   *)
(*    and update() does not refuse).                                       *)
(***************************************************************************)
EXTENDS Hardware, SequenceTheorems, TLAPS

AllKeys == Keys \cup {"pendingReboot"}
Parts == Hardware \cup {"relays", "list", "rtc"}

\* Every sensor of the settings has all its keys: those that a calibration sets among them.
SensorsWhole(c) ==
  Given(c, "xkc25Sensors") /\ c["xkc25Sensors"] # Wrong
    => \A i \in DOMAIN c["xkc25Sensors"] : DOMAIN c["xkc25Sensors"][i] = DOMAIN NewSensor
Whole(c) == \A i \in DOMAIN c["xkc25Sensors"] : DOMAIN c["xkc25Sensors"][i] = DOMAIN NewSensor

\* What the start has not reached yet is not set up.
NothingSetUp == main \in {"ensure", "defaults", "read", "clear"} => DOMAIN inForce = {}

HardwareInv ==
  /\ DOMAIN cfg = AllKeys /\ Whole(cfg)
  /\ Parsable(file) => SensorsWhole(file)
  /\ NothingSetUp
  /\ DOMAIN inForce \subseteq Parts
  /\ RebootOwed

-----------------------------------------------------------------------------
(* The fields that decide about a restart are those that the parts take.   *)

LEMMA PartNames == Hardware = {"atm_sensor", "lcd1602_display", "xkc25_sensor"}
  BY DEF Hardware, Switched

LEMMA RebootFieldsTell ==
  ASSUME NEW c, NEW d, RebootFields(c) = RebootFields(d)
  PROVE  /\ \A k \in Switches \cup Addressed \cup {"relayPcf8574Addresses"} : c[k] = d[k]
         /\ DOMAIN c["xkc25Sensors"] = DOMAIN d["xkc25Sensors"]
         /\ \A i \in DOMAIN c["xkc25Sensors"], f \in {"enabled", "input", "zone", "shared"} :
               c["xkc25Sensors"][i][f] = d["xkc25Sensors"][i][f]
<1> DEFINE fields == Switches \cup Addressed \cup Lists
           told(e) == [i \in DOMAIN e["xkc25Sensors"] |->
                          <<Wired(e["xkc25Sensors"][i]), e["xkc25Sensors"][i].shared>>]
<1>1. \A k \in fields : RebootFields(c)[k] = (IF k = "xkc25Sensors" THEN told(c) ELSE c[k])
  BY DEF RebootFields
<1>2. \A k \in fields : RebootFields(d)[k] = (IF k = "xkc25Sensors" THEN told(d) ELSE d[k])
  BY DEF RebootFields
<1>3. /\ Switches \cup Addressed \cup {"relayPcf8574Addresses"} \subseteq fields \ {"xkc25Sensors"}
      /\ "xkc25Sensors" \in fields
  BY DEF Switches, Addressed, Lists
<1>4. told(c) = told(d)
  BY <1>1, <1>2, <1>3
<1>5. DOMAIN told(c) = DOMAIN c["xkc25Sensors"] /\ DOMAIN told(d) = DOMAIN d["xkc25Sensors"]
  OBVIOUS
<1>6. ASSUME NEW i \in DOMAIN c["xkc25Sensors"]
      PROVE  \A f \in {"enabled", "input", "zone", "shared"} :
                c["xkc25Sensors"][i][f] = d["xkc25Sensors"][i][f]
  <2>1. /\ Wired(c["xkc25Sensors"][i]) = Wired(d["xkc25Sensors"][i])
        /\ c["xkc25Sensors"][i].shared = d["xkc25Sensors"][i].shared
    BY <1>4, <1>5
  <2> QED
    BY <2>1 DEF Wired
<1>7. \A k \in Switches \cup Addressed \cup {"relayPcf8574Addresses"} : c[k] = d[k]
  BY <1>1, <1>2, <1>3
<1> QED
  BY <1>4, <1>5, <1>6, <1>7

\* Settings that agree where the parts look give the parts the same.
LEMMA TakenSame ==
  ASSUME NEW c, NEW d, NEW part \in Parts,
         \A k \in Switches \cup Addressed \cup {"relayPcf8574Addresses"} : c[k] = d[k],
         DOMAIN c["xkc25Sensors"] = DOMAIN d["xkc25Sensors"],
         \A i \in DOMAIN c["xkc25Sensors"], f \in {"enabled", "input", "zone", "shared"} :
            c["xkc25Sensors"][i][f] = d["xkc25Sensors"][i][f]
  PROVE  TakenBy(part, c) = TakenBy(part, d)
<1>1. /\ c["relayPcf8574Addresses"] = d["relayPcf8574Addresses"]
      /\ \A k \in {"rtcEnabled", "ds3231I2cAddress", "bmp581I2cAddress", "lcd1602I2cAddress",
                   "pressureSensorEnabled", "lcd1602Enabled"} : c[k] = d[k]
  BY DEF Switches, Addressed
<1>2. AnyEnabled(c) = AnyEnabled(d)
  BY DEF AnyEnabled, Range
<1>3. \A n \in DOMAIN Switched : Wanted(c, n) = Wanted(d, n)
  BY <1>1, <1>2 DEF Wanted, Switched
<1>4. TakenBy("relays", c) = TakenBy("relays", d)
  BY <1>1 DEF TakenBy
<1>5. TakenBy("list", c) = TakenBy("list", d)
  BY <1>3 DEF TakenBy
<1>6. TakenBy("rtc", c) = TakenBy("rtc", d)
  BY <1>1 DEF TakenBy
<1>7. TakenBy("atm_sensor", c) = TakenBy("atm_sensor", d)
  BY <1>1 DEF TakenBy
<1>8. TakenBy("lcd1602_display", c) = TakenBy("lcd1602_display", d)
  BY <1>1 DEF TakenBy
<1>9. TakenBy("xkc25_sensor", c) = TakenBy("xkc25_sensor", d)
  BY DEF TakenBy
<1> QED
  BY <1>4, <1>5, <1>6, <1>7, <1>8, <1>9, PartNames DEF Parts

-----------------------------------------------------------------------------
(* OpenConnectHardwareConfig::update.                                      *)

LEMMA TypedWhole ==
  ASSUME NEW body, WellTyped(body)
  PROVE  SensorsWhole(body)
<1>1. \A s \in SensorType : DOMAIN s = DOMAIN NewSensor
  BY DEF SensorType, NewSensor
<1>2. \A list \in Seq(SensorType) : \A i \in DOMAIN list : list[i] \in SensorType
  OBVIOUS
<1> QED
  BY <1>1, <1>2 DEF WellTyped, SensorsWhole

LEMMA MergedKeeps ==
  ASSUME NEW c, DOMAIN c = AllKeys, Whole(c), NEW body, SensorsWhole(body), ~Refused(c, body)
  PROVE  /\ DOMAIN Merged(c, body) = AllKeys
         /\ Whole(Merged(c, body))
         /\ Merged(c, body)["pendingReboot"] = c["pendingReboot"]
<1>1. DOMAIN Merged(c, body) = AllKeys
  BY DEF Merged
<1>2. "pendingReboot" \in AllKeys /\ "xkc25Sensors" \in AllKeys /\ "xkc25Sensors" \in Lists
  BY DEF AllKeys, Keys, Lists
<1>3. Merged(c, body)["pendingReboot"] = c["pendingReboot"]
  BY <1>2 DEF Merged
<1>4. CASE Given(body, "xkc25Sensors")
  <2> DEFINE given == body["xkc25Sensors"]
  <2>1. given # Wrong
    BY <1>4 DEF Refused, Given
  <2>2. \A i \in DOMAIN given : DOMAIN given[i] = DOMAIN NewSensor
    BY <1>4, <2>1 DEF SensorsWhole
  <2>3. Merged(c, body)["xkc25Sensors"] =
           [i \in DOMAIN given |-> Slot(given[i], i, c["xkc25Sensors"])]
    BY <1>2, <1>4 DEF Merged
  <2>4. \A new, i, old : DOMAIN Slot(new, i, old) = DOMAIN new
    BY DEF Slot
  <2> QED
    BY <1>1, <1>3, <2>2, <2>3, <2>4 DEF Whole
<1>5. CASE ~Given(body, "xkc25Sensors")
  <2>1. Merged(c, body)["xkc25Sensors"] = c["xkc25Sensors"]
    BY <1>2, <1>5 DEF Merged
  <2> QED
    BY <1>1, <1>3, <2>1 DEF Whole
<1> QED
  BY <1>4, <1>5

\* A change of a field that a part takes sets pendingReboot; any other change leaves it alone.
LEMMA UpdatedTells ==
  ASSUME NEW c, DOMAIN c = AllKeys, Whole(c), NEW body, SensorsWhole(body)
  PROVE  /\ DOMAIN Updated(c, body) = AllKeys
         /\ Whole(Updated(c, body))
         /\ \/ Updated(c, body)["pendingReboot"] = TRUE
            \/ /\ Updated(c, body)["pendingReboot"] = c["pendingReboot"]
               /\ RebootFields(Updated(c, body)) = RebootFields(c)
<1>1. CASE Refused(c, body)
  BY <1>1 DEF Updated
<1>2. CASE ~Refused(c, body)
  <2> DEFINE m == Merged(c, body)
             r == [m EXCEPT !["pendingReboot"] = TRUE]
  <2>1. DOMAIN m = AllKeys /\ Whole(m) /\ m["pendingReboot"] = c["pendingReboot"]
    BY <1>2, MergedKeeps
  <2>2. Updated(c, body) = IF RebootFields(c) # RebootFields(m) THEN r ELSE m
    BY <1>2, Zenon DEF Updated
  <2> HIDE DEF m
  <2>3. "pendingReboot" \in AllKeys /\ "xkc25Sensors" \in AllKeys
    BY DEF AllKeys, Keys, Lists
  <2>4. DOMAIN r = AllKeys /\ r["pendingReboot"] = TRUE /\ r["xkc25Sensors"] = m["xkc25Sensors"]
    BY <2>1, <2>3
  <2>5. Whole(r)
    BY <2>1, <2>4 DEF Whole
  <2> HIDE DEF r
  <2> QED
    BY <2>1, <2>2, <2>4, <2>5
<1> QED
  BY <1>1, <1>2

-----------------------------------------------------------------------------
(* The steps.                                                              *)

\* A part that is set up takes the settings as they are, and then owes nothing.
LEMMA SetUpKeeps ==
  ASSUME DOMAIN inForce \subseteq Parts, RebootOwed, NEW parts \in SUBSET Parts,
         SetUp(parts), UNCHANGED cfg
  PROVE  DOMAIN inForce' \subseteq Parts /\ RebootOwed'
<1>1. inForce' = [p \in parts \cup DOMAIN inForce |->
                    IF p \in parts THEN TakenBy(p, cfg) ELSE inForce[p]]
  BY DEF SetUp
<1>2. \A p \in DOMAIN inForce' : inForce'[p] \in {TakenBy(p, cfg')} \/ (p \in DOMAIN inForce /\ inForce'[p] = inForce[p])
  BY <1>1
<1> QED
  BY <1>1, <1>2 DEF RebootOwed

\* Settings in which every change of a part is told leave the debt right.
LEMMA ChangeKeeps ==
  ASSUME RebootOwed, UNCHANGED inForce, DOMAIN inForce \subseteq Parts,
         \/ cfg'["pendingReboot"] = TRUE
         \/ /\ cfg'["pendingReboot"] = cfg["pendingReboot"]
            /\ \A part \in Parts : TakenBy(part, cfg') = TakenBy(part, cfg)
  PROVE  RebootOwed'
<1>1. CASE cfg'["pendingReboot"] = TRUE
  BY <1>1 DEF RebootOwed
<1>2. CASE /\ cfg'["pendingReboot"] = cfg["pendingReboot"]
           /\ \A part \in Parts : TakenBy(part, cfg') = TakenBy(part, cfg)
  BY <1>2 DEF RebootOwed
<1> QED
  BY <1>1, <1>2

LEMMA UpdateKeeps ==
  ASSUME HardwareInv, NEW body, SensorsWhole(body), cfg' = Updated(cfg, body), UNCHANGED inForce
  PROVE  DOMAIN cfg' = AllKeys /\ Whole(cfg') /\ RebootOwed'
<1>1. /\ DOMAIN cfg' = AllKeys /\ Whole(cfg')
      /\ \/ cfg'["pendingReboot"] = TRUE
         \/ cfg'["pendingReboot"] = cfg["pendingReboot"] /\ RebootFields(cfg') = RebootFields(cfg)
  BY UpdatedTells DEF HardwareInv
<1>2. RebootFields(cfg') = RebootFields(cfg)
        => \A part \in Parts : TakenBy(part, cfg') = TakenBy(part, cfg)
  <2> SUFFICES ASSUME RebootFields(cfg') = RebootFields(cfg), NEW part \in Parts
               PROVE  TakenBy(part, cfg') = TakenBy(part, cfg)
    OBVIOUS
  <2> DEFINE c == cfg'
             d == cfg
  <2>1. RebootFields(c) = RebootFields(d)
    OBVIOUS
  <2> HIDE DEF c, d
  <2>2. TakenBy(part, c) = TakenBy(part, d)
    BY <2>1, RebootFieldsTell, TakenSame
  <2> QED
    BY <2>2 DEF c, d
<1> QED
  BY <1>1, <1>2, ChangeKeeps DEF HardwareInv

LEMMA WrittenWhole ==
  ASSUME DOMAIN cfg' = AllKeys, Whole(cfg'), Parsable(file) => SensorsWhole(file), Written(cfg')
  PROVE  Parsable(file') => SensorsWhole(file')
<1>1. file' \in {cfg', file, Bad}
  BY DEF Written
<1>2. SensorsWhole(cfg')
  BY DEF SensorsWhole, Whole
<1> QED
  BY <1>1, <1>2 DEF Parsable

LEMMA DefaultWhole == DOMAIN Default = AllKeys /\ Default["xkc25Sensors"] = << >> /\ Whole(Default)
<1>1. DOMAIN Default = AllKeys
  BY DEF Default, AllKeys, Keys, Switches, Addressed, Flags, Numbers, Lists
<1>2. Default["xkc25Sensors"] = << >>
  BY DEF Default
<1> QED
  BY <1>1, <1>2 DEF Whole

LEMMA InitHolds == Init => HardwareInv
<1> SUFFICES ASSUME Init
             PROVE  HardwareInv
  OBVIOUS
<1>1. DOMAIN cfg = AllKeys /\ Whole(cfg)
  BY DefaultWhole DEF Init
<1>2. Parsable(file) => SensorsWhole(file)
  BY HardwareAssumption, TypedWhole DEF Init, Parsable
<1>3. DOMAIN inForce = {}
  BY DEF Init
<1> QED
  BY <1>1, <1>2, <1>3 DEF HardwareInv, NothingSetUp, RebootOwed

LEMMA StartStep ==
  ASSUME HardwareInv, Start
  PROVE  HardwareInv'
<1>1. CASE Ensure
  BY <1>1 DEF Ensure, HardwareInv, NothingSetUp, RebootOwed, Parsable
<1>2. CASE Defaults
  <2>1. /\ main = "defaults" /\ main' = "read" /\ UNCHANGED <<cfg, inForce>>
        /\ file' = file \/ \E on : file' = [Default EXCEPT !["pressureSensorEnabled"] = on]
    BY <1>2 DEF Defaults
  <2>2. ASSUME NEW on
        PROVE  SensorsWhole([Default EXCEPT !["pressureSensorEnabled"] = on])
    BY DefaultWhole DEF SensorsWhole, Given
  <2>3. Parsable(file') => SensorsWhole(file')
    BY <2>1, <2>2 DEF HardwareInv
  <2> QED
    BY <2>1, <2>3 DEF HardwareInv, NothingSetUp, RebootOwed
<1>3. CASE Read
  <2>1. /\ main = "read" /\ main' = "clear" /\ UNCHANGED inForce
        /\ cfg' = IF Parsable(file) THEN Updated(cfg, file) ELSE cfg
        /\ IF Parsable(file) THEN UNCHANGED <<file, flaws, left>> ELSE Written(cfg')
    BY <1>3 DEF Read
  <2>2. DOMAIN cfg' = AllKeys /\ Whole(cfg') /\ RebootOwed'
    <3>1. CASE Parsable(file)
      BY <2>1, <3>1, UpdateKeeps DEF HardwareInv
    <3>2. CASE ~Parsable(file)
      BY <2>1, <3>2 DEF HardwareInv, Whole, RebootOwed
    <3> QED
      BY <3>1, <3>2
  <2>3. Parsable(file') => SensorsWhole(file')
    BY <2>1, <2>2, WrittenWhole DEF HardwareInv
  <2> QED
    BY <2>1, <2>2, <2>3 DEF HardwareInv, NothingSetUp
<1>4. CASE Clear
  <2>1. /\ main = "clear" /\ main' = "relays" /\ UNCHANGED inForce
        /\ cfg' = [cfg EXCEPT !["pendingReboot"] = FALSE]
        /\ IF cfg["pendingReboot"] THEN Written(cfg') ELSE UNCHANGED <<file, flaws, left>>
    BY <1>4 DEF Clear
  <2>2. DOMAIN cfg' = AllKeys /\ cfg'["xkc25Sensors"] = cfg["xkc25Sensors"]
    BY <2>1 DEF HardwareInv, AllKeys, Keys, Lists
  <2>3. Whole(cfg')
    BY <2>2 DEF HardwareInv, Whole
  <2>4. Parsable(file') => SensorsWhole(file')
    BY <2>1, <2>2, <2>3, WrittenWhole DEF HardwareInv
  <2>5. DOMAIN inForce' = {}
    BY <2>1 DEF HardwareInv, NothingSetUp
  <2> QED
    BY <2>1, <2>2, <2>3, <2>4, <2>5 DEF HardwareInv, NothingSetUp, RebootOwed
<1>5. CASE ConfigureRelays
  BY <1>5, SetUpKeeps DEF ConfigureRelays, HardwareInv, NothingSetUp, Parts
<1>6. CASE Register
  BY <1>6, SetUpKeeps DEF Register, HardwareInv, NothingSetUp, Parts
<1>7. CASE Begin \/ Collect
  BY <1>7 DEF Begin, Collect, HardwareInv, NothingSetUp, RebootOwed
<1>8. CASE SaveConfig
  BY <1>8, SetUpKeeps DEF SaveConfig, HardwareInv, NothingSetUp, Parts
<1>9. CASE EnableNext
  <2>1. /\ main \in Hardware /\ main' = Following[main] /\ UNCHANGED <<cfg, file>>
        /\ UNCHANGED inForce \/ SetUp({main} \cap Hardware)
    BY <1>9 DEF EnableNext, Enables, Fails
  <2>2. main' \notin {"ensure", "defaults", "read", "clear"}
    BY <2>1, PartNames DEF Following
  <2>3. DOMAIN inForce' \subseteq Parts /\ RebootOwed'
    <3>1. {main} \cap Hardware \in SUBSET Parts
      BY DEF Parts
    <3> QED
      BY <2>1, <3>1, SetUpKeeps DEF HardwareInv, RebootOwed
  <2> QED
    BY <2>1, <2>2, <2>3 DEF HardwareInv, NothingSetUp
<1> QED
  BY <1>1, <1>2, <1>3, <1>4, <1>5, <1>6, <1>7, <1>8, <1>9 DEF Start

LEMMA CalibrateStep ==
  ASSUME HardwareInv, NEW i \in 1 .. MaxSensors, NEW low \in BOOLEAN, Calibrate(i, low)
  PROVE  HardwareInv'
<1> DEFINE list == cfg["xkc25Sensors"]
           found == [[list[i] EXCEPT !.activeLow = low] EXCEPT !.calibrated = TRUE]
<1>1. /\ i \in DOMAIN list /\ main \notin {"ensure", "defaults", "read", "clear"}
      /\ cfg' = [cfg EXCEPT !["xkc25Sensors"][i].activeLow = low,
                            !["xkc25Sensors"][i].calibrated = TRUE]
      /\ UNCHANGED <<file, main, inForce>>
  BY DEF Calibrate, Changes, Serving
<1>2. /\ DOMAIN cfg = AllKeys /\ "xkc25Sensors" \in AllKeys
      /\ \A j \in DOMAIN list : DOMAIN list[j] = DOMAIN NewSensor
  BY DEF HardwareInv, AllKeys, Keys, Lists, Whole
<1>3. /\ DOMAIN cfg' = AllKeys
      /\ \A k \in AllKeys \ {"xkc25Sensors"} : cfg'[k] = cfg[k]
      /\ cfg'["xkc25Sensors"] = [list EXCEPT ![i] = found]
  BY <1>1, <1>2
<1>4. /\ DOMAIN found = DOMAIN NewSensor
      /\ \A f \in {"enabled", "input", "zone", "shared"} : found[f] = list[i][f]
  BY <1>1, <1>2 DEF NewSensor
<1> HIDE DEF found
<1>5. /\ DOMAIN cfg'["xkc25Sensors"] = DOMAIN list
      /\ \A j \in DOMAIN list : DOMAIN cfg'["xkc25Sensors"][j] = DOMAIN NewSensor
      /\ \A j \in DOMAIN list, f \in {"enabled", "input", "zone", "shared"} :
            cfg'["xkc25Sensors"][j][f] = list[j][f]
  BY <1>1, <1>2, <1>3, <1>4
<1>6. Whole(cfg')
  BY <1>5 DEF Whole
<1>7. \A k \in Switches \cup Addressed \cup {"relayPcf8574Addresses", "pendingReboot"} :
         cfg'[k] = cfg[k]
  BY <1>3 DEF AllKeys, Keys, Flags, Switches, Addressed, Lists
<1>8. ASSUME NEW part \in Parts
      PROVE  TakenBy(part, cfg') = TakenBy(part, cfg)
  <2> DEFINE c == cfg'
             d == cfg
  <2>1. /\ \A k \in Switches \cup Addressed \cup {"relayPcf8574Addresses"} : c[k] = d[k]
        /\ DOMAIN c["xkc25Sensors"] = DOMAIN d["xkc25Sensors"]
        /\ \A j \in DOMAIN c["xkc25Sensors"], f \in {"enabled", "input", "zone", "shared"} :
              c["xkc25Sensors"][j][f] = d["xkc25Sensors"][j][f]
    BY <1>5, <1>7
  <2> HIDE DEF c, d
  <2>2. TakenBy(part, c) = TakenBy(part, d)
    BY <2>1, TakenSame
  <2> QED
    BY <2>2 DEF c, d
<1>9. RebootOwed'
  BY <1>1, <1>7, <1>8, ChangeKeeps DEF HardwareInv
<1> QED
  BY <1>1, <1>3, <1>6, <1>9 DEF HardwareInv, NothingSetUp

LEMMA RequestStep ==
  ASSUME HardwareInv,
         \/ \E body \in Bodies : PutHardwareConfig(body)
         \/ WriteFile
         \/ \E n \in Toggles, on \in BOOLEAN : Toggle(n, on)
         \/ Restart
  PROVE  HardwareInv'
<1>1. CASE \E body \in Bodies : PutHardwareConfig(body)
  <2>1. PICK body \in Bodies : PutHardwareConfig(body)
    BY <1>1
  <2>2. /\ cfg' = Updated(cfg, body) /\ UNCHANGED <<file, main, inForce>> /\ SensorsWhole(body)
    BY <2>1, HardwareAssumption, TypedWhole DEF PutHardwareConfig, Changes
  <2> QED
    BY <2>2, UpdateKeeps DEF HardwareInv, NothingSetUp
<1>2. CASE WriteFile
  <2>1. UNCHANGED <<cfg, main, inForce>> /\ Written(cfg')
    BY <1>2 DEF WriteFile, Written
  <2>2. DOMAIN cfg' = AllKeys /\ Whole(cfg')
    BY <2>1 DEF HardwareInv, Whole
  <2>3. Parsable(file') => SensorsWhole(file')
    BY <2>1, <2>2, WrittenWhole DEF HardwareInv
  <2> QED
    BY <2>1, <2>2, <2>3 DEF HardwareInv, NothingSetUp, RebootOwed
<1>3. CASE \E n \in Toggles, on \in BOOLEAN : Toggle(n, on)
  <2>1. PICK n \in Toggles, on \in BOOLEAN : Toggle(n, on)
    BY <1>3
  <2>2. /\ UNCHANGED <<cfg, file, main>>
        /\ main \notin {"ensure", "defaults", "read", "clear"}
        /\ \/ UNCHANGED inForce
           \/ SetUp({n} \cap Hardware)
           \/ inForce' = Restrict(inForce, DOMAIN inForce \ {n})
    BY <2>1 DEF Toggle, Enables, Fails, Serving
  <2>3. DOMAIN inForce' \subseteq Parts /\ RebootOwed'
    <3>1. CASE UNCHANGED inForce
      BY <2>2, <3>1 DEF HardwareInv, RebootOwed
    <3>2. CASE SetUp({n} \cap Hardware)
      <4>1. {n} \cap Hardware \in SUBSET Parts
        BY DEF Parts
      <4> QED
        BY <2>2, <3>2, <4>1, SetUpKeeps DEF HardwareInv
    <3>3. CASE inForce' = Restrict(inForce, DOMAIN inForce \ {n})
      BY <2>2, <3>3 DEF HardwareInv, RebootOwed, Restrict
    <3> QED
      BY <2>2, <3>1, <3>2, <3>3
  <2> QED
    BY <2>2, <2>3 DEF HardwareInv, NothingSetUp
<1>4. CASE Restart
  <2>0. cfg' = Default /\ inForce' = << >> /\ UNCHANGED file
    BY <1>4, Zenon DEF Restart
  <2>1. cfg' = Default /\ DOMAIN inForce' = {} /\ UNCHANGED file
    BY <2>0
  <2>2. DOMAIN cfg' = AllKeys /\ Whole(cfg')
    BY <2>1, DefaultWhole
  <2> QED
    BY <2>1, <2>2 DEF HardwareInv, NothingSetUp, RebootOwed
<1> QED
  BY <1>1, <1>2, <1>3, <1>4

-----------------------------------------------------------------------------

\* The inductive form of RestartIsTold: nothing is set up before the settings are read, and every
\* key and every sensor is whole (OpenConnectHardwareConfig::update, SsvcOpenConnect::begin).
THEOREM HardwareInvariant == Spec => []HardwareInv
<1>1. Init => HardwareInv
  BY InitHolds
<1>2. HardwareInv /\ [Next]_vars => HardwareInv'
  <2> SUFFICES ASSUME HardwareInv, [Next]_vars
               PROVE  HardwareInv'
    OBVIOUS
  <2>1. CASE Start
    BY <2>1, StartStep
  <2>2. CASE \E i \in 1 .. MaxSensors, low \in BOOLEAN : Calibrate(i, low)
    BY <2>2, CalibrateStep
  <2>3. CASE \/ \E body \in Bodies : PutHardwareConfig(body)
             \/ WriteFile
             \/ \E n \in Toggles, on \in BOOLEAN : Toggle(n, on)
             \/ Restart
    BY <2>3, RequestStep
  <2>4. CASE UNCHANGED vars
    BY <2>4 DEF vars, HardwareInv, Whole, NothingSetUp, RebootOwed
  <2> QED
    BY <2>1, <2>2, <2>3, <2>4 DEF Next
<1> QED
  BY <1>1, <1>2, PTL DEF Spec

\* A part that was set up from other settings than those in RAM is one the user has been told to
\* restart the device for, whatever requests, calibrations, toggles, failing writes and restarts
\* come before (needsReboot of GET and PUT /rest/oc/hardware).
THEOREM RestartIsTold == Spec => []RebootOwed
<1>1. HardwareInv => RebootOwed
  BY DEF HardwareInv
<1> QED
  BY <1>1, HardwareInvariant, PTL
-----------------------------------------------------------------------------
(* What every part may rely on when it reads the settings.                 *)

\* The sensors of a list have inputs of their own.
SensorsFit(list) == list \in Seq(SensorType) /\ ~SensorsRefused(list, << >>)

SettingsRight(c) ==
  /\ DOMAIN c = AllKeys /\ c = [k \in AllKeys |-> c[k]]
  /\ \A k \in Flags \cup {"pendingReboot"} : c[k] \in BOOLEAN
  /\ \A k \in Addressed : IsAddress(c[k])
  /\ \A k \in Numbers : c[k] \in 0 .. 2
  /\ c["relayPcf8574Addresses"] \in Seq(Int) /\ ~RelaysRefused(c["relayPcf8574Addresses"], << >>)
  /\ SensorsFit(c["xkc25Sensors"])

LEMMA RightIsTyped ==
  ASSUME NEW c
  PROVE  SettingsRight(c) <=> /\ c \in SettingsType
                              /\ ~RelaysRefused(c["relayPcf8574Addresses"], << >>)
                              /\ SensorsFit(c["xkc25Sensors"])
<1>1. AllKeys = {"pressureSensorEnabled", "userRelayPcfEnabled", "rtcEnabled", "oledEnabled",
                 "lcd1602Enabled", "bmp581I2cAddress", "ds3231I2cAddress", "lcd1602I2cAddress",
                 "xkc25AutoPause", "xkc25AbortRectification", "xkc25TriggerAction",
                 "xkc25SharedTankIndex", "xkc25StartGuardMode", "relayPcf8574Addresses",
                 "xkc25Sensors", "pendingReboot"}
  BY DEF AllKeys, Keys, Flags, Switches, Addressed, Numbers, Lists
<1>2. ASSUME c \in SettingsType, ~RelaysRefused(c["relayPcf8574Addresses"], << >>),
             SensorsFit(c["xkc25Sensors"])
      PROVE  SettingsRight(c)
  <2>1. DOMAIN c = AllKeys /\ c = [k \in AllKeys |-> c[k]]
    BY <1>1, <1>2 DEF SettingsType
  <2>2. /\ \A k \in Flags \cup {"pendingReboot"} : c[k] \in BOOLEAN
        /\ \A k \in Addressed : IsAddress(c[k])
        /\ \A k \in Numbers : c[k] \in 0 .. 2
        /\ c["relayPcf8574Addresses"] \in Seq(Int)
    BY <1>2 DEF SettingsType, Flags, Switches, Addressed, Numbers, IsAddress
  <2> QED
    BY <1>2, <2>1, <2>2 DEF SettingsRight
<1>3. ASSUME SettingsRight(c)
      PROVE  c \in SettingsType
  <2>1. c = [k \in AllKeys |-> c[k]]
    BY <1>3, Zenon DEF SettingsRight
  <2>2. /\ \A k \in Flags \cup {"pendingReboot"} : c[k] \in BOOLEAN
        /\ \A k \in Addressed : c[k] \in 8 .. 119
        /\ \A k \in Numbers : c[k] \in 0 .. 2
        /\ c["relayPcf8574Addresses"] \in Seq(Int) /\ c["xkc25Sensors"] \in Seq(SensorType)
    BY <1>3, Zenon DEF SettingsRight, IsAddress, SensorsFit
  <2> QED
    BY <1>1, <2>1, <2>2 DEF SettingsType, Flags, Switches, Addressed, Numbers
<1> QED
  BY <1>2, <1>3 DEF SettingsRight

\* The file holds what update() takes, and it is loaded over the defaults.
SettingsInv ==
  /\ TypeOK
  /\ Parsable(file) => WellTyped(file)
  /\ main \in {"ensure", "defaults", "read"} => cfg = Default

\* Only switch, input and zone count.
LEMMA FitSame ==
  ASSUME NEW a \in Seq(SensorType), NEW b \in Seq(SensorType), NEW relays, Len(a) = Len(b),
         \A i \in DOMAIN a : /\ b[i].enabled = a[i].enabled
                             /\ b[i].input = a[i].input /\ b[i].zone = a[i].zone
  PROVE  /\ SensorsRefused(b, relays) => SensorsRefused(a, relays)
         /\ Apart(a, relays) => Apart(b, relays)
<1>1. DOMAIN a = DOMAIN b
  OBVIOUS
<1>2. ASSUME NEW s \in Range(b)
      PROVE  \E t \in Range(a) : /\ s.enabled = t.enabled /\ s.input = t.input
                                 /\ OnPcf(s) = OnPcf(t)
  BY <1>1 DEF Range, OnPcf
<1>3. ASSUME SensorsRefused(b, relays)
      PROVE  SensorsRefused(a, relays)
  <2>1. CASE Len(b) > MaxSensors
    BY <2>1 DEF SensorsRefused
  <2>2. CASE \E i \in DOMAIN b : ~IsInput(b[i].input) \/ b[i].zone \notin 0 .. 2
    BY <1>1, <2>2 DEF SensorsRefused
  <2>3. CASE \E i, j \in DOMAIN b : i # j /\ b[i].input = b[j].input
    BY <1>1, <2>3 DEF SensorsRefused
  <2>4. CASE \E s \in Range(b) : OnPcf(s) /\ s.input[2] \in Range(relays)
    BY <1>2, <2>4 DEF SensorsRefused
  <2> QED
    BY <1>3, <2>1, <2>2, <2>3, <2>4 DEF SensorsRefused
<1> QED
  BY <1>2, <1>3 DEF Apart

LEMMA SlotSame ==
  ASSUME NEW new \in SensorType, NEW i \in Nat \ {0}, NEW old \in Seq(SensorType)
  PROVE  /\ Slot(new, i, old) \in SensorType
         /\ Slot(new, i, old).enabled = new.enabled /\ Slot(new, i, old).input = new.input
         /\ Slot(new, i, old).zone = new.zone /\ Slot(new, i, old).shared = new.shared
<1> DEFINE previous == IF i <= Len(old) THEN old[i] ELSE NewSensor
           taken == [new EXCEPT !.activeLow = previous.activeLow, !.calibrated = previous.calibrated]
           fresh == [taken EXCEPT !.activeLow = TRUE, !.calibrated = FALSE]
<1>1. previous.activeLow \in BOOLEAN /\ previous.calibrated \in BOOLEAN
  <2>1. CASE i <= Len(old)
    <3>1. old[i] \in SensorType
      BY <2>1
    <3> QED
      BY <2>1, <3>1 DEF SensorType
  <2>2. CASE ~(i <= Len(old))
    BY <2>2 DEF NewSensor
  <2> QED
    BY <2>1, <2>2
<1>2. Slot(new, i, old) = IF Wired(taken) = Wired(previous) THEN taken ELSE fresh
  BY Zenon DEF Slot
<1> HIDE DEF previous
<1>3. taken \in SensorType /\ taken.enabled = new.enabled /\ taken.input = new.input
        /\ taken.zone = new.zone /\ taken.shared = new.shared
  BY <1>1 DEF SensorType
<1> HIDE DEF taken
<1>4. fresh \in SensorType /\ fresh.enabled = new.enabled /\ fresh.input = new.input
        /\ fresh.zone = new.zone /\ fresh.shared = new.shared
  BY <1>3 DEF SensorType
<1> HIDE DEF fresh
<1> QED
  BY <1>2, <1>3, <1>4

LEMMA SlotsFit ==
  ASSUME NEW given \in Seq(SensorType), NEW old \in Seq(SensorType), NEW relays,
         ~SensorsRefused(given, relays)
  PROVE  /\ SensorsFit([i \in DOMAIN given |-> Slot(given[i], i, old)])
         /\ Apart([i \in DOMAIN given |-> Slot(given[i], i, old)], relays)
<1> DEFINE list == [i \in DOMAIN given |-> Slot(given[i], i, old)]
<1>1. \A i \in DOMAIN given : /\ list[i] \in SensorType
                              /\ list[i].enabled = given[i].enabled
                              /\ list[i].input = given[i].input /\ list[i].zone = given[i].zone
  <2> SUFFICES ASSUME NEW i \in DOMAIN given
               PROVE  /\ list[i] \in SensorType
                      /\ list[i].enabled = given[i].enabled
                      /\ list[i].input = given[i].input /\ list[i].zone = given[i].zone
    OBVIOUS
  <2>1. given[i] \in SensorType /\ i \in Nat \ {0}
    OBVIOUS
  <2> QED
    BY <2>1, SlotSame
<1>2. DOMAIN given = 1 .. Len(given) /\ Len(given) \in Nat
  OBVIOUS
<1>3. DOMAIN list = 1 .. Len(given)
  BY <1>2
<1>4. list \in Seq(SensorType) /\ Len(list) = Len(given)
  <2>1. list \in [1 .. Len(given) -> SensorType]
    BY <1>1, <1>2
  <2> HIDE DEF list
  <2>2. list \in Seq(SensorType)
    BY <1>2, <2>1, SeqDef
  <2>3. Len(list) \in Nat /\ DOMAIN list = 1 .. Len(list)
    BY <2>2, LenProperties
  <2> QED
    BY <1>2, <1>3, <2>2, <2>3
<1> HIDE DEF list
<1>5. ~SensorsRefused(given, << >>)
  BY DEF SensorsRefused, Range
<1>6. Apart(given, relays)
  BY DEF SensorsRefused, Apart
<1> QED
  BY <1>1, <1>4, <1>5, <1>6, FitSame DEF SensorsFit, list

\* The relays of settings are apart from their sensors; those of a request become so.
Separate(c) == Apart(c["xkc25Sensors"], c["relayPcf8574Addresses"])
Known(c, body) ==
  \/ Given(body, "relayPcf8574Addresses")
  \/ ~Single(body) /\ Separate(c)
  \/ c["xkc25Sensors"] = << >>

LEMMA KeyNames ==
  /\ Flags \cup Addressed \cup Numbers \cup Lists \cup {"pendingReboot"} = AllKeys
  /\ \A k \in Flags \cup Addressed : k \notin Lists /\ k \notin {"pendingReboot", "xkc25StartGuardMode"}
  /\ \A k \in Numbers : k \notin Lists /\ k # "pendingReboot"
  /\ "xkc25StartGuardMode" \in Numbers
  /\ Lists = {"relayPcf8574Addresses", "xkc25Sensors"}
  BY DEF AllKeys, Keys, Flags, Switches, Addressed, Numbers, Lists

\* The list of a request, the address of an old file or what there is: a list that is never empty.
LEMMA RelaysRight ==
  ASSUME NEW c, NEW body, WellTyped(body), ~Refused(c, body),
         c["relayPcf8574Addresses"] \in Seq(Int), ~RelaysRefused(c["relayPcf8574Addresses"], << >>)
  PROVE  Relays(c, body) \in Seq(Int) /\ ~RelaysRefused(Relays(c, body), << >>)
<1>0. Range(<< >>) = {}
  BY DEF Range
<1>1. CASE Given(body, "relayPcf8574Addresses")
  <2> DEFINE list == body["relayPcf8574Addresses"]
  <2>1. list \in Seq(Int) /\ ~RelaysRefused(list, c["xkc25Sensors"])
    BY <1>1 DEF WellTyped, Refused, Given
  <2>2. Relays(c, body) = list
    BY <1>1, Zenon DEF Relays
  <2> HIDE DEF list
  <2>3. ~RelaysRefused(list, << >>)
    BY <1>0, <2>1 DEF RelaysRefused
  <2> QED
    BY <2>1, <2>2, <2>3
<1>2. CASE Single(body)
  <2> DEFINE a == body["relayPcf8574I2cAddress"]
  <2>0. \A n : IsAddress(n) => n \in Int
    BY DEF IsAddress
  <2>1. a \in Int /\ IsAddress(a)
    BY <1>2, <2>0 DEF Single
  <2>2. Relays(c, body) = <<a>>
    BY <1>2, Zenon DEF Relays, Single
  <2> HIDE DEF a
  <2>3. <<a>> \in Seq(Int) /\ IsInjective(<<a>>) /\ Len(<<a>>) = 1 /\ DOMAIN <<a>> = {1} /\ <<a>>[1] = a
    BY <2>1 DEF IsInjective
  <2>4. ~RelaysRefused(<<a>>, << >>)
    BY <1>0, <2>1, <2>3 DEF RelaysRefused, MaxRelayChips
  <2> QED
    BY <2>2, <2>3, <2>4
<1>3. CASE ~Given(body, "relayPcf8574Addresses") /\ ~Single(body)
  BY <1>3 DEF Relays
<1> QED
  BY <1>1, <1>2, <1>3

\* With them the settings of a request are right, and its relays are apart from the sensors unless
\* they are a single address among sensors that were there.
LEMMA MergedRight ==
  ASSUME NEW c, SettingsRight(c), NEW body, WellTyped(body), ~Refused(c, body)
  PROVE  /\ SettingsRight(Merged(c, body))
         /\ Known(c, body) => Separate(Merged(c, body))
<1> DEFINE m == Merged(c, body)
           relays == m["relayPcf8574Addresses"]
<1>1. DOMAIN m = AllKeys
  BY DEF Merged, SettingsRight
<1>2. relays = Relays(c, body)
  BY KeyNames DEF Merged, SettingsRight
<1>3. relays \in Seq(Int) /\ ~RelaysRefused(relays, << >>)
  BY <1>2, RelaysRight DEF SettingsRight
<1>4. \A k \in Flags \cup Addressed : m[k] = IF Given(body, k) THEN body[k] ELSE c[k]
  BY KeyNames DEF Merged, SettingsRight, Keys
<1>5. \A k \in Numbers \ {"xkc25StartGuardMode"} : m[k] = IF Given(body, k) THEN body[k] ELSE c[k]
  <2> SUFFICES ASSUME NEW k \in Numbers, k # "xkc25StartGuardMode"
               PROVE  m[k] = IF Given(body, k) THEN body[k] ELSE c[k]
    OBVIOUS
  <2>1. k \in DOMAIN c /\ k \in Keys \ Lists /\ k # "pendingReboot"
          /\ k # "relayPcf8574Addresses" /\ k # "xkc25Sensors"
    BY KeyNames DEF SettingsRight, Keys
  <2> QED
    BY <2>1 DEF Merged
<1>6. m["xkc25StartGuardMode"] = Guard(c, body)
  <2>1. "xkc25StartGuardMode" \in DOMAIN c
    BY KeyNames DEF SettingsRight
  <2> QED
    BY <2>1 DEF Merged, Guard
<1>7. \A k \in Flags : m[k] \in BOOLEAN
  BY <1>4 DEF SettingsRight, WellTyped, Refused, Given
<1>8. \A k \in Addressed : IsAddress(m[k])
  BY <1>4 DEF SettingsRight, Refused
<1>9. \A k \in Numbers : m[k] \in 0 .. 2
  <2>1. \A k \in Numbers : c[k] \in 0 .. 2 /\ (Given(body, k) => body[k] \in 0 .. 2)
    BY DEF SettingsRight, Refused
  <2>2. Guard(c, body) \in 0 .. 2
    BY <2>1, KeyNames DEF Guard
  <2> QED
    BY <1>5, <1>6, <2>1, <2>2
<1>10. SensorsFit(m["xkc25Sensors"]) /\ (Known(c, body) => Apart(m["xkc25Sensors"], relays))
  <2> DEFINE given == body["xkc25Sensors"]
             old == c["xkc25Sensors"]
  <2>0. old \in Seq(SensorType) /\ SensorsFit(old)
    BY DEF SettingsRight, SensorsFit
  <2>1. CASE Given(body, "xkc25Sensors")
    <3>1. given \in Seq(SensorType) /\ ~SensorsRefused(given, relays)
      BY <1>2, <2>1 DEF WellTyped, Refused, Given
    <3>2. m["xkc25Sensors"] = [i \in DOMAIN given |-> Slot(given[i], i, old)]
      BY <2>1, KeyNames DEF Merged, SettingsRight
    <3> HIDE DEF given, old, m
    <3> QED
      BY <2>0, <3>1, <3>2, SlotsFit
  <2>2. CASE ~Given(body, "xkc25Sensors")
    <3>1. m["xkc25Sensors"] = old
      BY <2>2, KeyNames DEF Merged, SettingsRight
    <3>2. ASSUME Known(c, body)
          PROVE  Apart(old, relays)
      <4>1. CASE Given(body, "relayPcf8574Addresses")
        BY <1>2, <4>1 DEF Relays, Refused, RelaysRefused, Apart
      <4>2. CASE ~Given(body, "relayPcf8574Addresses") /\ ~Single(body) /\ Separate(c)
        BY <1>2, <4>2 DEF Relays, Separate
      <4>3. CASE old = << >>
        BY <4>3 DEF Apart, Range
      <4> QED
        BY <3>2, <4>1, <4>2, <4>3 DEF Known
    <3> QED
      BY <2>0, <3>1, <3>2
  <2> QED
    BY <2>1, <2>2
<1>11. m["pendingReboot"] \in BOOLEAN
  <2>1. m["pendingReboot"] = c["pendingReboot"]
    BY KeyNames DEF Merged, SettingsRight
  <2> QED
    BY <2>1 DEF SettingsRight
<1>12. m = [k \in AllKeys |-> m[k]]
  <2>1. DOMAIN c = AllKeys
    BY DEF SettingsRight
  <2> QED
    BY <2>1 DEF Merged
<1>13. \A k \in Flags \cup {"pendingReboot"} : m[k] \in BOOLEAN
  BY <1>7, <1>11
<1> HIDE DEF m
<1>14. SettingsRight(m) /\ (Known(c, body) => Separate(m))
  BY <1>1, <1>3, <1>8, <1>9, <1>10, <1>12, <1>13 DEF SettingsRight, Separate
<1> QED
  BY <1>14 DEF m

\* Only pendingReboot differs.
LEMMA RightSame ==
  ASSUME NEW c, SettingsRight(c), NEW d, DOMAIN d = AllKeys, d = [k \in AllKeys |-> d[k]],
         d["pendingReboot"] \in BOOLEAN,
         \A k \in AllKeys \ {"pendingReboot"} : d[k] = c[k]
  PROVE  SettingsRight(d) /\ (Separate(c) => Separate(d))
<1>1. /\ \A k \in Flags \cup Addressed \cup Numbers : d[k] = c[k]
      /\ d["relayPcf8574Addresses"] = c["relayPcf8574Addresses"]
      /\ d["xkc25Sensors"] = c["xkc25Sensors"]
  BY KeyNames
<1> QED
  BY <1>1 DEF SettingsRight, Separate

LEMMA UpdatedRight ==
  ASSUME NEW c, SettingsRight(c), NEW body, WellTyped(body)
  PROVE  /\ SettingsRight(Updated(c, body))
         /\ Known(c, body) /\ (Refused(c, body) => Separate(c)) => Separate(Updated(c, body))
<1>1. CASE Refused(c, body)
  BY <1>1 DEF Updated
<1>2. CASE ~Refused(c, body)
  <2> DEFINE m == Merged(c, body)
             r == [m EXCEPT !["pendingReboot"] = TRUE]
  <2>1. SettingsRight(m) /\ (Known(c, body) => Separate(m))
    BY <1>2, MergedRight
  <2>2. Updated(c, body) \in {r, m}
    BY <1>2, Zenon DEF Updated
  <2> HIDE DEF m
  <2>3. /\ DOMAIN r = AllKeys /\ r = [k \in AllKeys |-> r[k]] /\ r["pendingReboot"] = TRUE
        /\ \A k \in AllKeys \ {"pendingReboot"} : r[k] = m[k]
    BY <2>1, KeyNames DEF SettingsRight
  <2> HIDE DEF r
  <2>4. SettingsRight(r) /\ (Known(c, body) => Separate(r))
    BY <2>1, <2>3, RightSame
  <2> QED
    BY <1>2, <2>1, <2>2, <2>4
<1> QED
  BY <1>1, <1>2

LEMMA DefaultRight == SettingsRight(Default) /\ Separate(Default)
<1>1. Default["relayPcf8574Addresses"] = <<36>> /\ Default["xkc25Sensors"] = << >>
  BY DEF Default
<1>2. Default \in SettingsType
  BY DEF Default, SettingsType
<1>3. ~RelaysRefused(<<36>>, << >>)
  BY DEF RelaysRefused, MaxRelayChips, IsInjective, IsAddress, Range
<1>4. SensorsFit(<< >>) /\ Apart(<< >>, <<36>>)
  BY DEF SensorsFit, SensorsRefused, Range, MaxSensors, Apart
<1> QED
  BY <1>1, <1>2, <1>3, <1>4, RightIsTyped DEF Separate

LEMMA RightTyped ==
  ASSUME NEW c, SettingsRight(c)
  PROVE  WellTyped(c)
<1>1. \A k \in Flags : Given(c, k) => c[k] \in BOOLEAN \cup {Wrong}
  BY DEF SettingsRight
<1>2. ~Given(c, "xkc25BlockStartUntilCalibrated")
  BY DEF SettingsRight, Given, AllKeys, Keys, Flags, Switches, Addressed, Numbers, Lists
<1>3. ~Given(c, "relayPcf8574I2cAddress")
  BY DEF SettingsRight, Given, AllKeys, Keys, Flags, Switches, Addressed, Numbers, Lists
<1> QED
  BY <1>1, <1>2, <1>3 DEF WellTyped, SettingsRight, SensorsFit

-----------------------------------------------------------------------------
(* The steps and the settings.                                             *)

\* The manager: its fields, and names with a switch each.
ManagerRight(m) ==
  /\ DOMAIN m = DOMAIN NewManager
  /\ OnOff(m.enabled) /\ OnOff(m.initial) /\ OnOff(m.collected)
  /\ DOMAIN m.enabled \subseteq Base \cup Hardware \cup Messengers

\* Relays that were compared with the sensors are apart from them.
Compared == "relays unchecked" \notin flaws => Separate(cfg)

LEMMA TypeParts ==
  TypeOK <=> /\ SettingsRight(cfg) /\ Compared
             /\ ManagerRight(manager) /\ OnOff(nvs) /\ DOMAIN inForce \subseteq Parts
<1>1. SettingsRight(cfg) <=> /\ cfg \in SettingsType
                             /\ ~RelaysRefused(cfg["relayPcf8574Addresses"], << >>)
                             /\ SensorsFit(cfg["xkc25Sensors"])
  BY RightIsTyped
<1>2. cfg \in SettingsType => cfg["xkc25Sensors"] \in Seq(SensorType)
  BY DEF SettingsType
<1> QED
  BY <1>1, <1>2 DEF TypeOK, SensorsFit, ManagerRight, Parts, Compared, Separate

LEMMA TypePartsNext ==
  ASSUME SettingsRight(cfg'), Compared', ManagerRight(manager'), OnOff(nvs'),
         DOMAIN inForce' \subseteq Parts
  PROVE  TypeOK'
<1>1. /\ cfg' \in SettingsType
      /\ ~RelaysRefused(cfg'["relayPcf8574Addresses"], << >>)
      /\ SensorsFit(cfg'["xkc25Sensors"])
  BY RightIsTyped
<1> QED
  BY <1>1 DEF TypeOK, SensorsFit, ManagerRight, Parts, Compared, Separate

LEMMA SettingsInit == Init => SettingsInv
<1> SUFFICES ASSUME Init
             PROVE  SettingsInv
  OBVIOUS
<1>1. SettingsRight(cfg) /\ Compared
  BY DefaultRight DEF Init, Compared
<1>2. Parsable(file) => WellTyped(file)
  BY HardwareAssumption DEF Init, Parsable
<1>3. ManagerRight(manager) /\ DOMAIN inForce = {}
  BY DEF Init, NewManager, ManagerRight, OnOff
<1>4. OnOff(nvs)
  BY SavedAssumption DEF Init
<1> QED
  BY <1>1, <1>2, <1>3, <1>4, TypeParts DEF SettingsInv, Init

LEMMA WrittenTyped ==
  ASSUME SettingsRight(cfg'), Parsable(file) => WellTyped(file), Written(cfg')
  PROVE  Parsable(file') => WellTyped(file')
<1>1. file' \in {cfg', file, Bad}
  BY DEF Written
<1>2. WellTyped(cfg')
  BY RightTyped
<1> QED
  BY <1>1, <1>2 DEF Parsable

LEMMA NvsRight ==
  ASSUME NEW saved, OnOff(saved), NEW c, NEW d, SettingsRight(d)
  PROVE  OnOff(SyncedNvs(saved, c, d))
<1>1. \A n \in DOMAIN Switched : Wanted(d, n) \in BOOLEAN
  <2>1. d["pressureSensorEnabled"] \in BOOLEAN /\ d["lcd1602Enabled"] \in BOOLEAN
    BY DEF SettingsRight, Flags, Switches
  <2>2. AnyEnabled(d) \in BOOLEAN
    BY DEF AnyEnabled
  <2> QED
    BY <2>1, <2>2 DEF Wanted, Switched
<1> QED
  BY <1>1 DEF SyncedNvs, OnOff

LEMMA MarkedRight ==
  ASSUME NEW m, ManagerRight(m), NEW n, NEW on \in BOOLEAN
  PROVE  ManagerRight(Marked(m, n, on)) /\ OnOff(Collected(Marked(m, n, on)))
<1>1. /\ DOMAIN Marked(m, n, on) = DOMAIN NewManager
      /\ Marked(m, n, on).enabled = [m.enabled EXCEPT ![n] = on]
      /\ Marked(m, n, on).initial = m.initial /\ Marked(m, n, on).collected = m.collected
  BY DEF Marked, ManagerRight, NewManager
<1>2. OnOff([m.enabled EXCEPT ![n] = on])
  BY DEF ManagerRight, OnOff
<1> QED
  BY <1>1, <1>2 DEF ManagerRight, Collected

-----------------------------------------------------------------------------

\* A step that leaves the settings alone, or what they say of relays and sensors.
LEMMA ComparedStays ==
  ASSUME Compared, "relays unchecked" \in flaws => "relays unchecked" \in flaws',
         \/ UNCHANGED cfg
         \/ Separate(cfg) => Separate(cfg')
  PROVE  Compared'
BY DEF Compared, Separate

LEMMA WrittenFlaws ==
  ASSUME NEW content, Written(content)
  PROVE  flaws \subseteq flaws'
BY DEF Written

LEMMA SettingsStart ==
  ASSUME SettingsInv, Start
  PROVE  SettingsInv'
<1>0. /\ Compared /\ ManagerRight(manager) /\ OnOff(nvs) /\ DOMAIN inForce \subseteq Parts /\ SettingsRight(cfg)
      /\ Parsable(file) => WellTyped(file)
  BY TypeParts DEF SettingsInv
<1>1. CASE Ensure
  <2>1. /\ UNCHANGED <<cfg, manager, nvs, inForce, flaws>> /\ main = "ensure"
        /\ file' = file \/ file' = None
    BY <1>1 DEF Ensure
  <2>2. TypeOK'
    BY <1>0, <2>1, ComparedStays, TypePartsNext
  <2> QED
    BY <2>1, <2>2 DEF SettingsInv, Parsable
<1>2. CASE Defaults
  <2> DEFINE on == IF "atm_sensor" \in DOMAIN nvs THEN nvs["atm_sensor"] ELSE TRUE
             d == [Default EXCEPT !["pressureSensorEnabled"] = on]
  <2>1. /\ UNCHANGED <<cfg, manager, inForce>> /\ main = "defaults" /\ flaws \subseteq flaws'
        /\ \/ file' = d /\ nvs' = Synced(nvs, "atm_sensor", on)
           \/ UNCHANGED <<file, nvs>>
    BY <1>2 DEF Defaults
  <2>2. on \in BOOLEAN
    BY <1>0 DEF OnOff
  <2> HIDE DEF on
  <2>3. OnOff(Synced(nvs, "atm_sensor", on))
    BY <1>0, <2>2 DEF OnOff, Synced
  <2>4. WellTyped(d)
    <3>1. WellTyped(Default)
      BY DefaultRight, RightTyped
    <3>2. /\ DOMAIN d = DOMAIN Default
          /\ \A k \in DOMAIN Default : d[k] = IF k = "pressureSensorEnabled" THEN on ELSE Default[k]
      BY DefaultWhole
    <3> HIDE DEF d
    <3>3. \A k \in Flags \cup {"xkc25BlockStartUntilCalibrated"} :
             Given(d, k) => d[k] \in BOOLEAN \cup {Wrong}
      BY <2>2, <3>1, <3>2 DEF WellTyped, Given
    <3> QED
      BY <3>1, <3>2, <3>3 DEF WellTyped, Given
  <2> HIDE DEF d
  <2>5. OnOff(nvs') /\ (Parsable(file') => WellTyped(file'))
    BY <1>0, <2>1, <2>3, <2>4
  <2>6. TypeOK'
    BY <1>0, <2>1, <2>5, ComparedStays, TypePartsNext
  <2> QED
    BY <2>1, <2>5, <2>6 DEF SettingsInv
<1>3. CASE Read
  <2>1. /\ main = "read" /\ main' = "clear" /\ UNCHANGED <<manager, inForce>>
        /\ cfg' = IF Parsable(file) THEN Updated(cfg, file) ELSE cfg
        /\ nvs' = SyncedNvs(nvs, cfg, cfg')
        /\ IF Parsable(file) THEN UNCHANGED <<file, flaws, left>> ELSE Written(cfg')
    BY <1>3 DEF Read
  <2>2. SettingsRight(cfg') /\ Separate(cfg')
    <3>1. cfg["xkc25Sensors"] = << >> /\ Separate(cfg)
      BY <2>1, DefaultRight, DefaultWhole DEF SettingsInv
    <3> QED
      BY <1>0, <2>1, <3>1, UpdatedRight DEF Known
  <2>3. OnOff(nvs')
    BY <1>0, <2>1, <2>2, NvsRight
  <2>4. Parsable(file') => WellTyped(file')
    BY <1>0, <2>1, <2>2, WrittenTyped
  <2>5. TypeOK'
    BY <1>0, <2>1, <2>2, <2>3, TypePartsNext DEF Compared, Separate
  <2> QED
    BY <2>1, <2>4, <2>5 DEF SettingsInv
<1>4. CASE Clear
  <2>1. /\ main' = "relays" /\ UNCHANGED <<manager, nvs, inForce>>
        /\ cfg' = [cfg EXCEPT !["pendingReboot"] = FALSE]
        /\ IF cfg["pendingReboot"] THEN Written(cfg') ELSE UNCHANGED <<file, flaws, left>>
    BY <1>4 DEF Clear
  <2>2. /\ DOMAIN cfg' = AllKeys /\ cfg' = [k \in AllKeys |-> cfg'[k]]
        /\ cfg'["pendingReboot"] = FALSE /\ \A k \in AllKeys \ {"pendingReboot"} : cfg'[k] = cfg[k]
    BY <1>0, <2>1, KeyNames DEF SettingsRight
  <2>3. SettingsRight(cfg') /\ (Separate(cfg) => Separate(cfg'))
    BY <1>0, <2>2, RightSame
  <2>4. Parsable(file') => WellTyped(file')
    BY <1>0, <2>1, <2>3, WrittenTyped
  <2>5. Compared'
    <3>1. flaws \subseteq flaws'
      BY <2>1, WrittenFlaws
    <3> QED
      BY <1>0, <2>3, <3>1, ComparedStays
  <2>6. TypeOK'
    BY <1>0, <2>1, <2>3, <2>5, TypePartsNext
  <2> QED
    BY <2>1, <2>4, <2>6 DEF SettingsInv
<1>5. CASE ConfigureRelays \/ Register \/ Begin \/ EnableNext \/ Collect \/ SaveConfig
  <2>1. UNCHANGED <<cfg, file, flaws>> /\ main' \notin {"ensure", "defaults", "read"}
    <3>1. CASE EnableNext
      BY <3>1, PartNames DEF EnableNext, Following
    <3> QED
      BY <1>5, <3>1 DEF ConfigureRelays, Register, Begin, Collect, SaveConfig
  <2>2. DOMAIN inForce' \subseteq Parts
    BY <1>0, <1>5 DEF ConfigureRelays, Register, Begin, EnableNext, Enables, Fails, Collect,
                      SaveConfig, SetUp, Parts
  <2>3. ManagerRight(manager') /\ OnOff(nvs')
    <3>1. CASE ConfigureRelays
      BY <1>0, <3>1 DEF ConfigureRelays
    <3>2. CASE Register
      <4> DEFINE wanted == Base \cup {n \in Hardware : Wanted(cfg, n)}
      <4>1. PICK garbage \in BOOLEAN :
              manager' = Asked(Registered(manager, wanted \cup Messengers, garbage),
                               [n \in wanted |-> TRUE])
        BY <3>2 DEF Register
      <4>2. wanted \subseteq Base \cup Hardware /\ UNCHANGED nvs
        BY <3>2 DEF Register
      <4> HIDE DEF wanted
      <4>3. /\ DOMAIN manager' = DOMAIN NewManager
            /\ manager'.enabled = [n \in wanted \cup Messengers |-> garbage]
            /\ manager'.initial = [n \in wanted |-> TRUE]
            /\ manager'.collected = manager.collected
        BY <1>0, <4>1 DEF Asked, Registered, ManagerRight, NewManager
      <4> QED
        BY <1>0, <4>2, <4>3 DEF ManagerRight, OnOff
    <3>3. CASE Begin
      <4>1. /\ DOMAIN manager' = DOMAIN NewManager /\ UNCHANGED nvs
            /\ manager'.enabled = [n \in Names(manager) |-> Target(manager, nvs, n)]
            /\ manager'.initial = manager.initial /\ manager'.collected = manager.collected
        BY <1>0, <3>3 DEF Begin, Initialized, ManagerRight, NewManager
      <4>2. \A n : Target(manager, nvs, n) \in BOOLEAN
        BY <1>0 DEF Target, ManagerRight, OnOff
      <4> QED
        BY <1>0, <4>1, <4>2 DEF ManagerRight, OnOff, Names
    <3>4. CASE EnableNext
      <4>1. \/ UNCHANGED <<manager, nvs>>
            \/ \E on \in BOOLEAN : manager' = Marked(manager, main, on)
                                     /\ nvs' \in {nvs, Collected(manager')}
        BY <3>4 DEF EnableNext, Enables, Fails
      <4> QED
        BY <1>0, <4>1, MarkedRight
    <3>5. CASE Collect
      <4>1. /\ DOMAIN manager' = DOMAIN NewManager /\ UNCHANGED nvs
            /\ manager'.enabled = manager.enabled /\ manager'.initial = manager.initial
            /\ manager'.collected = manager.enabled
        BY <1>0, <3>5 DEF Collect, Collected, ManagerRight, NewManager
      <4> QED
        BY <1>0, <4>1 DEF ManagerRight
    <3>6. CASE SaveConfig
      BY <1>0, <3>6 DEF SaveConfig, ManagerRight
    <3> QED
      BY <1>5, <3>1, <3>2, <3>3, <3>4, <3>5, <3>6
  <2>4. SettingsRight(cfg') /\ Compared'
    BY <1>0, <2>1, ComparedStays
  <2>5. TypeOK'
    BY <2>2, <2>3, <2>4, TypePartsNext
  <2> QED
    BY <1>0, <2>1, <2>5 DEF SettingsInv
<1> QED
  BY <1>1, <1>2, <1>3, <1>4, <1>5 DEF Start

\* A finding of a calibration changes neither switch nor input nor zone.
LEMMA SettingsCalibrate ==
  ASSUME SettingsInv, NEW i \in 1 .. MaxSensors, NEW low \in BOOLEAN, Calibrate(i, low)
  PROVE  SettingsRight(cfg') /\ Compared'
<1> DEFINE list == cfg["xkc25Sensors"]
           relays == cfg["relayPcf8574Addresses"]
           found == [[list[i] EXCEPT !.activeLow = low] EXCEPT !.calibrated = TRUE]
           new == [list EXCEPT ![i] = found]
<1>1. SettingsRight(cfg) /\ list \in Seq(SensorType) /\ "xkc25Sensors" \in AllKeys
  BY TypeParts, KeyNames DEF SettingsInv, SettingsRight, SensorsFit
<1>2. /\ i \in DOMAIN list
      /\ cfg' = [cfg EXCEPT !["xkc25Sensors"][i].activeLow = low,
                            !["xkc25Sensors"][i].calibrated = TRUE]
  BY DEF Calibrate, Changes
<1>3. DOMAIN cfg = AllKeys
  BY <1>1 DEF SettingsRight
<1>4. /\ DOMAIN cfg' = AllKeys /\ cfg'["xkc25Sensors"] = new
      /\ \A k \in AllKeys \ {"xkc25Sensors"} : cfg'[k] = cfg[k]
  BY <1>1, <1>2, <1>3
<1>5. /\ list[i] \in SensorType /\ i \in 1 .. Len(list)
  BY <1>1, <1>2
<1> HIDE DEF list
<1>6. /\ found \in SensorType /\ found.enabled = list[i].enabled
      /\ found.input = list[i].input /\ found.zone = list[i].zone
  BY <1>5 DEF SensorType
<1> HIDE DEF found
<1>7. /\ new \in Seq(SensorType) /\ Len(new) = Len(list) /\ DOMAIN list = 1 .. Len(list)
      /\ \A j \in 1 .. Len(list) : new[j] = IF j = i THEN found ELSE list[j]
  BY <1>1, <1>5, <1>6, ExceptSeq
<1> HIDE DEF new
<1>8. \A j \in DOMAIN list : /\ new[j].enabled = list[j].enabled
                             /\ new[j].input = list[j].input /\ new[j].zone = list[j].zone
  BY <1>6, <1>7
<1>9. ~SensorsRefused(list, << >>)
  BY <1>1 DEF SettingsRight, SensorsFit, list
<1>10. SensorsFit(new) /\ (Apart(list, relays) => Apart(new, relays))
  BY <1>1, <1>7, <1>8, <1>9, FitSame DEF SensorsFit
<1>11. /\ \A k \in Flags \cup {"pendingReboot"} \cup Addressed \cup Numbers : cfg'[k] = cfg[k]
       /\ cfg'["relayPcf8574Addresses"] = relays
  BY <1>4, KeyNames
<1> HIDE DEF relays
<1>12. relays = cfg["relayPcf8574Addresses"]
  BY DEF relays
<1>13. cfg' = [k \in AllKeys |-> cfg'[k]]
  BY <1>2, <1>3
<1>14. SettingsRight(cfg')
  BY <1>1, <1>4, <1>10, <1>11, <1>12, <1>13 DEF SettingsRight
<1>15. Separate(cfg) => Separate(cfg')
  BY <1>4, <1>10, <1>11, <1>12 DEF Separate, list
<1>16. Compared /\ UNCHANGED flaws
  BY TypeParts DEF SettingsInv, Calibrate
<1> QED
  BY <1>14, <1>15, <1>16, ComparedStays

LEMMA SettingsRequest ==
  ASSUME SettingsInv,
         \/ \E body \in Bodies : PutHardwareConfig(body)
         \/ \E i \in 1 .. MaxSensors, low \in BOOLEAN : Calibrate(i, low)
         \/ WriteFile
         \/ \E n \in Toggles, on \in BOOLEAN : Toggle(n, on)
         \/ Restart
  PROVE  SettingsInv'
<1>0. /\ Compared /\ ManagerRight(manager) /\ OnOff(nvs) /\ DOMAIN inForce \subseteq Parts /\ SettingsRight(cfg)
      /\ Parsable(file) => WellTyped(file)
  BY TypeParts DEF SettingsInv
\* A change of the settings by a request or a calibration.
<1>1. ASSUME SettingsRight(cfg'), Compared', UNCHANGED <<file, manager, inForce>>,
             main' \notin {"ensure", "defaults", "read"}, nvs' = SyncedNvs(nvs, cfg, cfg')
      PROVE  SettingsInv'
  <2>1. TypeOK'
    BY <1>0, <1>1, NvsRight, TypePartsNext
  <2> QED
    BY <1>0, <1>1, <2>1 DEF SettingsInv
<1>2. CASE \E body \in Bodies : PutHardwareConfig(body)
  <2>1. PICK body \in Bodies : PutHardwareConfig(body)
    BY <1>2
  <2>2. ~Refused(cfg, body) /\ cfg' = Updated(cfg, body) /\ WellTyped(body)
    BY <2>1, HardwareAssumption DEF PutHardwareConfig, Changes
  <2>3. SettingsRight(cfg') /\ (Known(cfg, body) => Separate(cfg'))
    BY <1>0, <2>2, UpdatedRight
  <2>4. Compared'
    <3>1. CASE Single(body)
      BY <2>1, <3>1 DEF PutHardwareConfig, Compared
    <3>2. CASE ~Single(body) /\ Given(body, "relayPcf8574Addresses")
      BY <2>3, <3>2 DEF Known, Compared, Separate
    <3>3. CASE ~Single(body) /\ ~Given(body, "relayPcf8574Addresses")
      <4>1. UNCHANGED flaws
        BY <2>1, <3>3 DEF PutHardwareConfig
      <4> QED
        BY <1>0, <2>3, <3>3, <4>1, ComparedStays DEF Known
    <3> QED
      BY <3>1, <3>2, <3>3
  <2> QED
    BY <1>1, <2>1, <2>3, <2>4 DEF PutHardwareConfig, Changes, Serving
<1>3. CASE \E i \in 1 .. MaxSensors, low \in BOOLEAN : Calibrate(i, low)
  <2>1. PICK i \in 1 .. MaxSensors, low \in BOOLEAN : Calibrate(i, low)
    BY <1>3
  <2>2. SettingsRight(cfg') /\ Compared'
    BY <2>1, SettingsCalibrate DEF Compared, Separate
  <2>3. nvs' = SyncedNvs(nvs, cfg, cfg')
    BY <2>1, Zenon DEF Calibrate, Changes
  <2>4. UNCHANGED <<file, manager, inForce>> /\ main' \notin {"ensure", "defaults", "read"}
    BY <2>1 DEF Calibrate, Serving
  <2> QED
    BY <1>1, <2>2, <2>3, <2>4
<1>4. CASE WriteFile
  <2>1. UNCHANGED <<cfg, nvs, main, manager, inForce>> /\ Written(cfg')
    BY <1>4 DEF WriteFile, Written
  <2>2. Parsable(file') => WellTyped(file')
    BY <1>0, <2>1, WrittenTyped
  <2>3. TypeOK'
    <3>1. flaws \subseteq flaws'
      BY <2>1, WrittenFlaws
    <3> QED
      BY <1>0, <2>1, <3>1, ComparedStays, TypePartsNext
  <2> QED
    BY <2>1, <2>2, <2>3 DEF SettingsInv
<1>5. CASE \E n \in Toggles, on \in BOOLEAN : Toggle(n, on)
  <2>1. PICK n \in Toggles, on \in BOOLEAN : Toggle(n, on)
    BY <1>5
  <2>2. /\ UNCHANGED <<cfg, file, main>> /\ flaws \subseteq flaws'
        /\ \/ UNCHANGED <<manager, nvs>>
           \/ \E mark \in BOOLEAN : manager' = Marked(manager, n, mark) /\ nvs' = Collected(manager')
        /\ \/ UNCHANGED inForce
           \/ SetUp({n} \cap Hardware)
           \/ inForce' = Restrict(inForce, DOMAIN inForce \ {n})
    BY <2>1 DEF Toggle, Enables, Fails
  <2>3. ManagerRight(manager') /\ OnOff(nvs')
    BY <1>0, <2>2, MarkedRight
  <2>4. DOMAIN inForce' \subseteq Parts
    BY <1>0, <2>2 DEF SetUp, Restrict, Parts
  <2>5. TypeOK'
    BY <1>0, <2>2, <2>3, <2>4, ComparedStays, TypePartsNext
  <2> QED
    BY <2>2, <2>5 DEF SettingsInv
<1>6. CASE Restart
  <2>0. /\ cfg' = Default /\ inForce' = << >> /\ UNCHANGED <<file, nvs>> /\ manager' = NewManager
        /\ main' = "ensure"
    BY <1>6, Zenon DEF Restart
  <2>1. DOMAIN inForce' = {}
    BY <2>0
  <2>2. ManagerRight(manager')
    BY <2>0 DEF ManagerRight, NewManager, OnOff
  <2>3. TypeOK'
    BY <1>0, <2>0, <2>1, <2>2, DefaultRight, TypePartsNext DEF Compared, Separate
  <2> QED
    BY <1>0, <2>0, <2>3 DEF SettingsInv
<1> QED
  BY <1>2, <1>3, <1>4, <1>5, <1>6

\* The inductive form of the types: what the file holds is included, since it is loaded again
\* (OpenConnectHardwareConfig::update over the defaults).
THEOREM SettingsHold == Spec => []SettingsInv
<1>1. Init => SettingsInv
  BY SettingsInit
<1>2. SettingsInv /\ [Next]_vars => SettingsInv'
  <2> SUFFICES ASSUME SettingsInv, [Next]_vars
               PROVE  SettingsInv'
    OBVIOUS
  <2>1. CASE Start
    BY <2>1, SettingsStart
  <2>2. CASE UNCHANGED vars
    <3>1. TypeOK'
      BY <2>2 DEF vars, SettingsInv, TypeOK
    <3> QED
      BY <2>2, <3>1 DEF vars, SettingsInv
  <2> QED
    BY <2>1, <2>2, SettingsRequest DEF Next
<1> QED
  BY <1>1, <1>2, PTL DEF Spec


\* Types, and what every part may rely on: addresses are addresses, there is a chip for the relays,
\* no two sensors share an input, whatever requests, files, calibrations and restarts come; and no
\* enabled sensor sits on a chip of relays, unless a request with the single address has put the
\* relays there and no list has come since (OpenConnectHardwareConfig::update).
THEOREM HardwareTypeCorrect == Spec => []TypeOK
<1>1. SettingsInv => TypeOK
  BY DEF SettingsInv
<1> QED
  BY <1>1, SettingsHold, PTL

-----------------------------------------------------------------------------
(* The switches of messengers in the object that many write.               *)

\* Nothing has come between the two steps of the last saveConfig() of begin().
Undisturbed == "toggle overtaken" \notin flaws

\* The entry of a messenger, and no entry is off.
Entry(f, n) == n \in DOMAIN f /\ f[n]

\* With instances, the flag of a messenger is its entry in NVS; what the last saveConfig() has
\* collected is what the flags are.
ToggleInv ==
  /\ manager.made => Messengers \subseteq Names(manager)
  /\ main = "begin" => Messengers \subseteq Names(manager)
  /\ manager.made => main \in Hardware \cup {"collect", "save", "up"}
  /\ main \in Hardware \cup {"collect", "save"} => manager.made
  /\ DOMAIN manager.initial \cap Messengers = {} /\ DOMAIN asked = Messengers
  /\ \A n \in Messengers : Undisturbed =>
       /\ manager.made => Entry(nvs, n) = manager.enabled[n]
       /\ main = "save" => n \in DOMAIN manager.collected /\ manager.collected[n] = manager.enabled[n]
       /\ asked[n] # None => Entry(nvs, n) = asked[n]

LEMMA MessengerNames == Messengers \cap (Base \cup Hardware) = {}
  BY MessengersAssumption, PartNames DEF Base

LEMMA SyncedEntries ==
  ASSUME NEW saved, NEW c, NEW d, NEW n \in Messengers
  PROVE  Entry(SyncedNvs(saved, c, d), n) = Entry(saved, n)
<1>1. n \notin DOMAIN Switched
  BY MessengerNames DEF Hardware
<1>2. n \in DOMAIN SyncedNvs(saved, c, d) <=> n \in DOMAIN saved
  BY <1>1 DEF SyncedNvs
<1>3. n \in DOMAIN saved => SyncedNvs(saved, c, d)[n] = saved[n]
  BY <1>1 DEF SyncedNvs
<1> QED
  BY <1>2, <1>3 DEF Entry

\* A step that leaves manager, flaws and answers alone, and the entries of messengers.
LEMMA TogglesStay ==
  ASSUME ToggleInv, UNCHANGED <<manager, asked>>, flaws \subseteq flaws',
         \A n \in Messengers : Entry(nvs', n) = Entry(nvs, n),
         \/ main' = main
         \/ ~manager.made /\ main' \in {"ensure", "defaults", "read", "clear", "relays", "register"}
  PROVE  ToggleInv'
<1>1. main' = main \/ main' \notin {"begin", "collect", "save", "up"} \cup Hardware
  BY PartNames
<1> QED
  BY <1>1 DEF ToggleInv, Undisturbed, Names, Entry

LEMMA ToggleStart ==
  ASSUME TypeOK, ToggleInv, Start
  PROVE  ToggleInv'
<1>0. ManagerRight(manager) /\ OnOff(nvs)
  BY TypeParts
<1>1. CASE Ensure \/ Defaults \/ Read \/ Clear \/ ConfigureRelays
  <2>1. /\ UNCHANGED <<manager, asked>> /\ flaws \subseteq flaws'
        /\ main \in {"ensure", "defaults", "read", "clear", "relays"}
        /\ main' \in {"ensure", "defaults", "read", "clear", "relays", "register"}
    BY <1>1 DEF Ensure, Defaults, Read, Clear, ConfigureRelays, Written
  <2>2. \A n \in Messengers : Entry(nvs', n) = Entry(nvs, n)
    <3>1. CASE Defaults
      <4>1. UNCHANGED nvs \/ \E on : nvs' = Synced(nvs, "atm_sensor", on)
        BY <3>1 DEF Defaults
      <4>2. "atm_sensor" \notin Messengers
        BY MessengerNames, PartNames
      <4> QED
        BY <4>1, <4>2 DEF Synced, Entry
    <3>2. CASE Read
      BY <3>2, SyncedEntries DEF Read
    <3> QED
      BY <1>1, <3>1, <3>2 DEF Ensure, Clear, ConfigureRelays
  <2>3. ~manager.made
    BY <2>1, PartNames DEF ToggleInv
  <2> QED
    BY <2>1, <2>2, <2>3, TogglesStay
<1>2. CASE Register
  <2> DEFINE wanted == Base \cup {n \in Hardware : Wanted(cfg, n)}
  <2>1. PICK garbage \in BOOLEAN :
          manager' = Asked(Registered(manager, wanted \cup Messengers, garbage),
                           [n \in wanted |-> TRUE])
    BY <1>2 DEF Register
  <2>2. /\ wanted \subseteq Base \cup Hardware /\ main = "register" /\ main' = "begin"
        /\ UNCHANGED <<nvs, asked, flaws>>
    BY <1>2 DEF Register
  <2> HIDE DEF wanted
  <2>3. /\ manager'.enabled = [n \in wanted \cup Messengers |-> garbage]
        /\ manager'.initial = [n \in wanted |-> TRUE] /\ manager'.made = manager.made
    BY <1>0, <2>1 DEF Asked, Registered, ManagerRight, NewManager
  <2>4. ~manager.made
    BY <2>2, PartNames DEF ToggleInv
  <2>5. DOMAIN manager'.initial \cap Messengers = {} /\ Messengers \subseteq DOMAIN manager'.enabled
    BY <2>2, <2>3, MessengerNames
  <2> QED
    BY <2>2, <2>3, <2>4, <2>5, PartNames DEF ToggleInv, Names, Undisturbed, Entry
<1>3. CASE Begin
  <2>1. /\ main = "begin" /\ main' = "atm_sensor" /\ UNCHANGED <<nvs, asked, flaws>>
        /\ manager'.enabled = [n \in Names(manager) |-> Target(manager, nvs, n)]
        /\ manager'.initial = manager.initial /\ manager'.made = TRUE
    BY <1>0, <1>3 DEF Begin, Initialized, ManagerRight, NewManager
  <2>2. \A n \in Messengers : manager'.enabled[n] = Entry(nvs, n)
    BY <2>1 DEF ToggleInv, Target, Entry
  <2> QED
    BY <2>1, <2>2, PartNames DEF ToggleInv, Names, Undisturbed, Entry
<1>4. CASE EnableNext
  <2>1. /\ main \in Hardware /\ main' \in Hardware \cup {"collect"} /\ UNCHANGED <<asked, flaws>>
    BY <1>4, PartNames DEF EnableNext, Following
  <2>2. CASE UNCHANGED <<manager, nvs>>
    BY <2>1, <2>2, PartNames DEF ToggleInv, Names, Undisturbed, Entry
  <2>3. CASE ~UNCHANGED <<manager, nvs>>
    <3>1. PICK on \in BOOLEAN : manager' = Marked(manager, main, on)
                                  /\ nvs' \in {nvs, Collected(manager')}
      BY <1>4, <2>3 DEF EnableNext, Enables, Fails
    <3>2. /\ manager'.enabled = [manager.enabled EXCEPT ![main] = on]
          /\ manager'.initial = manager.initial /\ manager'.made = manager.made
      BY <1>0, <3>1 DEF Marked, ManagerRight, NewManager
    <3>3. main \notin Messengers /\ manager.made
      BY <2>1, MessengerNames DEF ToggleInv
    <3>4. \A n \in Messengers : n \in DOMAIN manager.enabled /\ n \in DOMAIN manager'.enabled
                                  /\ manager'.enabled[n] = manager.enabled[n]
      BY <3>2, <3>3 DEF ToggleInv, Names
    <3>5. \A n \in Messengers : Undisturbed => Entry(nvs', n) = manager'.enabled[n]
      <4>1. CASE nvs' = nvs
        BY <3>3, <3>4, <4>1 DEF ToggleInv, Entry
      <4>2. CASE nvs' = manager'.enabled
        <5>1. OnOff(manager'.enabled)
          BY <1>0, <3>1, MarkedRight DEF ManagerRight
        <5> QED
          BY <3>4, <4>2, <5>1 DEF Entry, OnOff
      <4> QED
        BY <3>1, <4>1, <4>2 DEF Collected
    <3>6. \A n \in Messengers : Undisturbed /\ asked[n] # None => Entry(nvs', n) = asked[n]
      BY <3>3, <3>4, <3>5 DEF ToggleInv
    <3> QED
      BY <2>1, <3>2, <3>3, <3>4, <3>5, <3>6, PartNames DEF ToggleInv, Names, Undisturbed
  <2> QED
    BY <2>2, <2>3
<1>5. CASE Collect
  <2>1. /\ main = "collect" /\ main' = "save" /\ UNCHANGED <<nvs, asked, flaws>>
        /\ manager'.enabled = manager.enabled /\ manager'.initial = manager.initial
        /\ manager'.made = manager.made /\ manager'.collected = manager.enabled
    BY <1>0, <1>5 DEF Collect, Collected, ManagerRight, NewManager
  <2> QED
    BY <2>1, PartNames DEF ToggleInv, Names, Undisturbed, Entry
<1>6. CASE SaveConfig
  <2>1. /\ main = "save" /\ main' = "up" /\ UNCHANGED <<manager, asked, flaws>>
        /\ nvs' = manager.collected
    BY <1>6 DEF SaveConfig
  <2>2. manager.made
    BY <2>1 DEF ToggleInv
  <2>3. \A n \in Messengers : Undisturbed => Entry(nvs', n) = manager.enabled[n]
    BY <1>0, <2>1 DEF ToggleInv, Entry, ManagerRight, OnOff
  <2>4. \A n \in Messengers : Undisturbed /\ asked[n] # None => Entry(nvs', n) = asked[n]
    BY <2>2, <2>3 DEF ToggleInv
  <2> QED
    BY <2>1, <2>2, <2>3, <2>4, PartNames DEF ToggleInv, Names, Undisturbed
<1> QED
  BY <1>1, <1>2, <1>3, <1>4, <1>5, <1>6 DEF Start

LEMMA ToggleRequest ==
  ASSUME TypeOK, ToggleInv,
         \/ \E body \in Bodies : PutHardwareConfig(body)
         \/ \E i \in 1 .. MaxSensors, low \in BOOLEAN : Calibrate(i, low)
         \/ WriteFile
         \/ \E n \in Toggles, on \in BOOLEAN : Toggle(n, on)
         \/ Restart
  PROVE  ToggleInv'
<1>0. ManagerRight(manager) /\ OnOff(nvs)
  BY TypeParts
<1>1. CASE \E body \in Bodies : PutHardwareConfig(body)
  <2>1. /\ UNCHANGED <<manager, asked, main>> /\ Undisturbed' = Undisturbed
        /\ \E d : nvs' = SyncedNvs(nvs, cfg, d)
    BY <1>1 DEF PutHardwareConfig, Changes, Undisturbed
  <2>2. \A n \in Messengers : Entry(nvs', n) = Entry(nvs, n)
    BY <2>1, SyncedEntries
  <2> QED
    BY <2>1, <2>2 DEF ToggleInv
<1>2. CASE \E i \in 1 .. MaxSensors, low \in BOOLEAN : Calibrate(i, low)
  <2>1. PICK i \in 1 .. MaxSensors, low \in BOOLEAN : Calibrate(i, low)
    BY <1>2
  <2>2. UNCHANGED <<manager, asked, flaws, main>>
    BY <2>1 DEF Calibrate
  <2>3. \E d : nvs' = SyncedNvs(nvs, cfg, d)
    BY <2>1, Zenon DEF Calibrate, Changes
  <2>4. \A n \in Messengers : Entry(nvs', n) = Entry(nvs, n)
    BY <2>3, SyncedEntries
  <2> QED
    BY <2>2, <2>4, TogglesStay
<1>3. CASE WriteFile
  <2>1. UNCHANGED <<manager, asked, nvs, main>> /\ flaws \subseteq flaws'
    BY <1>3 DEF WriteFile, Written
  <2> QED
    BY <2>1, TogglesStay DEF Entry
<1>4. CASE \E n \in Toggles, on \in BOOLEAN : Toggle(n, on)
  <2>1. PICK n \in Toggles, on \in BOOLEAN : Toggle(n, on)
    BY <1>4
  <2>2. CASE main = "save" \/ ~manager.made
    <3>1. ~Undisturbed' /\ UNCHANGED main
      BY <2>1, <2>2 DEF Toggle, Undisturbed
    <3>2. UNCHANGED manager \/ \E mark \in BOOLEAN : manager' = Marked(manager, n, mark)
      BY <2>1 DEF Toggle, Enables, Fails
    <3>3. /\ DOMAIN manager'.enabled = DOMAIN manager.enabled
          /\ manager'.initial = manager.initial /\ manager'.made = manager.made
      BY <1>0, <3>2 DEF Marked, ManagerRight, NewManager
    <3>4. DOMAIN asked' = Messengers
      BY <2>1 DEF Toggle, ToggleInv
    <3> QED
      BY <3>1, <3>3, <3>4 DEF ToggleInv, Names
  <2>3. CASE main # "save" /\ manager.made
    <3>1. /\ Accepted(manager, n, on) /\ UNCHANGED <<main, flaws>>
          /\ asked' = IF n \in Messengers THEN [asked EXCEPT ![n] = on] ELSE asked
      BY <2>1, <2>3 DEF Toggle
    <3>2. \A m \in Messengers : m \in DOMAIN manager.enabled
      BY <2>3 DEF ToggleInv, Names
    <3>3. DOMAIN asked' = Messengers
            /\ \A m \in Messengers : asked'[m] = IF m = n THEN on ELSE asked[m]
      BY <3>1 DEF ToggleInv
    <3>4. CASE ~Calls(manager, n, on)
      <4>1. UNCHANGED <<manager, nvs>>
        BY <2>1, <3>4 DEF Toggle
      <4>2. n \in Messengers => manager.enabled[n] = on
        BY <1>0, <3>2, <3>4 DEF Calls, Names, ManagerRight, OnOff
      <4>3. \A m \in Messengers : Undisturbed' /\ asked'[m] # None => Entry(nvs', m) = asked'[m]
        BY <2>3, <3>1, <3>3, <4>1, <4>2 DEF ToggleInv, Entry, Undisturbed
      <4> QED
        BY <2>3, <3>1, <4>1, <4>3 DEF ToggleInv, Names, Entry, Undisturbed
    <3>5. CASE Calls(manager, n, on)
      <4>1. PICK mark \in BOOLEAN : /\ manager' = Marked(manager, n, mark)
                                    /\ nvs' = Collected(manager')
                                    /\ n \in Messengers => mark = on
        BY <2>1, <3>5, MessengerNames DEF Toggle, Enables, Fails
      <4>2. /\ manager'.enabled = [manager.enabled EXCEPT ![n] = mark]
            /\ manager'.initial = manager.initial /\ manager'.made = manager.made
        BY <1>0, <4>1 DEF Marked, ManagerRight, NewManager
      <4>3. \A m \in Messengers : /\ m \in DOMAIN manager'.enabled
                                  /\ manager'.enabled[m] = IF m = n THEN on ELSE manager.enabled[m]
        BY <3>2, <4>1, <4>2
      <4>4. \A m \in Messengers : Entry(nvs', m) = manager'.enabled[m]
        BY <1>0, <3>2, <4>1, <4>3 DEF Entry, Collected, ManagerRight, OnOff
      <4>5. \A m \in Messengers : Undisturbed' /\ asked'[m] # None => Entry(nvs', m) = asked'[m]
        <5> SUFFICES ASSUME NEW m \in Messengers, Undisturbed', asked'[m] # None
                     PROVE  Entry(nvs', m) = asked'[m]
          OBVIOUS
        <5>1. CASE m = n
          BY <3>1, <3>3, <4>3, <4>4, <5>1
        <5>2. CASE m # n
          BY <2>3, <3>1, <3>3, <4>3, <4>4, <5>2 DEF ToggleInv, Undisturbed
        <5> QED
          BY <5>1, <5>2
      <4> QED
        BY <2>3, <3>1, <4>2, <4>3, <4>4, <4>5 DEF ToggleInv, Names
    <3> QED
      BY <3>4, <3>5
  <2> QED
    BY <2>2, <2>3
<1>5. CASE Restart
  <2>1. /\ manager' = NewManager /\ main' = "ensure" /\ UNCHANGED <<nvs, asked>>
        /\ Undisturbed' = Undisturbed
    BY <1>5 DEF Restart, Undisturbed
  <2>2. ~manager'.made /\ DOMAIN manager'.initial = {} /\ main' \notin Hardware \cup {"begin"}
          /\ main' \notin {"collect", "save"}
    BY <2>1, PartNames DEF NewManager
  <2>3. \A n \in Messengers : Undisturbed' /\ asked'[n] # None => Entry(nvs', n) = asked'[n]
    BY <2>1 DEF ToggleInv, Undisturbed, Entry
  <2> QED
    BY <2>1, <2>2, <2>3 DEF ToggleInv
<1> QED
  BY <1>1, <1>2, <1>3, <1>4, <1>5

\* A messenger starts as the user has left it, though hardware settings, start and toggles of
\* other subsystems write the same object of NVS (SubsystemManager::saveConfig, syncSubsystemNvs).
THEOREM TogglesAreKept == Spec => []TogglesKept
<1>1. Init => ToggleInv
  BY PartNames DEF Init, NewManager, ToggleInv, Names, Undisturbed
<1>2. TypeOK /\ ToggleInv /\ [Next]_vars => ToggleInv'
  <2> SUFFICES ASSUME TypeOK, ToggleInv, [Next]_vars
               PROVE  ToggleInv'
    OBVIOUS
  <2>1. CASE Start
    BY <2>1, ToggleStart
  <2>2. CASE UNCHANGED vars
    BY <2>2, TogglesStay DEF vars, Entry
  <2> QED
    BY <2>1, <2>2, ToggleRequest DEF Next
<1>3. TypeOK /\ ToggleInv => TogglesKept
  <2> SUFFICES ASSUME TypeOK, ToggleInv, NEW n \in Messengers, asked[n] # None, Undisturbed
               PROVE  Target(NewManager, nvs, n) = asked[n]
    BY DEF TogglesKept, Undisturbed
  <2>1. Target(NewManager, nvs, n) = Entry(nvs, n)
    BY DEF Target, NewManager, Entry
  <2> QED
    BY <2>1 DEF ToggleInv
<1> QED
  BY <1>1, <1>2, <1>3, HardwareTypeCorrect, PTL DEF Spec

-----------------------------------------------------------------------------
(* What was saved is loaded again.                                         *)

\* The file holds what the last request has saved, and what was loaded is that.
KeptInv ==
  /\ writing => Serving
  /\ kept # None /\ "lost write" \notin flaws /\ ~Shadowed(kept) =>
        /\ main # "defaults"
        /\ SettingsRight(file) /\ Settings(file) = Settings(kept)
        /\ main \notin {"ensure", "read"} /\ ~writing => Settings(cfg) = Settings(kept)

LEMMA SettingsTell ==
  ASSUME NEW c, NEW d
  PROVE  Settings(c) = Settings(d) <=>
           /\ \A k \in Keys \ {"xkc25Sensors"} : c[k] = d[k]
           /\ DOMAIN c["xkc25Sensors"] = DOMAIN d["xkc25Sensors"]
           /\ \A i \in DOMAIN c["xkc25Sensors"], f \in {"enabled", "input", "zone", "shared"} :
                 c["xkc25Sensors"][i][f] = d["xkc25Sensors"][i][f]
<1> DEFINE told(e) == [i \in DOMAIN e["xkc25Sensors"] |->
                          [f \in {"enabled", "input", "zone", "shared"} |-> e["xkc25Sensors"][i][f]]]
           look(e) == [k \in Keys |-> IF k = "xkc25Sensors" THEN told(e) ELSE e[k]]
<1>1. Settings(c) = look(c) /\ Settings(d) = look(d)
  BY DEF Settings
<1>2. "xkc25Sensors" \in Keys
  BY DEF Keys, Lists
<1>3. look(c) = look(d) <=> /\ \A k \in Keys \ {"xkc25Sensors"} : c[k] = d[k]
                            /\ told(c) = told(d)
  <2> HIDE DEF told
  <2> QED
    BY <1>2
<1>4. told(c) = told(d) <=>
        /\ DOMAIN c["xkc25Sensors"] = DOMAIN d["xkc25Sensors"]
        /\ \A i \in DOMAIN c["xkc25Sensors"], f \in {"enabled", "input", "zone", "shared"} :
              c["xkc25Sensors"][i][f] = d["xkc25Sensors"][i][f]
  <2>1. ASSUME told(c) = told(d)
        PROVE  /\ DOMAIN c["xkc25Sensors"] = DOMAIN d["xkc25Sensors"]
               /\ \A i \in DOMAIN c["xkc25Sensors"], f \in {"enabled", "input", "zone", "shared"} :
                     c["xkc25Sensors"][i][f] = d["xkc25Sensors"][i][f]
    <3>1. DOMAIN told(c) = DOMAIN c["xkc25Sensors"] /\ DOMAIN told(d) = DOMAIN d["xkc25Sensors"]
      OBVIOUS
    <3>2. \A i \in DOMAIN c["xkc25Sensors"] : told(c)[i] = told(d)[i]
      BY <2>1
    <3> QED
      BY <2>1, <3>1, <3>2
  <2> QED
    BY <2>1
<1> HIDE DEF look, told
<1> QED
  BY <1>1, <1>3, <1>4

LEMMA ShadowSame ==
  ASSUME NEW c, NEW d, Settings(c) = Settings(d), Shadowed(c)
  PROVE  Shadowed(d)
<1>1. /\ c["relayPcf8574Addresses"] = d["relayPcf8574Addresses"]
      /\ DOMAIN c["xkc25Sensors"] = DOMAIN d["xkc25Sensors"]
      /\ \A i \in DOMAIN c["xkc25Sensors"] : c["xkc25Sensors"][i].input = d["xkc25Sensors"][i].input
  <2>1. "relayPcf8574Addresses" \in Keys \ {"xkc25Sensors"}
    BY DEF Keys, Lists
  <2> QED
    BY <2>1, SettingsTell
<1>2. PICK i \in DOMAIN c["xkc25Sensors"] :
         /\ OnPcf(c["xkc25Sensors"][i])
         /\ c["xkc25Sensors"][i].input[2] \in Range(c["relayPcf8574Addresses"])
  BY DEF Shadowed, Range
<1> QED
  BY <1>1, <1>2 DEF Shadowed, OnPcf, Range

\* A file of right settings passes the check before it is loaded.
LEMMA RightLooksValid ==
  ASSUME NEW f, SettingsRight(f)
  PROVE  LooksValid(f) /\ Parsable(f)
<1>1. Parsable(f)
  BY RightIsTyped, MarksAssumption DEF Parsable
<1>2. \A k \in Addressed \cup Lists : Given(f, k)
  BY KeyNames DEF SettingsRight, Given
<1>3. "bmp581I2cAddress" \in Addressed /\ {"relayPcf8574Addresses", "xkc25Sensors"} \subseteq Lists
  BY DEF Addressed, Lists
<1> QED
  BY <1>1, <1>2, <1>3 DEF LooksValid, SettingsRight, SensorsFit

\* Nothing in it is refused, unless a sensor is in the shadow of the relays.
LEMMA RightAccepted ==
  ASSUME NEW f, SettingsRight(f), ~Shadowed(f)
  PROVE  ~Refused(Default, f)
<1>1. \A k \in DOMAIN f : f[k] # Wrong
  <2>1. DOMAIN f = AllKeys /\ \A k \in Flags \cup {"pendingReboot"} : f[k] # Wrong
    BY MarksAssumption DEF SettingsRight
  <2>2. \A k \in Addressed \cup Numbers : f[k] # Wrong
    <3>1. \A n : IsAddress(n) \/ n \in 0 .. 2 => n \in Int
      BY DEF IsAddress
    <3> QED
      BY <3>1, MarksAssumption DEF SettingsRight
  <2>3. \A k \in Lists : f[k] # Wrong
    BY MarksAssumption, KeyNames DEF SettingsRight, SensorsFit
  <2> QED
    BY <2>1, <2>2, <2>3, KeyNames
<1>2. Default["xkc25Sensors"] = << >>
  BY DefaultWhole
<1>3. Relays(Default, f) = f["relayPcf8574Addresses"]
  BY KeyNames DEF Relays, Given, SettingsRight
<1>4. ~SensorsRefused(f["xkc25Sensors"], f["relayPcf8574Addresses"])
  BY DEF SensorsRefused, Shadowed, SettingsRight, SensorsFit
<1> QED
  BY <1>1, <1>2, <1>3, <1>4 DEF Refused, SettingsRight

\* Loaded over the defaults it gives the same settings.
LEMMA RightLoaded ==
  ASSUME NEW f, SettingsRight(f), ~Shadowed(f)
  PROVE  Settings(Updated(Default, f)) = Settings(f)
<1> DEFINE m == Merged(Default, f)
           r == [m EXCEPT !["pendingReboot"] = TRUE]
           sensors == f["xkc25Sensors"]
<1>1. DOMAIN m = AllKeys /\ \A k \in AllKeys : Given(f, k)
  BY DefaultWhole DEF Merged, SettingsRight, Given
<1>2. \A k \in Flags \cup Addressed \cup Numbers : m[k] = f[k]
  <2> SUFFICES ASSUME NEW k \in Flags \cup Addressed \cup Numbers
               PROVE  m[k] = f[k]
    OBVIOUS
  <2>1. k \in AllKeys /\ k \in Keys \ Lists /\ k # "pendingReboot" /\ Given(f, k)
          /\ k # "relayPcf8574Addresses" /\ k # "xkc25Sensors"
    BY <1>1, KeyNames DEF Keys
  <2> QED
    BY <2>1, DefaultWhole DEF Merged, Guard
<1>3. m["relayPcf8574Addresses"] = f["relayPcf8574Addresses"]
  BY <1>1, KeyNames, DefaultWhole DEF Merged, Relays
<1>4. m["xkc25Sensors"] = [i \in DOMAIN sensors |-> Slot(sensors[i], i, << >>)]
  BY <1>1, KeyNames, DefaultWhole DEF Merged
<1>5. sensors \in Seq(SensorType)
  BY DEF SettingsRight, SensorsFit
<1> HIDE DEF m, sensors
<1>6. /\ DOMAIN m["xkc25Sensors"] = DOMAIN sensors
      /\ \A i \in DOMAIN sensors, g \in {"enabled", "input", "zone", "shared"} :
            m["xkc25Sensors"][i][g] = sensors[i][g]
  <2>1. \A i \in DOMAIN sensors : i \in Nat \ {0} /\ sensors[i] \in SensorType
    BY <1>5
  <2>2. << >> \in Seq(SensorType)
    OBVIOUS
  <2> SUFFICES /\ DOMAIN m["xkc25Sensors"] = DOMAIN sensors
               /\ \A i \in DOMAIN sensors : \A g \in {"enabled", "input", "zone", "shared"} :
                     m["xkc25Sensors"][i][g] = sensors[i][g]
    OBVIOUS
  <2>3. DOMAIN m["xkc25Sensors"] = DOMAIN sensors
    BY <1>4
  <2>4. ASSUME NEW i \in DOMAIN sensors
        PROVE  \A g \in {"enabled", "input", "zone", "shared"} :
                  m["xkc25Sensors"][i][g] = sensors[i][g]
    <3>1. m["xkc25Sensors"][i] = Slot(sensors[i], i, << >>)
      BY <1>4
    <3>2. /\ Slot(sensors[i], i, << >>).enabled = sensors[i].enabled
          /\ Slot(sensors[i], i, << >>).input = sensors[i].input
          /\ Slot(sensors[i], i, << >>).zone = sensors[i].zone
          /\ Slot(sensors[i], i, << >>).shared = sensors[i].shared
      BY <2>1, <2>2, SlotSame
    <3> QED
      BY <3>1, <3>2
  <2> QED
    BY <2>3, <2>4
<1>7. Settings(m) = Settings(f)
  <2>1. \A k \in Keys \ {"xkc25Sensors"} : m[k] = f[k]
    BY <1>2, <1>3, KeyNames DEF Keys
  <2> QED
    BY <1>6, <2>1, SettingsTell DEF sensors
<1>8. Settings(r) = Settings(m)
  <2>1. DOMAIN r = AllKeys /\ \A k \in Keys : r[k] = m[k]
    BY <1>1, KeyNames DEF AllKeys, Keys
  <2>2. "xkc25Sensors" \in Keys
    BY DEF Keys, Lists
  <2> HIDE DEF r
  <2> QED
    BY <2>1, <2>2, SettingsTell
<1>9. Updated(Default, f) \in {m, r}
  BY RightAccepted, Zenon DEF Updated, m
<1> QED
  BY <1>7, <1>8, <1>9

LEMMA CfgRightNext ==
  ASSUME TypeOK'
  PROVE  SettingsRight(cfg')
BY RightIsTyped DEF TypeOK, SensorsFit, SettingsType

LEMMA PendingAside ==
  ASSUME NEW c, DOMAIN c = AllKeys
  PROVE  Settings([c EXCEPT !["pendingReboot"] = FALSE]) = Settings(c)
<1> DEFINE d == [c EXCEPT !["pendingReboot"] = FALSE]
<1>1. \A k \in Keys : d[k] = c[k]
  BY KeyNames DEF AllKeys, Keys
<1>2. "xkc25Sensors" \in Keys
  BY DEF Keys, Lists
<1> HIDE DEF d
<1>3. Settings(d) = Settings(c)
  BY <1>1, <1>2, SettingsTell
<1> QED
  BY <1>3 DEF d

\* A step that leaves the file, what was saved and the settings alone, and starts nothing anew.
LEMMA KeptStays ==
  ASSUME KeptInv, UNCHANGED <<cfg, file, kept>>, "lost write" \in flaws => "lost write" \in flaws',
         main \in {"ensure", "read"} => main' = main, main' \notin {"defaults"} \/ main' = main,
         writing' => Serving', writing /\ ~writing' => FALSE
  PROVE  KeptInv'
BY DEF KeptInv

LEMMA KeptStart ==
  ASSUME TypeOK, TypeOK', SettingsInv, KeptInv, Start
  PROVE  KeptInv'
<1>0. UNCHANGED <<writing, kept>>
  BY DEF Start, Ensure, Defaults, Read, Clear, ConfigureRelays, Register, Begin, EnableNext,
         Collect, SaveConfig
<1>1. CASE Ensure
  <2>1. main = "ensure" /\ ~Serving /\ UNCHANGED <<cfg, flaws>>
    BY <1>1 DEF Ensure, Serving
  <2>2. ASSUME kept # None, "lost write" \notin flaws, ~Shadowed(kept)
        PROVE  main' = "read" /\ UNCHANGED file
    BY <1>1, <2>2, RightLooksValid DEF Ensure, KeptInv
  <2> QED
    BY <1>0, <2>1, <2>2 DEF KeptInv
<1>2. CASE Defaults
  <2>1. main = "defaults" /\ ~Serving /\ flaws \subseteq flaws'
    BY <1>2 DEF Defaults, Serving
  <2> QED
    BY <1>0, <2>1 DEF KeptInv, Shadowed
<1>3. CASE Read
  <2>1. main = "read" /\ main' = "clear" /\ ~Serving /\ cfg = Default
    BY <1>3 DEF Read, Serving, SettingsInv
  <2>2. "lost write" \in flaws => "lost write" \in flaws'
    BY <1>3 DEF Read, Written
  <2>3. ASSUME kept # None, "lost write" \notin flaws, ~Shadowed(kept)
        PROVE  SettingsRight(file') /\ Settings(file') = Settings(kept) /\ Settings(cfg') = Settings(kept)
    <3>1. SettingsRight(file) /\ Settings(file) = Settings(kept)
      BY <2>3 DEF KeptInv
    <3>2. ~Shadowed(file)
      BY <2>3, <3>1, ShadowSame
    <3>3. cfg' = Updated(Default, file) /\ file' = file
      BY <1>3, <2>1, <3>1, RightLooksValid DEF Read
    <3> QED
      BY <3>1, <3>2, <3>3, RightLoaded
  <2>4. ~writing'
    BY <1>0, <2>1 DEF KeptInv
  <2>5. kept' # None /\ "lost write" \notin flaws' /\ ~Shadowed(kept)' =>
           SettingsRight(file') /\ Settings(file') = Settings(kept') /\ Settings(cfg') = Settings(kept')
    BY <1>0, <2>2, <2>3 DEF Shadowed
  <2> QED
    BY <2>1, <2>4, <2>5 DEF KeptInv
<1>4. CASE Clear
  <2>1. /\ main = "clear" /\ main' = "relays" /\ ~Serving
        /\ cfg' = [cfg EXCEPT !["pendingReboot"] = FALSE]
        /\ Written(cfg') \/ UNCHANGED <<file, flaws>>
    BY <1>4 DEF Clear, Serving
  <2>2. Settings(cfg') = Settings(cfg) /\ SettingsRight(cfg')
    <3>1. DOMAIN cfg = AllKeys
      BY TypeParts DEF SettingsRight
    <3> QED
      BY <2>1, <3>1, PendingAside, CfgRightNext
  <2>3. ~writing /\ ~writing'
    BY <1>0, <2>1 DEF KeptInv
  <2>4. ASSUME kept # None, "lost write" \notin flaws', ~Shadowed(kept)
        PROVE  SettingsRight(file') /\ Settings(file') = Settings(kept) /\ Settings(cfg') = Settings(kept)
    <3>1. "lost write" \notin flaws /\ file' \in {file, cfg'}
      BY <2>1, <2>4 DEF Written
    <3>2. SettingsRight(file) /\ Settings(file) = Settings(kept) /\ Settings(cfg) = Settings(kept)
      BY <2>1, <2>3, <2>4, <3>1 DEF KeptInv
    <3> QED
      BY <2>2, <3>1, <3>2
  <2>5. kept' # None /\ "lost write" \notin flaws' /\ ~Shadowed(kept)' =>
           SettingsRight(file') /\ Settings(file') = Settings(kept') /\ Settings(cfg') = Settings(kept')
    BY <1>0, <2>4 DEF Shadowed
  <2> QED
    BY <2>1, <2>3, <2>5 DEF KeptInv
<1>5. CASE \/ ConfigureRelays \/ Register \/ Begin \/ EnableNext \/ Collect \/ SaveConfig
  <2>1. UNCHANGED <<cfg, file, flaws>>
    BY <1>5 DEF ConfigureRelays, Register, Begin, EnableNext, Collect, SaveConfig
  <2>2. main \notin {"ensure", "defaults", "read", "clear"}
    BY <1>5, PartNames DEF ConfigureRelays, Register, Begin, EnableNext, Collect, SaveConfig
  <2>3. Serving'
    BY <1>5, PartNames DEF ConfigureRelays, Register, Begin, EnableNext, Collect, SaveConfig,
                           Following, Serving
  <2> QED
    BY <1>0, <2>1, <2>2, <2>3, KeptStays DEF Serving
<1> QED
  BY <1>1, <1>2, <1>3, <1>4, <1>5 DEF Start

LEMMA KeptRequest ==
  ASSUME TypeOK, KeptInv,
         \/ \E body \in Bodies : PutHardwareConfig(body)
         \/ \E i \in 1 .. MaxSensors, low \in BOOLEAN : Calibrate(i, low)
         \/ WriteFile
         \/ \E n \in Toggles, on \in BOOLEAN : Toggle(n, on)
         \/ Restart
  PROVE  KeptInv'
<1>1. ASSUME Serving, writing', UNCHANGED <<main, file, kept>>,
             "lost write" \in flaws => "lost write" \in flaws'
      PROVE  KeptInv'
  BY <1>1 DEF KeptInv, Serving
<1>2. CASE \E body \in Bodies : PutHardwareConfig(body)
  BY <1>1, <1>2 DEF PutHardwareConfig, Changes
<1>3. CASE \E i \in 1 .. MaxSensors, low \in BOOLEAN : Calibrate(i, low)
  <2>1. Serving /\ UNCHANGED <<main, file, kept, flaws>>
    BY <1>3 DEF Calibrate
  <2>2. writing'
    BY <1>3, Zenon DEF Calibrate, Changes
  <2> QED
    BY <1>1, <2>1, <2>2
<1>4. CASE WriteFile
  <2>1. /\ writing /\ ~writing' /\ Written(cfg) /\ UNCHANGED <<cfg, main>>
        /\ kept' = IF file' = cfg THEN cfg ELSE kept
    BY <1>4 DEF WriteFile
  <2>2. Serving
    BY <2>1 DEF KeptInv
  <2>3. SettingsRight(cfg)
    BY TypeParts
  <2>4. ASSUME "lost write" \notin flaws'
        PROVE  SettingsRight(file') /\ Settings(file') = Settings(kept') /\ Settings(cfg') = Settings(kept')
    <3>1. file' = cfg /\ kept' = cfg /\ cfg' = cfg
      BY <2>1, <2>4 DEF Written
    <3> QED
      BY <2>3, <3>1
  <2> QED
    BY <2>1, <2>2, <2>4 DEF KeptInv, Serving
<1>5. CASE \E n \in Toggles, on \in BOOLEAN : Toggle(n, on)
  <2>1. UNCHANGED <<cfg, file, main, writing, kept>> /\ flaws \subseteq flaws'
    BY <1>5 DEF Toggle
  <2> QED
    BY <2>1, KeptStays DEF KeptInv, Serving
<1>6. CASE Restart
  <2>1. /\ main' = "ensure" /\ ~writing' /\ UNCHANGED <<file, kept>>
        /\ "lost write" \in flaws => "lost write" \in flaws'
    BY <1>6 DEF Restart
  <2> QED
    BY <2>1 DEF KeptInv, Shadowed
<1> QED
  BY <1>2, <1>3, <1>4, <1>5, <1>6

\* What a request has saved is what the device works with until the next one, over every restart,
\* unless a write failed (OpenConnectHardwareConfig::update, FSPersistence, the migration's check
\* of the file): nothing that update() has accepted is refused when it is loaded again.
THEOREM SettingsAreKept == Spec => []SettingsKept
<1>1. Init => KeptInv
  BY DEF Init, KeptInv
<1>2. TypeOK /\ TypeOK' /\ SettingsInv /\ KeptInv /\ [Next]_vars => KeptInv'
  <2> SUFFICES ASSUME TypeOK, TypeOK', SettingsInv, KeptInv, [Next]_vars
               PROVE  KeptInv'
    OBVIOUS
  <2>1. CASE Start
    BY <2>1, KeptStart
  <2>2. CASE UNCHANGED vars
    BY <2>2, KeptStays DEF vars, KeptInv, Serving
  <2> QED
    BY <2>1, <2>2, KeptRequest DEF Next
<1>3. KeptInv => SettingsKept
  <2> SUFFICES ASSUME KeptInv, Serving, ~writing, kept # None, flaws \cap {"lost write"} = {},
                      ~Shadowed(kept)
               PROVE  Settings(cfg) = Settings(kept)
    BY DEF SettingsKept
  <2> QED
    BY DEF KeptInv, Serving
<1> QED
  BY <1>1, <1>2, <1>3, HardwareTypeCorrect, SettingsHold, PTL DEF Spec
=============================================================================
