----------------------------- MODULE RelayRules -----------------------------
(***************************************************************************)
(* The rules of RelayRuleEngine: how they are read from the JSON of a      *)
(* profile, how they are written back, and which relay lines they          *)
(* energise.  A JSON object is a record that has some of the fields the    *)
(* code looks for; a parsed rule has all of them.                          *)
(***************************************************************************)
EXTENDS Integers, Sequences, SequencesExt

CONSTANTS
    Sensors,   \* addresses of the sensors
    FaultKeys, \* role and address of every device that reports faults
    SsvcKeys   \* the settings of the controller that a rule may name

Levels == {"NORMAL", "MIN", "DANGEROUS", "CRITICAL"}
FaultCodes == {"I2C_NACK", "I2C_BUS_DOWN", "UART_LINK_LOST"}
AnyCode == "any"

\* levelFromInt()
LevelFromInt(v) ==
    CASE v = 1 -> "MIN"
      [] v = 2 -> "DANGEROUS"
      [] v = 3 -> "CRITICAL"
      [] OTHER -> "NORMAL"

IntOfLevel(level) ==
    CASE level = "MIN" -> 1 [] level = "DANGEROUS" -> 2 [] level = "CRITICAL" -> 3

Has(json, field) == field \in DOMAIN json
Get(json, field, default) == IF Has(json, field) THEN json[field] ELSE default

\* The condition of a rule before anything is parsed into it.  A name filter is
\* the set of sensors, or of devices, whose name contains the text.
DefaultCondition ==
    [kind |-> "sensor_alarm", want |-> {}, names |-> Sensors,
     code |-> AnyCode, roles |-> FaultKeys, stage |-> "",
     key |-> "", bool |-> FALSE, int |-> 0, float |-> 0]

\* parseSensorAlarmCondition(): no list of levels means DANGEROUS and CRITICAL.  Of the
\* list itself only its members count.
ParseSensorAlarm(json) ==
    [DefaultCondition EXCEPT
        !.want = IF Has(json, "levels")
                 THEN {LevelFromInt(v) : v \in json.levels} \ {"NORMAL"}
                 ELSE {"DANGEROUS", "CRITICAL"},
        !.names = Get(json, "sensorNameContains", Sensors)]

\* parseHardwareFaultCondition()
ParseHardwareFault(json) ==
    [DefaultCondition EXCEPT !.kind = "hardware_fault",
                             !.code = Get(json, "code", AnyCode),
                             !.roles = Get(json, "roleContains", FaultKeys)]

\* parseRectificationCondition()
ParseRectification(json) ==
    [DefaultCondition EXCEPT !.kind = "rectification",
                             !.stage = Get(json, "stageEquals", "")]

\* parseSsvcSettingCondition() needs a key and one of three comparisons.
SsvcTest(json) ==
    CASE Has(json, "boolEquals") -> "bool"
      [] Has(json, "intEquals") /\ ~Has(json, "boolEquals") -> "int"
      [] Has(json, "floatEquals") /\ ~Has(json, "boolEquals") /\ ~Has(json, "intEquals") -> "float"
      [] OTHER -> "none"

SsvcAccepted(json) == Has(json, "key") /\ SsvcTest(json) # "none"

ParseSsvcSetting(json) ==
    LET base == [DefaultCondition EXCEPT !.key = json.key] IN
    CASE SsvcTest(json) = "bool" -> [base EXCEPT !.kind = "ssvc_bool", !.bool = json.boolEquals]
      [] SsvcTest(json) = "int" -> [base EXCEPT !.kind = "ssvc_int", !.int = json.intEquals]
      [] SsvcTest(json) = "float" -> [base EXCEPT !.kind = "ssvc_float", !.float = json.floatEquals]

\* parseCondition()
TypeOfCondition(json) == Get(json, "type", "sensor_alarm")

Accepted(json) ==
    \/ TypeOfCondition(json) \in {"sensor_alarm", "hardware_fault", "rectification"}
    \/ TypeOfCondition(json) = "ssvc_setting" /\ SsvcAccepted(json)

ParseCondition(json) ==
    CASE TypeOfCondition(json) = "sensor_alarm" -> ParseSensorAlarm(json)
      [] TypeOfCondition(json) = "hardware_fault" -> ParseHardwareFault(json)
      [] TypeOfCondition(json) = "rectification" -> ParseRectification(json)
      [] TypeOfCondition(json) = "ssvc_setting" -> ParseSsvcSetting(json)

\* loadRules(): a rule without a condition, or with one that is not accepted, is
\* left out.  The others keep their order, and here also their places in the array.
ParseRule(json) ==
    [enabled |-> Get(json, "enabled", TRUE), target |-> Get(json, "targetBit", 2),
     energize |-> Get(json, "actionEnergize", TRUE), priority |-> Get(json, "priority", 0),
     cond |-> ParseCondition(json.condition)]

RuleAccepted(json) == Has(json, "condition") /\ Accepted(json.condition)

ParseRules(array) ==
    LET kept == {i \in DOMAIN array : RuleAccepted(array[i])} IN
    [i \in kept |-> ParseRule(array[i])]

\* serializeToJson()
\* Mutant of LevelList: MIN is not among the levels.
LevelListAlarms(want) == {v \in {2, 3} : LevelFromInt(v) \in want}

LevelList(want) == {v \in {1, 2, 3} : LevelFromInt(v) \in want}

Optional(present, field, value) == IF present THEN [f \in {field} |-> value] ELSE [f \in {} |-> value]

Plus(a, b) == [f \in DOMAIN a \cup DOMAIN b |-> IF f \in DOMAIN a THEN a[f] ELSE b[f]]

SerializeCondition(c) ==
    CASE c.kind = "sensor_alarm" ->
            Plus([type |-> "sensor_alarm", levels |-> LevelList(c.want)],
                 Optional(c.names # Sensors, "sensorNameContains", c.names))
      [] c.kind = "hardware_fault" ->
            Plus(Plus([type |-> "hardware_fault"], Optional(c.code # AnyCode, "code", c.code)),
                 Optional(c.roles # FaultKeys, "roleContains", c.roles))
      [] c.kind = "rectification" -> [type |-> "rectification", stageEquals |-> c.stage]
      [] c.kind = "ssvc_bool" -> [type |-> "ssvc_setting", key |-> c.key, boolEquals |-> c.bool]
      [] c.kind = "ssvc_int" -> [type |-> "ssvc_setting", key |-> c.key, intEquals |-> c.int]
      [] c.kind = "ssvc_float" -> [type |-> "ssvc_setting", key |-> c.key, floatEquals |-> c.float]

SerializeRule(r) ==
    [enabled |-> r.enabled, targetBit |-> r.target, actionEnergize |-> r.energize,
     priority |-> r.priority, condition |-> SerializeCondition(r.cond)]

SerializeRules(rules) == [i \in DOMAIN rules |-> SerializeRule(rules[i])]

-----------------------------------------------------------------------------
(* Matching.  `seen` is the alarm level the engine knows of each sensor,   *)
(* `faults` the live table of AlarmMonitor, `stage` the stage of the       *)
(* rectification and `settings` the values of the controller.              *)

\* matchSensorAlarm()
MatchSensorAlarm(c, seen) == \E s \in c.names : seen[s] \in c.want

\* matchHardwareFault()
MatchHardwareFault(c, faults) ==
    \E k \in c.roles : faults[k] # "NONE" /\ c.code \in {AnyCode, faults[k]}

\* matchRectification()
MatchRectification(c, stage) == c.stage # "" /\ stage = c.stage

\* matchSsvc(): the type of the setting, not that of the comparison, decides which
\* field of the rule is compared; formula and tank_mmhg look at both.  A float is
\* its value in thousandths, so |a - b| < 0.001 is equality.
BoolKeys == {"auto_mode", "sound", "pressure", "relay_inverted", "relay_autostart",
             "autoresume", "hearts_pause", "signal_tp1_control", "signal_inverted",
             "tp1_control_start", "stab_limit_finish"}
IntKeys == {"decrement", "heads_timer", "late_heads_timer", "hearts_timer",
            "start_delay", "stab_limit_time", "release_timer"}
FloatKeys == {"hyst", "hearts_finish_temp", "formula_start_temp", "tails_temp",
              "release_speed", "hearts_temp_shift", "tp2_shift", "tp1_control_temp"}

MatchSsvc(c, settings) ==
    CASE c.key \notin SsvcKeys -> FALSE
      [] c.key = "formula" -> IF c.kind = "ssvc_int"
                              THEN settings.formula = c.int
                              ELSE (settings.formula > 0) = c.bool
      [] c.key = "tank_mmhg" -> IF c.kind = "ssvc_float"
                                THEN settings.tank_mmhg = c.float
                                ELSE (settings.tank_mmhg + 500) \div 1000 = c.int
      [] c.key \in BoolKeys -> settings[c.key] = c.bool
      [] c.key \in IntKeys -> settings[c.key] = c.int
      [] c.key \in FloatKeys -> settings[c.key] = c.float

\* conditionMatches()
Matches(c, seen, faults, stage, settings) ==
    CASE c.kind = "sensor_alarm" -> MatchSensorAlarm(c, seen)
      [] c.kind = "hardware_fault" -> MatchHardwareFault(c, faults)
      [] c.kind = "rectification" -> MatchRectification(c, stage)
      [] OTHER -> MatchSsvc(c, settings)

\* The loop of recomputeAndApply() over the rules of one line: the highest priority
\* among the matching rules wins, the first of them if there are several.
Applicable(rules, line, seen, faults, stage, settings) ==
    {i \in DOMAIN rules : /\ rules[i].enabled
                          /\ rules[i].target = line
                          /\ Matches(rules[i].cond, seen, faults, stage, settings)}

Winner(rules, candidates) ==
    CHOOSE i \in candidates : \A j \in candidates :
        \/ rules[i].priority > rules[j].priority
        \/ rules[i].priority = rules[j].priority /\ i <= j

Energised(rules, line, seen, faults, stage, settings) ==
    LET candidates == Applicable(rules, line, seen, faults, stage, settings) IN
    candidates # {} /\ rules[Winner(rules, candidates)].energize

=============================================================================
