CONSTANTS
    Sensors = {"s1"}
    FaultKeys = {"c1", "i2c_bus", "xkc"}
    SsvcKeys = {"auto_mode"}
    Webs = {}
    Devices = {"xkc"}
    SensorOrder <- OneSensor
    ChipOrder <- OneChip
    LinesPerChip = 3
    Readings = {20, 70}
    Settings <- OneSetting
    Stages = {"empty", "heads"}
    SettingValues <- AutoOn
    RuleFiles <- MixedFile
    MaxNoise = 0
    MaxInputs = 2
SPECIFICATION FairSpec
INVARIANT SavedRulesSame
PROPERTY AlarmsTakeEffect
CHECK_DEADLOCK FALSE
