CONSTANTS
    Sensors = {"s1", "s2"}
    FaultKeys = {"c1", "i2c_bus"}
    SsvcKeys = {"auto_mode"}
    Webs = {}
    Devices = {}
    SensorOrder <- TwoSensors
    ChipOrder <- OneChip
    LinesPerChip = 3
    Readings = {20, 70}
    Settings <- OneSetting
    Stages = {"empty"}
    SettingValues <- AutoOn
    RuleFiles <- AlarmFile
    MaxNoise = 0
    MaxInputs = 4
SPECIFICATION Spec
PROPERTY AlarmLineKept
CHECK_DEADLOCK FALSE
