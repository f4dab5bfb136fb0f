CONSTANTS
    Sensors = {"s1"}
    FaultKeys = {"c1", "i2c_bus"}
    SsvcKeys = {"auto_mode"}
    Webs = {"web"}
    Devices = {}
    SensorOrder <- OneSensor
    ChipOrder <- OneChip
    LinesPerChip = 3
    Readings = {20, 70}
    Settings <- TwoSettings
    Stages = {"empty"}
    SettingValues <- AutoOn
    RuleFiles <- AlarmFile
    MaxNoise = 1
    MaxInputs = 2
SPECIFICATION Spec
INVARIANT TypeOK RelaysRight NoAlarmForgotten
CHECK_DEADLOCK FALSE
