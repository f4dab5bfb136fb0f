CONSTANTS
    Sensors = {"s1"}
    FaultKeys = {"c1", "i2c_bus"}
    SsvcKeys = {"auto_mode"}
    Webs = {"web"}
    Devices = {}
    SensorOrder <- OneSensor
    ChipOrder <- OneChip
    LinesPerChip = 3
    Readings = {20, 70}
    Settings <- OneSetting
    Stages = {"empty"}
    SettingValues <- AutoOn
    RuleFiles <- AlarmFile
    MaxNoise = 1
    MaxInputs = 1
SPECIFICATION FairSpec
PROPERTY EventsDelivered
CHECK_DEADLOCK FALSE
