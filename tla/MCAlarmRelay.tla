---------------------------- MODULE MCAlarmRelay ----------------------------
(* Small sets of sensors, chips, settings and rules for AlarmRelay.        *)
EXTENDS AlarmRelay

Normal == [enabled |-> TRUE, min |-> 10, dangerous |-> 50, critical |-> 60]
High == [enabled |-> TRUE, min |-> 10, dangerous |-> 50, critical |-> 90]

SensorRule == [targetBit |-> 2, condition |-> [type |-> "sensor_alarm"]]
FaultRule == [targetBit |-> 2, actionEnergize |-> FALSE, priority |-> 1,
              condition |-> [type |-> "hardware_fault"]]
StageRule == [targetBit |-> 2, condition |-> [type |-> "rectification", stageEquals |-> "heads"]]
SettingRule == [targetBit |-> 3, condition |-> [type |-> "ssvc_setting", key |-> "auto_mode",
                                                boolEquals |-> TRUE]]
\* A rule with every optional field, one that is disabled, and two that are not accepted.
LowRule == [targetBit |-> 3, enabled |-> FALSE,
            condition |-> [type |-> "sensor_alarm", levels |-> {1, 3},
                           sensorNameContains |-> {"s1"}]]
NackRule == [targetBit |-> 2, condition |-> [type |-> "hardware_fault", code |-> "I2C_NACK",
                                             roleContains |-> {"c1"}]]
BadRule == [targetBit |-> 2, condition |-> [type |-> "ssvc_setting", key |-> "auto_mode"]]
EmptyRule == [targetBit |-> 2]

OneSensor == <<"s1">>
TwoSensors == <<"s1", "s2">>
OneChip == <<"c1">>
AlarmFile == {<<SensorRule, FaultRule>>}
\* The relay of line 2 is on in an alarm and during the heads, and off while a device
\* fails, whatever else; line 3 has rules and no chip.
MixedFile == {<<SensorRule, StageRule, FaultRule, BadRule, LowRule, EmptyRule, SettingRule, NackRule>>}
AutoOn == {[auto_mode |-> TRUE]}
OneSetting == {Normal}
TwoSettings == {Normal, High}
=============================================================================
