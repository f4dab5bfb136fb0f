---------------------------- MODULE MCHardware ----------------------------
EXTENDS Hardware, TLC

Sensor(on, input, zone, shared) ==
    [enabled |-> on, input |-> input, zone |-> zone, shared |-> shared,
     activeLow |-> TRUE, calibrated |-> FALSE]

\* No file, a spoilt one, one of an old version, one of another build with a sensor on pin 4.
OldFile == "bmp581I2cAddress" :> 71 @@ "relayPcf8574I2cAddress" :> 34
             @@ "xkc25BlockStartUntilCalibrated" :> TRUE @@ "pressureSensorEnabled" :> FALSE
SensorFile == [Default EXCEPT !["xkc25Sensors"] = <<Sensor(TRUE, Pin(4), 0, FALSE)>>]
MCSensorFile == {SensorFile}
MCFiles == {None, Bad, OldFile, SensorFile}

MCSaved == {NothingSaved, "atm_sensor" :> FALSE @@ "vk_bot" :> TRUE}

MCBodies ==
    {"pressureSensorEnabled" :> TRUE @@ "lcd1602Enabled" :> TRUE,
     "pressureSensorEnabled" :> FALSE,
     "bmp581I2cAddress" :> 70,
     "bmp581I2cAddress" :> 7,
     "relayPcf8574Addresses" :> <<34>>,
     "relayPcf8574Addresses" :> <<34, 36>>,
     "relayPcf8574Addresses" :> <<34, 34>>,
     "relayPcf8574I2cAddress" :> 34,
     "rtcEnabled" :> TRUE @@ "xkc25TriggerAction" :> 3,
     "xkc25StartGuardMode" :> 2, "lcd1602I2cAddress" :> Wrong,
     "xkc25Sensors" :> <<Sensor(TRUE, Bit(34, 0), 0, FALSE)>>,
     "xkc25Sensors" :> <<Sensor(FALSE, Bit(34, 0), 0, FALSE)>>,
     "xkc25Sensors" :> <<Sensor(TRUE, Pin(4), 0, TRUE)>>,
     "xkc25Sensors" :> <<Sensor(TRUE, Pin(4), 0, TRUE), Sensor(TRUE, Pin(5), 1, FALSE)>>}

Bound(puts, calibrations, toggles, restarts, faults) ==
    [puts |-> puts, calibrations |-> calibrations, toggles |-> toggles, restarts |-> restarts,
     faults |-> faults]

MCLimits == {Bound(2, 0, 0, 1, 0), Bound(1, 0, 2, 1, 0), Bound(1, 1, 0, 1, 1), Bound(1, 0, 0, 2, 1)}
MCCalibrated == {Bound(0, 1, 0, 1, 0)}
===========================================================================
