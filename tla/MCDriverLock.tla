---------------------------- MODULE MCDriverLock ----------------------------
(***************************************************************************)
(* DriverLock for TLC.  The setups are chosen to collide: uart 2 and i2c 0 *)
(* want the same two pins in opposite orders, i2c 0 is set up again at     *)
(* other pins, the stepper wants a pin of each, and a sensor on an ADC     *)
(* channel wants the pin of a pixel strip.                                 *)
(***************************************************************************)
EXTENDS DriverLock, PinClaims, TLC

MCDrivers == {"uart", "i2c", "stepper", "sensor", "adc", "nzr"}
MCInline == {"stepper", "sensor", "nzr"}
MCPins == {Gpio(16), Gpio(17), Gpio(25), Gpio(32)}
MCOpen == {<<"adc", 4>>}
MCSetups == {
    UartClaims(2),
    I2cClaims(0, 17, 16),
    I2cClaims(0, 25, 17),
    StepperClaims(0, 25, 16),
    SensorAdcClaims(0, 4),
    NzrClaims(0, 32) }
=============================================================================
