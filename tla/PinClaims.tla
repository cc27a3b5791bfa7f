----------------------------- MODULE PinClaims -----------------------------
(***************************************************************************)
(* The claims each driver's setup makes, in the order its code makes them: *)
(* what module DriverLock runs.  A target is a driver and a unit of it; a   *)
(* pin is a unit of the gpio driver.                                       *)
(***************************************************************************)
EXTENDS Integers, Sequences

Gpio(p) == <<"gpio", p>>
OnUnit(d, u, target) == [driver |-> d, unit |-> u, target |-> target, must |-> TRUE]
OnPin(d, u, p) == OnUnit(d, u, Gpio(p))

\* uart_lock_resources: rx, then tx, at the pins of uart_pins.
UartPins == [u \in 0 .. 2 |-> <<<<3, 1>>, <<9, 10>>, <<16, 17>>>>[u + 1]]
UartClaims(u) == [i \in 1 .. 2 |-> OnPin("uart", u, UartPins[u][i])]

\* spi_lock_resources: sdi, sdo, sck and cs, at the pins of spi_pins.
SpiPins == [u \in 1 .. 3 |->
               <<<<7, 8, 6, 11>>, <<12, 13, 14, 15>>, <<19, 23, 18, 5>>>>[u]]
SpiClaims(u) == [i \in 1 .. 4 |-> OnPin("spi", u, SpiPins[u][i])]

\* espi: miso, mosi, sclk, then the selects and the data line that are used.
EspiClaims(host, miso, mosi, sclk, others) ==
    LET pins == <<miso, mosi, sclk>> \o SelectSeq(others, LAMBDA p : p > 0)
    IN  [i \in DOMAIN pins |-> OnPin("espi", host + 1, pins[i])]

I2cClaims(u, sda, scl) == <<OnPin("i2c", u, sda), OnPin("i2c", u, scl)>>

StepperClaims(u, step, dir) == <<OnPin("stepper", u, step), OnPin("stepper", u, dir)>>

PwmClaims(channel, pin) == <<OnPin("pwm", channel, pin)>>

OwireClaims(pin) == <<OnPin("owire", pin, pin)>>

Ws2812Claims(pin) == <<OnPin("ws2812", pin, pin)>>

NzrClaims(u, gpio) == <<OnPin("nzr", u, gpio)>>

\* lmic_lock_resources after spi_init, when the power bus drives reset.
LoraClaims(spi, dio) ==
    SpiClaims(spi) \o [i \in DOMAIN dio |-> OnPin("lora", 0, dio[i])]

\* sdcard_lock_resources; the last two pins when four data lines are used.
SdcardPins(oneBit) == <<2, 13, 14, 15>> \o (IF oneBit THEN << >> ELSE <<4, 12>>)
SdcardClaims(oneBit) ==
    [i \in DOMAIN SdcardPins(oneBit) |-> OnPin("sdcrd", 1, SdcardPins(oneBit)[i])]

\* adc_setup drops the error of adc_internal_setup.
AdcPins == [c \in {0, 3, 4, 5, 6, 7} |->
               CASE c = 0 -> 36 [] c = 3 -> 39 [] c = 4 -> 32
                 [] c = 5 -> 33 [] c = 6 -> 34 [] c = 7 -> 35]
AdcClaims(c) == <<[OnPin("adc", c, AdcPins[c]) EXCEPT !.must = FALSE]>>

\* A sensor instance on an ADC channel, on a GPIO.
SensorAdcClaims(u, c) == <<OnUnit("sensor", u, <<"adc", c>>)>> \o AdcClaims(c)
SensorGpioClaims(u, gpio) == <<OnPin("sensor", u, gpio)>>
=============================================================================
