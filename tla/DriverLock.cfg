SPECIFICATION Spec
CONSTANTS
    Tasks = {t1, t2}
    Nobody = Nobody
    NoDriver = NoDriver
    Drivers <- MCDrivers
    Inline <- MCInline
    Pins <- MCPins
    Open <- MCOpen
    Setups <- MCSetups
INVARIANT TypeOK
INVARIANT PinsAreExclusive
INVARIANT RefusalsAreJustified
INVARIANT UsedPinsAreHeld
PROPERTY LocksAreKept
PROPERTY SetupsEnd
