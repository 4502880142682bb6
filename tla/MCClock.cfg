SPECIFICATION Spec
CONSTANTS
    LastYear = 2103
    TickMod = 5
    RT_TICK_PER_SECOND = 2
    MaxAge = 2
    Messages <- MCMessages
INVARIANTS
    TypeOK
    ShownIsOneMoment
PROPERTIES
    LandsOnRequest
    TickIsNextSecond
