SPECIFICATION Spec
CONSTANTS
    LastYear = 2103
    TickMod = 5
    RT_TICK_PER_SECOND = 2
    MaxAge = 3
    Messages <- MCMessages
PROPERTY
    SetTimeKeepsDate
