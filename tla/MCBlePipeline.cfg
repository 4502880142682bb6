SPECIFICATION FairSpec
CONSTANTS
    Char = {NUL, a, x, T, bracket}
    Input = {NUL, a, x, T, bracket}
    NUL = NUL
    DATA_CMD_END = a
    TimeMark = T
    Bracket = bracket
    ONE_DATA_MAXLEN = 2
    LineMax = 3
    MbSize = 2
INVARIANTS
    TypeOK
    HandoverIntact
    SendFindsEmptyBox
    BufferHoldsLine
PROPERTY
    EveryBoxServed
