SPECIFICATION ParserSpec
CONSTANTS
    Char = {NUL, a, x, T, bracket}
    Input = {NUL, a, x, T, bracket}
    NUL = NUL
    DATA_CMD_END = a
    TimeMark = T
    Bracket = bracket
    ONE_DATA_MAXLEN = 2
    LineMax = 4
INVARIANT
    TerminatorInBuffer
