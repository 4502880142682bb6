SPECIFICATION Spec
CONSTANTS
    Byte = {0, 1}
    Zero = 0
    NoByte = NoByte
    Bufsz = 4
INVARIANTS
    TypeOK
    FlagMeansFull
PROPERTY
    ImplementsLossyFifo
