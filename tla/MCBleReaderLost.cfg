SPECIFICATION FairSpec
CONSTANTS
    Byte = {0, 1}
    NoByte = NoByte
    Capacity = 2
    SemMax = 2
PROPERTY
    ReceivedByteIsRead
