SPECIFICATION FairSpec
CONSTANTS
    SIZE = 12
    Lines <- MCLines
    MaxControls = 3
    NumBuses = 1
    MaxData = 1
    SPI_MSG_LEN = 2
    MaxByte = 2
    MaxUlong = 7
    Pins <- MCPins
    SemMax = 2
    None = None
    Stuck = Stuck
    Noise = Noise
    MayRefuse = TRUE
INVARIANTS
    CommandGetsLine
    BuffersHold
    FrameIsFree
PROPERTY ConsoleReadsOn
