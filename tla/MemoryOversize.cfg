SPECIFICATION MSpec
CONSTANTS
    MemoryStart = 256
    MemoryEnd = 512
    Sizes = {16, 17, 60, 200, 1021}
    Word = 1024
    FramesBound = 3
    MinLevel = 5
    MaxOrder = 8
    HeaderSize = 16
INVARIANT NoOverlap
CHECK_DEADLOCK FALSE
