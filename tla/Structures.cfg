\* A ring of four places, filled up to its last one: its counter does not wrap.
\* A memory of eight of the smallest buddy blocks, and a size that wraps.
SPECIFICATION StructuresSpec
CONSTANTS
    Procs = {p1, p2}
    MaxProcesses = 4
    SizeMod = 6
    Null = null
    MemoryStart = 256
    MemoryEnd = 512
    Sizes = {16, 17, 60, 200, 1021}
    Word = 1024
    FramesBound = 3
    MinLevel = 5
    MaxOrder = 8
    HeaderSize = 16
    MIN_PHILOSOPHERS = 3
    MAX_PHILOSOPHERS = 4
    Host = host
    Gone = gone
    Table = table_sem
INVARIANTS
    QTypeOK RingShape
    NothingShared FTypeOK UsedMemoryIsHeld Partitioned NothingToJoin ReportsWhenSplit
    TypeOK NeighboursNeverEatTogether HungryHasAReason NobodyIsLeftBehind SomebodyCanGoOn
PROPERTY KeepsPromise
CHECK_DEADLOCK FALSE
