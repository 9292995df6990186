SPECIFICATION FairSpec
CONSTANTS
    MaxSlot = 3
    MaxChildren = 2
    MaxSemaphores = 2
    PidBound = 5
    UnitBound = 2
INVARIANTS TypeOK ForegroundIsAStack SleepsForTheLiving
PROPERTIES WaitTellsTheEnd EndIsNoticed
CHECK_DEADLOCK FALSE
