\* A sleeper is blocked and unblocked before its time.
SPECIFICATION PlainSpec
CONSTANTS
    MaxProcesses = 3
    PriorityLevels = 1
    Naps = {2}
    Outcomes = {"ok"}
    CountMod = 5
    PidBound = 3
    QueueBound = 1
INVARIANT SleepIsFinite
