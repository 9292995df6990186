\* A process that has ended is killed again.
SPECIFICATION Spec
CONSTANTS
    MaxProcesses = 3
    PriorityLevels = 1
    Naps = {2}
    Outcomes = {"ok"}
    CountMod = 5
    PidBound = 3
    QueueBound = 1
INVARIANT StopsOnlyWhenAlone
