\* Processes besides the shell, no failed creation, and a fair timer.
SPECIFICATION LiveSpec
CONSTANTS
    MaxProcesses = 3
    PriorityLevels = 2
    Naps = {1}
    Outcomes = {"ok"}
    CountMod = 5
    PidBound = 4
    QueueBound = 1
INVARIANT RunsOnItsFrame
PROPERTIES NoStarvation SleepersWake
