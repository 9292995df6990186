\* The idle process, the shell and one more slot, used twice; two levels; the
\* stack of a new process may be refused.
SPECIFICATION Spec
CONSTANTS
    MaxProcesses = 3
    PriorityLevels = 2
    Naps = {2}
    Outcomes = {"ok", "no stack"}
    CountMod = 5
    PidBound = 4
    QueueBound = 1
INVARIANTS TypeOK SingleRunner NoLostReady SleepEntries
PROPERTIES IdleIsLastResort NoEarlyWake
