\* As in the code, the counter wraps before the ring is full.
SPECIFICATION QSpec
CONSTANTS
    Procs = {p1, p2}
    MaxProcesses = 4
    SizeMod = 3
    Null = null
PROPERTY KeepsPromise
