\* Three processes at one semaphore: one can overtake another that was woken.
SPECIFICATION FairSpec
CONSTANTS
    Procs = {p1, p2, p3}
    MaxSemaphores = 1
    MaxProcesses = 4
    NotAProcess = none
    Idle = idle
    Closed = closed
    ValueBound = 2
INVARIANTS TypeOK RingListsWaiters NoLostWakeup
PROPERTIES KeepsPromise PostedIsTaken
