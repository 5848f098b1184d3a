SPECIFICATION FairSpec
CONSTANTS
    Writers = {w1, flusher}
    Readers = {r1}
    Loops = {flusher}
    Scheduler = scheduler
    Main = main
    Free = free
INVARIANTS
    LocksInv
    DeadlockIsBroken
PROPERTIES
    EveryoneGetsThrough
    StopsOnceHeard
CHECK_DEADLOCK FALSE
