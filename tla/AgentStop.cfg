SPECIFICATION FairSpec
CONSTANTS
    Writers = {flusher}
    Readers = {heartbeat}
    Loops = {flusher, heartbeat}
    Scheduler = scheduler
    Main = main
    Free = free
PROPERTIES
    SignalStops
CHECK_DEADLOCK FALSE
