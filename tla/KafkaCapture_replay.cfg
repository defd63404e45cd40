\* One session among other events, and every fault.
SPECIFICATION FairSpec
CONSTANTS
    Session = {s1}
    Capacity = 1
    FlushInterval = 2
    Faults = {"put", "poll", "eyes", "signal", "crash"}
    MaxEvents = 3
    MaxStarts = 1
    MaxStops = 2
    None = None
INVARIANTS TypeOK StoredExact FilesAgree RecoveredWhole
PROPERTIES CutOffSettles
CHECK_DEADLOCK FALSE
