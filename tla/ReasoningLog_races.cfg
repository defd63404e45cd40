\* Two connections and the loop, in both storage modes.
SPECIFICATION Spec
CONSTANTS
    Handler = {x1, x2}
    Clouds = {TRUE, FALSE}
    FlushInterval = 2
    Faults = {"put"}
    MaxSteps = 2
    MaxResults = 2
    MaxOthers = 1
SYMMETRY Connections
INVARIANTS TypeOK TokensCountedOnce AcceptedKept FinishedLogWhole
CHECK_DEADLOCK FALSE
