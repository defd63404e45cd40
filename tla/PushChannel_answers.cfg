\* Two connections with channels of one message; the system may come to a stop.
SPECIFICATION FairSpec
CONSTANTS
    Session = {s1}
    Conn = {c1, c2}
    Loop = {l1}
    Room = 1
    None = None
INVARIANTS TypeOK
PROPERTIES DoneAnswered
CHECK_DEADLOCK FALSE
