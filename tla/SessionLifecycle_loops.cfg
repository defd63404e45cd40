\* Two loops and two connections on one session, and signals.
SPECIFICATION Spec
CONSTANTS
    Session = {s1}
    Name = {n1}
    Conn = {c1, c2}
    Loop = {l1, l2}
    Shot = {}
    Requests = {"register", "start", "done"}
    Mode = "cloud"
    Faults = {"signal"}
    Tracked = {}
    None = None
SYMMETRY LoopsAndConns
INVARIANTS TypeOK NoOrphanLoop
