\* One session from start to finish, with crashes, signals and rollbacks.
SPECIFICATION Spec
CONSTANTS
    Session = {s1}
    Name = {n1}
    Conn = {c1}
    Loop = {l1}
    Shot = {k1}
    Requests = {"register", "start", "done", "degraded", "delete"}
    Mode = "local"
    Faults = {"signal", "crash", "rollback"}
    Tracked = {"raced", "stale", "failed", "torn"}
    None = None
INVARIANTS FinishedAgrees
PROPERTIES StartupSettles
