\* A loop outlives the forced deletion of its session.
SPECIFICATION Spec
CONSTANTS
    Session = {s1}
    Name = {n1}
    Conn = {c1}
    Loop = {l1}
    Shot = {}
    Requests = {"register", "start", "done", "delete"}
    Mode = "kafka"
    Faults = {}
    Tracked = {"purged"}
    None = None
INVARIANTS NoRewriteAfterPurge
