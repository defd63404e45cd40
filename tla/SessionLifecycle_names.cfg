\* Two sessions of one name, one after the other, without The-Eyes.
SPECIFICATION Spec
CONSTANTS
    Session = {s1, s2}
    Name = {n1}
    Conn = {c1}
    Loop = {l1}
    Shot = {}
    Requests = {"register", "start", "done"}
    Mode = "local"
    Faults = {"call", "crash"}
    Tracked = {"raced", "shared"}
    None = None
SYMMETRY SessionsAndLoops
INVARIANTS PurgeFindsDirectory
PROPERTIES OnlyOwnerPurges
