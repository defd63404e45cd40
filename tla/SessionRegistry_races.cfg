\* Two handlers race on one session, a new one or one an earlier version left.
SPECIFICATION Spec
CONSTANTS
    Session = {s1}
    Handler = {h1, h2}
    Legacy = {s1}
    Targets = {"active", "pending_annotation", "incomplete"}
    None = None
SYMMETRY HandlerSymmetry
INVARIANTS TypeOK NoSessionLost IndexExact
PROPERTIES SettledRecordsAreDurable ImplementsAtomicRegistry
