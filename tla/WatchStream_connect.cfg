\* Every configuration against every server, and one that is replaced.
SPECIFICATION FairSpec
CONSTANTS
    SUPPORTED_MIN = 1
    RECORD_FIDELITY_MIN = 2
    SUPPORTED_MAX = 3
    MAX_ATTEMPTS = 2
    SilenceTimeout = 2
    Security = {"auto", "strict", "legacy"}
    Releases = {0, 1, 3, 4}
    Absent = Absent
    Other = Other
    Unparsed = {Absent, Other}
    MaxVersions = {Absent, 0, 4}
    None = None
INVARIANTS TypeOK DowngradeIsJustified NoLossySteps SupportedServer
PROPERTIES StartAnswered SilenceNoticed
CHECK_DEADLOCK FALSE
