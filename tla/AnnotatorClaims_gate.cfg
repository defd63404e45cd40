\* Two annotators and the admin socket on one session.
SPECIFICATION Spec
CONSTANTS
    a1 = a1  a2 = a2  s1 = s1  s2 = s2  c1 = c1  c2 = c2  c3 = c3
    Session = {s1}
    Annotator = {a1, a2}
    Admin = Admin
    Conn = {c1, c2, c3}
    Who <- WithAdmin
    Limit <- OneClaim
    Created <- ByName
    Ttl = 2
    MaxClaimIds = 2
    Recovered = {}
    None = None
INVARIANTS VerifiedOrEnded
