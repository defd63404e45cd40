\* Two connections of one annotator, which may hold one claim, under fair scheduling.
SPECIFICATION FairSpec
CONSTANTS
    a1 = a1  a2 = a2  s1 = s1  s2 = s2  c1 = c1  c2 = c2  c3 = c3
    Session = {s1, s2}
    Annotator = {a1, a2}
    Admin = Admin
    Conn = {c1, c2}
    Who <- TwoOfOne
    Limit <- OneClaim
    Created <- ByName
    Ttl = 1
    MaxClaimIds = 2
    Recovered = {s2}
    None = None
INVARIANTS TypeOK ClaimLimit
PROPERTIES EveryMessageAnswered
