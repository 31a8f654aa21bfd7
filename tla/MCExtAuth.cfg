CONSTANTS
    Call = {c1, c2}
    User = {u1}
    SessionId = {s1}
    Browser = {b1}
    MaxAge <- UniformAge
    MinAge = 1
    GhostMaxAge = 1
    MaxLag = 1
    MaxTime = 3
    MaxKey = 0
    None = None
SPECIFICATION ExtSpec
INVARIANTS
    ExtTypeOK
    CookieMatchesRow
SYMMETRY Symmetry
