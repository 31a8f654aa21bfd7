CONSTANTS
    Call = {c1, c2}
    User = {u1, u2}
    SessionId = {s1}
    Browser = {b1}
    MaxAge <- UniformAge
    MinAge = 1
    GhostMaxAge = 1
    MaxLag = 0
    MaxTime = 0
    MaxKey = 0
    None = None
SPECIFICATION ExtSpec
INVARIANT CookieIsConfirmed
PROPERTY ImplementsService
SYMMETRY Symmetry
