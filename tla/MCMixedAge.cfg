CONSTANTS
    Call = {c1, c2}
    User = {u1}
    SessionId = {s1}
    Browser = {b1, b2}
    MaxAge <- MixedAge
    MinAge = 1
    GhostMaxAge = 1
    MaxLag = 0
    MaxTime = 1
    MaxKey = 0
    None = None
SPECIFICATION ExtSpec
INVARIANT CookieWithinRow
