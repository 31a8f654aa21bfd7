CONSTANTS
    Call = {c1}
    User = {u1}
    SessionId = {s1}
    Browser = {b1}
    MaxAge <- UniformAge
    MinAge = 1
    GhostMaxAge = 1
    MaxLag = 1
    MaxTime = 2
    MaxKey = 0
    None = None
SPECIFICATION ExtSpec
PROPERTY CookieSkipsAuthentik
