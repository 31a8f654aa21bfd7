CONSTANTS
    Call = {c1}
    User = {u1}
    SessionId = {s1}
    MaxAge <- UniformAge
    MinAge = 1
    GhostMaxAge = 2
    MaxLag = 1
    MaxTime = 4
    None = None
SPECIFICATION ProxyOnlySpec
INVARIANT ExcludedIsExpired
