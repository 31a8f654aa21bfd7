CONSTANTS
    Call = {c1, c2}
    User = {u1}
    SessionId = {s1, s2}
    MaxAge <- UniformAge
    MinAge = 1
    GhostMaxAge = 1
    MaxLag = 1
    MaxTime = 2
    None = None
SPECIFICATION AuthSpec
INVARIANT NoDuplicateSessions
