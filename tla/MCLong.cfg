CONSTANTS
    Call = {c1}
    User = {u1}
    SessionId = {s1}
    Browser = {b1}
    MaxAge <- UniformAge
    MinAge = 2
    GhostMaxAge = 1
    MaxLag = 1
    MaxTime = 8
    MaxKey = 0
    None = None
SPECIFICATION ExtSpec
INVARIANTS
    RevocationIsPrompt
    LogoutIsBounded
    SuspensionIsBounded
    StuckIsBounded
PROPERTY ImplementsAdmission
