CONSTANTS
    Call = {c1, c2}
    User = {u1, u2}
    SessionId = {s1, s2}
    MaxAge <- UniformAge
    MinAge = 1
    GhostMaxAge = 2
    MaxLag = 1
    MaxTime = 4
    None = None
SPECIFICATION StoreSpec
INVARIANTS
    StoreTypeOK
    SessionIsCallers
    HandedOutUsable
    ReuseBounded
PROPERTY NoResurrection
SYMMETRY Symmetry
