CONSTANTS
    Call = {c1}
    User = {u1}
    SessionId = {s1, s2, s3}
    Browser = {b1}
    MaxAge <- UniformAge
    MinAge = 3
    GhostMaxAge = 1
    MaxLag = 1
    MaxTime = 3
    MaxKey = 1
    None = None
SPECIFICATION CalmSpec
PROPERTIES
    PlantingAdmits
    StaffIsAdmitted
    CallsReturn
