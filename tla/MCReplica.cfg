CONSTANTS
    Call = {c1, c2, c3}
    PoolSize = 2
    Days <- SomeDays
    Second = 4
    Milli = 2
    DaySecs = 2
    Half = 32
SPECIFICATION FairReplicaSpec
INVARIANTS
    ReplicaTypeOK
    SuccessMeansDrained
    FailureHasCause
    AgesAgree
PROPERTIES
    ShutdownCompletes
    CallsEnd
