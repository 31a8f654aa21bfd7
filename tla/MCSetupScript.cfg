CONSTANTS
    Runner = {r1, r2}
    Ours = p
    Other = {q1}
    Absent = Absent
    None = None
SPECIFICATION FairSetupSpec
INVARIANTS
    SetupTypeOK
    DoneIsConfigured
PROPERTIES
    LossIsARace
    DryRunIsReadOnly
    StaysConfigured
    RerunsConverge
