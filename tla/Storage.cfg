CONSTANTS
    Token = {t1}
    Request = {r1, r2}
    None = None
    NumFiles = 2
    NumStatements <- MCStatements
    MaxFaults = 2
SPECIFICATION Spec
INVARIANTS
    LogoutSticks
    RefusedForAReason
    RecordedIsApplied
    ServedWhole
PROPERTIES
    ExpiredGoes
    ComesUp
