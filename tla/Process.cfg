\* One request, a session given up after two failures, deadlines of one tick
\* and of two.
CONSTANTS
    MaxFails = 2
    Request = {r1}
    Asks = {"charge", "read"}
    ReadLimit = 1
    WriteLimit = 1
    RequestLimit = 1
    ShutdownLimit = 2
    Power = 5
    None = None
SPECIFICATION FairSpec
\* The process exits.
CHECK_DEADLOCK FALSE
INVARIANTS
    ExitsForAReason
    HealthIsHonest
    NotCutOff
PROPERTIES
    AnsweredAndEnds
    EndsWhenTold
    ProcessGivesUp
    ReconnectingEnds
