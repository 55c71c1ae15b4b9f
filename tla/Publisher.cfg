CONSTANTS
    NumSensors = 2
    Text = {2}
    Scaled = {1}
    Number = {1}
    Nil = Nil
    Dash = Dash
    Junk = Junk
    Call = {c1, c2}
    Device = {d1}
    MaxBoot = 2
    World <- MCWorld
    None = None
SPECIFICATION Spec
INVARIANTS
    DatabaseFollows
    BrokerFollows
    PassedOverIsAnnounced
PROPERTIES
    OnlyChangesWritten
