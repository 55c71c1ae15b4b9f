\* A command and a reconnect.
CONSTANTS
    MaxEpoch = 2
    MaxFlight = 2
    MaxFails = 2
    NumDevices = 1
    NumStages = 1
    Command = {k1}
    Faults = {"break"}
    None = None
    Dead = Dead
    Failed = Failed
SPECIFICATION Spec
\* startWinetService stops on shutdown, after MaxFails failures and with the
\* process; the model also ends at MaxEpoch.
CHECK_DEADLOCK FALSE
INVARIANTS
    NoNilConnection
