\* One session whose device leaves a request unanswered.
CONSTANTS
    MaxEpoch = 1
    MaxFlight = 1
    MaxFails = 2
    NumDevices = 1
    NumStages = 1
    Command = {}
    Faults = {"silence"}
    None = None
    Dead = Dead
    Failed = Failed
SPECIFICATION Spec
\* startWinetService stops on shutdown, after MaxFails failures and with the
\* process; the model also ends at MaxEpoch.
CHECK_DEADLOCK FALSE
INVARIANTS
    StopsOnlyWhenCancelled
