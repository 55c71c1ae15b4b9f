\* Lost connections and failing dials, and the poll loop that is left over.
CONSTANTS
    MaxEpoch = 2
    MaxFlight = 1
    MaxFails = 2
    NumDevices = 1
    NumStages = 1
    Command = {}
    Faults = {"break", "dial"}
    None = None
    Dead = Dead
    Failed = Failed
SPECIFICATION Spec
\* startWinetService stops on shutdown, after MaxFails failures and with the
\* process; the model also ends at MaxEpoch.
CHECK_DEADLOCK FALSE
PROPERTIES
    LostIsReplaced
    CancelledLoopsEnd
