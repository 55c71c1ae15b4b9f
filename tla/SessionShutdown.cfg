\* One session with a command when the process is told to stop.
CONSTANTS
    MaxEpoch = 1
    MaxFlight = 1
    MaxFails = 2
    NumDevices = 1
    NumStages = 1
    Command = {k1}
    Faults = {"break", "shutdown", "silence"}
    None = None
    Dead = Dead
    Failed = Failed
SPECIFICATION FairSpec
\* startWinetService stops on shutdown, after MaxFails failures and with the
\* process; the model also ends at MaxEpoch.
CHECK_DEADLOCK FALSE
PROPERTIES
    ShutdownQuiesces
