\* One session in which everything can fail, with two devices of two stages
\* each; answers may come late.
CONSTANTS
    MaxEpoch = 1
    MaxFlight = 2
    MaxFails = 2
    NumDevices = 2
    NumStages = 2
    Command = {}
    Faults = {"shutdown", "fetch", "dial", "break", "silence", "expired", "bad", "publisher", "page", "junk"}
    None = None
    Dead = Dead
    Failed = Failed
SPECIFICATION Spec
\* startWinetService stops on shutdown, after MaxFails failures and with the
\* process; the model also ends at MaxEpoch.
CHECK_DEADLOCK FALSE
INVARIANTS
    RightAnswer
PROPERTIES
    DataUnderItsDevice
