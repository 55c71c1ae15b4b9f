\* Two sessions that may overlap: connections are lost, dials fail, and the
\* process is told to stop.
CONSTANTS
    MaxEpoch = 2
    MaxFlight = 1
    MaxFails = 2
    NumDevices = 1
    NumStages = 1
    Command = {}
    Faults = {"shutdown", "fetch", "dial", "break", "expired"}
    None = None
    Dead = Dead
    Failed = Failed
SPECIFICATION Spec
\* startWinetService stops on shutdown, after MaxFails failures and with the
\* process; the model also ends at MaxEpoch.
CHECK_DEADLOCK FALSE
INVARIANTS
    OneConnection
    OnePollLoop
    ConnectedMeansConn
    ClosedOnce
PROPERTIES
    ActsAsSupervisor
    ConnectionsAreLinks
    PollsOwnSession
