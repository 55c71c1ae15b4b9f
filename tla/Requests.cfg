\* Two requests, every command that depends on another, and two that send
\* nothing.
CONSTANTS
    Request = {r1, r2}
    Asks = {"self", "charge", "stop", "limit", "unlimit", "off", "unknown", "bad"}
    ReadLimit = 1
    WriteLimit = 1
    RequestLimit = 1
    Power = 5
    None = None
SYMMETRY Symmetry
SPECIFICATION RequestsSpec
\* There are only two requests.
CHECK_DEADLOCK FALSE
INVARIANTS
    TruthfulAnswers
    CommandsCompose
