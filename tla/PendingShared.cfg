\* Callers overlap, as the poll loop and the HTTP commands do.
CONSTANTS
    Waiter = {w1, w2}
    Handler = {h1, h2}
    Value = {v1, v2}
    Serial = FALSE
    None = None
    Dead = Dead
    Failed = Failed
SPECIFICATION PendingSpec
INVARIANTS
    SlotIsLive
    NoLateDelivery
PROPERTIES
    KeepsPromise
    EveryWaitReturns
