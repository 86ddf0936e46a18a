CONSTANTS
    None = None
    Day = 3
    Connectors = {1, 2}
    Config <- MCConfig
    Offers <- MCOffers
    StartOffers <- MCStartOffers
    ClearRequests <- MCClearRequests
    Duration = 5
    MaxTime = 1
    MaxTx = 2
SPECIFICATION Spec
INVARIANTS
    StoreConsistent
    AcceptedReplaces
    CompositeExact
CHECK_DEADLOCK FALSE
