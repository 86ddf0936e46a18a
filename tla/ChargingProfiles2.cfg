CONSTANTS
    None = None
    Day = 3
    Evses = {1, 2}
    Devices <- MCDevices
    Offers <- MCOffers
    StartOffers <- MCStartOffers
    ClearRequests <- MCClearRequests
    GetRequests <- MCGetRequests
    Duration = 4
    MaxTime = 1
    MaxTx = 1
SPECIFICATION Spec
INVARIANTS
    
    CompositeExact
    NeverAboveLimit
CHECK_DEADLOCK FALSE
