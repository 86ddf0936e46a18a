CONSTANTS
    Evses = {1}
    OfflineThreshold = TRUE
    MaxEvents = 2
    None = None
    Tokens = {t1}
    Resume = TRUE
    MaxTx = 2
SPECIFICATION FairSpec
INVARIANTS
    EventsInOrder
    
    CsmsView
PROPERTIES
    EveryTransactionEnds
CHECK_DEADLOCK FALSE
