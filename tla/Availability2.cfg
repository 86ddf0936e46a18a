CONSTANTS
    Evses = {1, 2}
    Slots <- TwoAndOne
    Resume = TRUE
    MaxRequests = 2
    MaxEvents = 2
    None = None
SPECIFICATION FairSpec
INVARIANTS
    EffectiveTold
    
    
PROPERTIES
    WholeResetHappens
CHECK_DEADLOCK FALSE
