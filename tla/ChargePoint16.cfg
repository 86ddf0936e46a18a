CONSTANTS
    None = None
    N = 1
    Errors = {e1, f1}
    Faults = {f1}
    MaxEvents = 3
SPECIFICATION FairSpec
INVARIANTS
    CsmsKnowsStatus

    
    
CHECK_DEADLOCK FALSE
