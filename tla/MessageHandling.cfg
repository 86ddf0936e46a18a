SPECIFICATION Spec
CONSTANTS
    OwnCalls = {"BootNotification", "Heartbeat"}
    MaxIds = 2
INVARIANTS
    
    AnswerToItsCall
    
PROPERTIES
    CallsEnd
CHECK_DEADLOCK FALSE
