CONSTANTS
    None = None
    NextOfActive = NextOfActive
    Callers = {"app", "timer", "ping", "message"}
    Receiver = "message"
    Slots = {1, 2, 3}
    Priorities <- Three
    Profile <- Leftover
    InitialLevel = 2
    MaxAttempts = 1
    MaxFailures = 4
    Requests = {"connect", "disconnect", "netdown", "certificate", "pong"}
    Patient = TRUE
    MaxCalls = 4
    MaxDeferred = 1
SPECIFICATION FairSpec
INVARIANTS
    SingleChain
    ViewConverges
    ActiveSlotKept
PROPERTIES
    SettlesConnected
CHECK_DEADLOCK FALSE
