CONSTANTS
    None = None
    AppKinds = {"boot", "event"}
    TriggeredKinds = {"status"}
    TransactionKinds = {"event"}
    UpdateKinds = {}
    BootKinds = {"boot"}
    SecurityKinds = {}
    ExternalNotify = {"event"}
    Discard = {}
    QueueAll = FALSE
    IgnoreSecurityEvents = FALSE
    Threshold = 10
    BootInterval = 2
    DelayedResume = TRUE
    TimerRace = TRUE
    CsmsCalls = {c1}
    MaxMsgs = 2
    MaxTime = 1
    MaxResumes = 3
    MaxRestarts = 0
    MaxFailures = 2
    Configs <- Reconfigured
SPECIFICATION Spec
INVARIANTS
    TypeOK
    LatestRequestCounts
CHECK_DEADLOCK FALSE
