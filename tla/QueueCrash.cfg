CONSTANTS
    None = None
    AppKinds = {"boot", "update", "security", "status"}
    TriggeredKinds = {}
    TransactionKinds = {"update", "security"}
    UpdateKinds = {"update"}
    BootKinds = {"boot"}
    SecurityKinds = {"security"}
    ExternalNotify = {}
    Discard = {}
    QueueAll = TRUE
    IgnoreSecurityEvents = TRUE
    Threshold = 2
    BootInterval = 2
    DelayedResume = FALSE
    TimerRace = FALSE
    CsmsCalls = {}
    MaxMsgs = 3
    MaxTime = 0
    MaxResumes = 1
    MaxRestarts = 1
    MaxFailures = 1
    Configs <- NoDelay
SPECIFICATION Spec
INVARIANTS
    TransactionsPersisted
    TransactionsInOrder
    NormalDelivery
PROPERTIES
    DeliversTransactions
    IteratorsStand
CHECK_DEADLOCK FALSE
