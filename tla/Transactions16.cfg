CONSTANTS
    None = None
    Connectors = {c1}
    MaxSessions = 2
    MaxSamples = 1
    MaxAttempts = 2
    MaxFaults = 2
    MaxRestarts = 2
SPECIFICATION Spec
INVARIANTS
    StartFindsItsTransaction
    AckMeansStopped
    NoTransactionForgotten
CHECK_DEADLOCK FALSE
