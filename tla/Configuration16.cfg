SPECIFICATION Spec
CONSTANTS
    Stations <- MCStations
    MaxChanges = 2
    MaxBoots = 1
    MaxRestarts = 1
    MaxFailures = 1
INVARIANTS
    ChangesHold
    
    SwitchSafe
PROPERTIES
    RestartKeeps
CHECK_DEADLOCK FALSE
