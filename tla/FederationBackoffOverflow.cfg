SPECIFICATION Spec
CONSTANTS
    SyncInterval = 2
    MaxFailures = 66
PROPERTIES EveryFailureBacksOff
