SPECIFICATION Spec
CONSTANTS
    SyncInterval = 2
    MaxFailures = 66
INVARIANTS TypeOK RetriedInTime 
PROPERTIES BackoffHonoured
