CONSTANTS
    MaxRetryCount = 1
    MaxDrops = 1
SPECIFICATION FairSpec
PROPERTY StaysOnline
CHECK_DEADLOCK FALSE
