SPECIFICATION FairSpec
CONSTANTS
    MaxRetries = 2
    MaxSockets = 4
INVARIANTS OneDriver AttemptsBounded StateHonest
PROPERTY DownIsRepaired
CHECK_DEADLOCK FALSE
