SPECIFICATION FairSpec
CONSTANTS
    None = none
    Computes <- MCComputes
    Contents = {"notes", "tasks"}
    Requests <- MCRequests
    Handlers <- MCHandlers
    Triggers = {t1, t2}
    MaxRegistered = 2
    MaxTasks = 3
INVARIANTS SchedulerInv 
PROPERTY SchedulerLives
CHECK_DEADLOCK FALSE
