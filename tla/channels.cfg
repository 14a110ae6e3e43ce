SPECIFICATION FairSpec
CONSTANTS
    Calls = {c1, c2}
    HttpRetries = 1
    MaxRetries = 1
    MaxSockets = 1
INVARIANTS ServedBounded AnswersTrue
PROPERTIES MappedInService QuietAfterShutdown CallsEnd
CHECK_DEADLOCK FALSE
