SPECIFICATION Spec
CONSTANTS
    t1 = t1  t2 = t2  t3 = t3
    ann = ann  bob = bob
    d0 = d0  d1 = d1  d2 = d2
    noRecord = noRecord  absent = absent  noScope = noScope  noRequest = noRequest
    MaxId = 2
    Users <- MCUsers
    Scopes = {"write", "publish"}
    UserScopes <- MCUserScopes
    NumMachines = 2
    States = {"draft", "live", "done"}
    Initial <- MCInitial
    Gates <- MCGates
    Data = {d0, d1, d2}
    DefaultData = d1
    DataScopes = {"write"}
    BoundaryScopes = {"publish"}
    CondTrue = {d1}
    CondRaises = {d2}
    Entered <- MCEntered
    Valid <- MCValid
    Owned = TRUE
    NoScope = noScope
    NoRecord = noRecord
    Absent = absent
    Tasks = {t1, t2}
    Requests <- AllRequests
    LookupById = TRUE
    NoRequest = noRequest
    GuessedKeys = FALSE
SYMMETRY TaskSymmetry
INVARIANTS EventsAddUp ChainInIROrder LifeEventsOnce
 
