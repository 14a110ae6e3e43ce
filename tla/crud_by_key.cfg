SPECIFICATION Spec
CONSTANTS
    t1 = t1  t2 = t2  t3 = t3
    ann = ann  bob = bob
    d0 = d0  d1 = d1  d2 = d2
    noRecord = noRecord  absent = absent  noScope = noScope  noRequest = noRequest
    MaxId = 1
    Users <- MCUsers
    Scopes = {"write", "publish"}
    UserScopes <- MCUserScopes
    NumMachines = 2
    States = {"draft", "live", "done"}
    Initial <- MCInitial
    Gates <- MCGates
    Data = {d0, d1, d2}
    DefaultData = d1
    DataScopes = {"write"}
    BoundaryScopes = {}
    CondTrue = {d1}
    CondRaises = {d2}
    Entered <- MCEntered
    Valid <- MCValid
    Owned = FALSE
    NoScope = noScope
    NoRecord = noRecord
    Absent = absent
    Tasks = {t1, t2, t3}
    Requests <- RaceRequests
    LookupById = FALSE
    NoRequest = noRequest
    GuessedKeys = TRUE
SYMMETRY TaskSymmetry
PROPERTY RefinesLifecycle
