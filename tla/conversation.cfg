SPECIFICATION Spec
CONSTANTS
    a1 = a1  a2 = a2  a3 = a3  ann = ann  bob = bob  c1 = c1
    Appenders = {a1, a2, a3}
    Users = {ann, bob}
    Payloads <- Requests
    Invalid = invalid
    NotAList = notAList
    NoEntry = noEntry
    NoCall = noCall
SYMMETRY AppendSymmetry
INVARIANTS LostOnlyToOverlap  AnnouncedWasWritten 
CHECK_DEADLOCK FALSE
