SPECIFICATION FairSpec
CONSTANTS
    c1 = c1  c2 = c2  c3 = c3  r1 = r1  alice = alice  bob = bob
    content = content  notes = notes
    updated = updated  appended = appended
    Conns = {c1, c2}
    Rows = {r1}
    Forwarders = {f1, f2}
    Patterns = {notes}
    ContentPatterns = {notes}
    Channels = {updated}
    Matching <- MCMatching
    CarryingOwner = {updated}
    Owned = FALSE
    OwnerOf <- MCOwnerOf
    PrincipalOf <- MCPrincipalOf
    Anonymous = anonymous
    NoPattern = noPattern
    NoChannel = noChannel
    NoEvent = noEvent
    MaxVersion = 1
INVARIANTS NoGap
  
CHECK_DEADLOCK FALSE
