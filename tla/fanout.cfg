SPECIFICATION Spec
CONSTANTS
    c1 = c1  c2 = c2  c3 = c3  r1 = r1  alice = alice  bob = bob
    content = content  notes = notes
    updated = updated  appended = appended
    Conns = {c1, c3}
    Rows = {r1}
    Forwarders = {f1, f2}
    Patterns = {content, notes}
    ContentPatterns = {notes}
    Channels = {updated}
    Matching <- MCMatching
    CarryingOwner = {updated}
    Owned = TRUE
    OwnerOf <- MCOwnerOf
    PrincipalOf <- MCPrincipalOf
    Anonymous = anonymous
    NoPattern = noPattern
    NoChannel = noChannel
    NoEvent = noEvent
    MaxVersion = 2
INVARIANT PrivateRows
CHECK_DEADLOCK FALSE
