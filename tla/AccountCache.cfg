SPECIFICATION Spec
CHECK_DEADLOCK FALSE
CONSTANTS
    a1 = a1
    a2 = a2
    s1 = s1
    s2 = s2
    Accounts = {a1, a2}
    Subscribers = {s1, s2}
    Setups <- MCSetups
    MaxRequests = 2
    NoData = NoData
    NoSlot = NoSlot
    NoCopy = NoCopy
INVARIANT CacheFits
PROPERTIES
    ImplementsAccountView
    PollingRecovers
