\* Two seeds race with each other and with the service, and any may be lost.
SPECIFICATION FairSpec
CONSTANTS
    s1 = s1
    s2 = s2
    p1 = p1
    p2 = p2
    Seeds = {s1, s2}
    Service = Service
    Accounts <- MCAccounts
    Lines <- MCLines
    Handed = {p1, p2}
    NoRow = NoRow
    Stored <- MCStored
    Legacy <- MCLegacy
    Creatable = {1}
    Deltas <- MCDeltas
CHECK_DEADLOCK FALSE
INVARIANT SomebodyGoesOn
INVARIANT Explained
INVARIANT EndsTruly
PROPERTY EverySeedEnds
