SPECIFICATION Spec
CONSTANTS
    p1 = p1
    p2 = p2
    c1 = c1
    c2 = c2
    Path = {p1}
    Roots <- OneRoot
    Content = {c1}
    SizeOf <- SameSize
    HashOf <- OwnHash
    Absent = Absent
    NoEntry = NoEntry
    NoObject = NoObject
    NoIndex = NoIndex
    Threads = 1
    Grace = 1
    Billing = 2
    Review = 2
    Forever = 3
    MaxRun = 1
    MaxTime = 3
    Disturbances = {"remove"}
INVARIANTS PublishedRefsReallyStored
