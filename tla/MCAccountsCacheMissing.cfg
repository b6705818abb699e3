SPECIFICATION CacheSpec
CONSTANTS
    k1 = k1
    k2 = k2
    c1 = c1
    c2 = c2
    Missing = Missing
    Absent = Absent
    Keys = {k1, k2}
    Clients = {c1, c2}
    Data = {"a", "b"}
    Requests <- TwoRequests
    Genesis <- OneMissing
    Writes <- SomeWrites
    MaxSlot = 3
    MaxFaults = 1
PROPERTIES
    MissingNotRetried
