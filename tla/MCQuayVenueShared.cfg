SPECIFICATION VenueSpec
CONSTANTS
    st = st
    mm = mm
    clock = clock
    x = x
    y = y
    st2 = st2
    v1 = v1
    v2 = v2
    Missing = Missing
    Absent = Absent
    Empty = Empty
    Keys = {st, st2, clock, x}
    Clients = {v1, v2}
    Data <- PairData
    Requests <- NoRequests
    Genesis <- PairGenesis
    Writes <- PairWrites
    CoreOf <- PairCore
    BlobsOf <- PairBlobs
    MaxSlot = 3
    MaxFaults = 1
    ResetEach = FALSE
INVARIANTS
    LiveIsDecoded
    ExtPaired
