SPECIFICATION FairVenueSpec
CONSTANTS
    st = st
    mm = mm
    clock = clock
    x = x
    y = y
    st2 = st2
    v1 = v1
    v2 = v2
    Missing = Missing
    Absent = Absent
    Empty = Empty
    Keys = {st, mm, clock, x, y}
    Clients = {v1}
    Data <- SoloData
    Requests <- NoRequests
    Genesis <- SoloGenesis
    Writes <- SoloWrites
    CoreOf <- SoloCore
    BlobsOf <- SoloBlobs
    MaxSlot = 4
    MaxFaults = 1
    ResetEach = TRUE
INVARIANTS
    VenueTypeOK
    PricedFromOneSnapshot

PROPERTIES
    GoesLive
    GoesDark
