SPECIFICATION Spec
CONSTANTS
    A = A
    B = B
    W = W
    alice = alice
    bob = bob
    Titan = Titan
    Pool = Pool
    Sponsor = Sponsor
    Mints = {A, B, W}
    Native = W
    Users = {alice}
    WeightAll = 2
    Rent = 1
    MaxSwaps = 3
    MaxMints = 3
    MaxRoutes = 1
    ExactIn = TRUE
    Routes <- HonestRoutes
    InitFunds <- HonestFunds
    Transfers <- NoTransfers
INVARIANTS
    ReserveNeverBorrowed
    NothingStranded
    ChargedOnce
    
PROPERTIES
    RouteIsSettled
