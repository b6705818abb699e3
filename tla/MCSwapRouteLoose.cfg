SPECIFICATION Spec
CONSTANTS
    A = A
    B = B
    W = W
    alice = alice
    bob = bob
    Titan = Titan
    Pool = Pool
    Sponsor = Sponsor
    Mints = {A, B}
    Native = W
    Users = {alice, bob}
    WeightAll = 2
    Rent = 1
    MaxSwaps = 2
    MaxMints = 2
    MaxRoutes = 2
    ExactIn = FALSE
    Routes <- LooseRoutes
    InitFunds <- LooseFunds
    Transfers <- LooseTransfers
INVARIANTS
    ReservesKept
    LedgerFloor
    TypeOK

    
