SPECIFICATION Spec
CONSTANTS
    A = A
    B = B
    C = C
    v1 = v1
    v2 = v2
    v3 = v3
    QuayDev = QuayDev
    QuayProgram = QuayProgram
    ProgramOf <- ProgramsOf
    OwnerOf <- Owners
    Token = Token
    Token2022 = Token2022
    mm = mm
    system = system
    Configured = {v3}
    Transactions <- SomeTransactions
    Amount = 4000
    Weights <- ThreeWeights
    e1 = e1
    e2 = e2
    Titan = Titan
    Venues = {v1, v2, v3}
    BaseOf <- Bases
    QuoteOf <- Quotes
    Bindings <- SomeBindings
    RouteMints <- ThreeMints
    ByteMod = 18
    MaxLegs = 3
INVARIANTS
    OwnAccounts
    ListConsumed
    OnlyTitanSigns
    SideAgrees
    TableCovers
    ProgramReadsRoute
    LegsUseSlots
    DiscoveredCallable
