SPECIFICATION Spec
CONSTANTS
    MAX = 15
    GAP = 2
    Base = Base
    Quote = Quote
    Scale = 2
    Markets <- SomeMarkets
INVARIANTS
    RangeIsPriced
    MeanValue
    SpotIsBest
    DarkHasNoRange
