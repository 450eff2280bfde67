SPECIFICATION Spec
CONSTANTS
    Account = {"a", "b", "c", "t"}
    Asset = {"usdc", "eth"}
    USDC = "usdc"
    LIT = "lit"
    MarginAsset = {"usdc", "eth"}
    Strategy = {0, 1}
    Default = 0
    SpotStrategy = 1
    FeeAccount = "c"
    Treasury = "t"
    Reserved = {"t"}
    Integrators = {"b"}
    IsolatedIn = {"a"}
    Mult <- Extension
    GlobalCap <- Cap2
    UserCap <- Cap1
    Genesis <- Openings
    Units = {1}
    Fees = {0, 1}
    SelfFees = {0}
    Trades <- SpotFills
    Traders = {"a", "b"}
    MaxLock = 1
    MaxCustody = 2
    Cap = 3
    Tick = 1
    Limit = 12
    MaxMarket = 2
    MaxResting = 1
    Operators = {"b"}
    Payees = {"c"}
    Defaults = {1}
    Deals <- BinaryDeals
    Beside = {"modes"}
INVARIANTS
    TypeOK
    PublishedMatches
    BooksBalance
    BalancesInPlace
    
    OptionsInOrder
PROPERTY LocksAreCovered
CHECK_DEADLOCK FALSE
