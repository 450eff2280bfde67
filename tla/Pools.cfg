SPECIFICATION FairSpec
CONSTANTS
    Account = {"f", "h", "o", "q", "s", "t"}
    Asset = {"usdc", "lit"}
    USDC = "usdc"
    LIT = "lit"
    MarginAsset = {"usdc"}
    Strategy = {0}
    Default = 0
    SpotStrategy = 0
    FeeAccount = "t"
    Treasury = "t"
    FundOperator = "o"
    Reserved = {"o", "t"}
    Integrators = {}
    IsolatedIn = {}
    Mult <- Ones
    GlobalCap <- Zeros
    UserCap <- Zeros
    MaxLock = 0
    Pool = {"f", "q", "s"}
    Index <- Positions
    Slots = 2
    InitialValue = 1
    ShareTick = 2
    FeeTick = 1
    Multiplier = 1
    Rate = 1
    MaxUnlocks = 2
    Genesis <- Opening
    Founder <- Founders
    Users = {"h", "o", "t"}
    Market = "t"
    Gifts <- Gift
    ShareUnits <- Amounts
    PoolFees <- FeesOf
    Rates <- RatesOf
    Traded = {"f", "q"}
    Cooldowns = {1}
    Lockups = {1}
    Together = {{"q"}, {"f", "s"}}
    MaxTotal <- Totals
    MinValue <- Below
    MaxValue = 2
    MaxTime = 1
INVARIANT SharesMatch
PROPERTIES
    ShareValueKept
    StakeBacksLLP
    UnlocksPaid
CHECK_DEADLOCK FALSE
