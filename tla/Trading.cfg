SPECIFICATION Spec
CONSTANTS
    Account = {"a", "b", "c", "f"}
    Market = {"pm", "qm", "rm", "sm"}
    Perps = {"pm", "qm", "rm"}
    Insurance = {"f"}
    Master <- Masters
    NoOrder = NoOrder
    Execute = Execute
    MaxNonce = 6
    MaxTime = 2
    MaxPosition = 2
    Request <- TradingOrders
    Change <- TradingChanges
    Group <- TradingGroups
    Unified = {}
    Types <- TradingTypes
    Opening <- TradingOpening
    Schedules = {}
    RollupPrice = {1, 2}
INVARIANTS
    TypeOK
    CountsMatch
    InOnePlace
    BookMatchesOrders
    BookNotCrossed
    LockedMatches
    WithinSlippage
    ReleasedSlotIsQuiet
    NeverStuck
PROPERTIES
    FillsAreKept
    ReduceOnlyReduces
CHECK_DEADLOCK FALSE
