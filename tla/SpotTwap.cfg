SPECIFICATION Spec
CONSTANTS
    Account = {"a"}
    Market = {"sm"}
    Perps = {}
    Insurance = {}
    Master <- OwnMasters
    NoOrder = NoOrder
    Execute = Execute
    MaxNonce = 6
    MaxTime = 2
    MaxPosition = 2
    Request <- SpotTwapOrders
    Change <- SpotTwapChanges
    Group = {}
    Unified = {}
    Types <- SpotTwapTypes
    Opening <- Flat
    Schedules = {}
    RollupPrice = {1, 2}
INVARIANTS
    NoLockMeansNoOrders
CHECK_DEADLOCK FALSE
