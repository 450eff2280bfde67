SPECIFICATION Spec
CONSTANTS
    Account = {"a"}
    Market = {"pm"}
    Perps = {"pm"}
    Insurance = {}
    Master <- OwnMasters
    NoOrder = NoOrder
    Execute = Execute
    MaxNonce = 6
    MaxTime = 2
    MaxPosition = 2
    Request = {}
    Change = {}
    Group <- LastingGroups
    Unified = {}
    Types <- LastingTypes
    Opening <- Flat
    Schedules = {}
    RollupPrice = {}
INVARIANTS
    RestingOrdersExpire
CHECK_DEADLOCK FALSE
