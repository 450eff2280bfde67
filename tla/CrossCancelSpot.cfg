SPECIFICATION Spec
CONSTANTS
    Account = {"a"}
    Market = {"pm", "sm"}
    Perps = {"pm"}
    Insurance = {}
    Master <- OwnMasters
    NoOrder = NoOrder
    Execute = Execute
    MaxNonce = 4
    MaxTime = 2
    MaxPosition = 2
    Request <- CrossCancelOrders
    Change = {}
    Group = {}
    Unified = {}
    Types <- CrossCancelTypes
    Opening <- Flat
    Schedules = {}
    RollupPrice = {}
INVARIANTS
    CrossCancelSparesOthers
CHECK_DEADLOCK FALSE
