SPECIFICATION FairSpec
CONSTANTS
    Account = {"a", "b"}
    Market = {"pm", "qm", "rm", "sm"}
    Perps = {"pm", "qm", "rm"}
    Insurance = {}
    Master <- OwnMasters
    NoOrder = NoOrder
    Execute = Execute
    MaxNonce = 8
    MaxTime = 2
    MaxPosition = 2
    Request <- InstructionOrders
    Change <- GroupChanges
    Group <- Groups
    Unified = {"b"}
    Types <- InstructionTypes
    Opening <- InstructionOpening
    Schedules = {0, 2}
    RollupPrice = {}
INVARIANTS
    StackHasNoHoles
    SiblingsExclude
    NoOrphans
    TiedOrdersPointInward
    CancelsAllItCovers
PROPERTIES
    StackDrains
CHECK_DEADLOCK FALSE
