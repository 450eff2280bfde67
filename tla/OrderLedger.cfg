SPECIFICATION Spec
CONSTANTS
    Account = {a, b, f}
    Market = {pm, sm}
    Perps = {pm}
    Pool = {b}
    Insurance = {f}
    OrderId = {o1, o2}
    NoOrder = NoOrder
    MaxPublic = 2
    MaxSize = 1
SYMMETRY Ids
INVARIANTS
    TypeOK
    CountsMatch
    ReleasedWhenDrained
    IsolatedOnlyRespected
    OpenPositionsAreLive
    OpenInterestMatches
PROPERTY ModeFixedWhileOpen
CHECK_DEADLOCK FALSE
