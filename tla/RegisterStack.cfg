SPECIFICATION Spec
CONSTANTS
    Instr = {a, b, c}
    Empty = empty
    Depth = 5
    NewMax = 4
    Widths = {1, 3, 4}
INVARIANTS
    TypeOK
    NoHoles
PROPERTIES
    IsAStack
