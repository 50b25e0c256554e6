SPECIFICATION Spec
CONSTANTS
    Item = {a, b}
    MaxHere = 1
    MaxBlocks = 3
    Null = Null
    Failed = Failed
INVARIANTS
    BufferInv
PROPERTIES
    ImplementsItems
