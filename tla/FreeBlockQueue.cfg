SPECIFICATION Spec

CONSTANTS
    NumBlocks = 4
    Head = Head
    Tail = Tail
    None = None

INVARIANTS
    WellLinked

PROPERTIES
    YieldsFree
    KeepsOrder
