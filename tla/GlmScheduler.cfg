SPECIFICATION Spec

CONSTANTS
    Requests = {r1, r2, r3}
    PromptLens = {1, 7}
    MaxOutput = 3
    Settings = {"skip", "2", "4"}
    IntOf <- MCIntOf
    Budget = 6
    MaxSeqs = 3
    MaxModelLen = 10
    NumSpec = 1
    NumBlocks = 10
    BlockSize = 2
    TailBlock = 2
    Kpool = 2
    MaxLogits = 24

INVARIANTS
    TypeOK
    WorkspaceEnough
    SlotsOwn

PROPERTIES
    
    Served

CHECK_DEADLOCK FALSE
