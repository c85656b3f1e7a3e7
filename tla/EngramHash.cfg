SPECIFICATION Spec

CONSTANTS
    Requests = {r1, r2}
    Prompts <- MCPrompts
    Generated = {1, 2}
    Images = {9}
    TokenMap <- MCTokenMap
    PadId = 0
    MaxNgram = 3
    BlockSize = 2
    NumBlocks = 3
    Window = 3
    MaxLen = 6
    MaxChunk = 3
    MaxDrafts = 1
    MaxPreempts = 1
    Layers = {1, 2}
    VocabSize = 3
    NumHeads = 4
    Rolling <- MCRolling
    TpSizes = {1, 2, 3}
    LocalCopies <- MCLocalCopies

SYMMETRY Symmetry

INVARIANTS
    TypeOK
    HashesOfWhole
    RowsOfBuckets

CHECK_DEADLOCK FALSE
