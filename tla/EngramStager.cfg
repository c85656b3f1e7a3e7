SPECIFICATION Spec

CONSTANTS
    NumLayers = 2
    MaxTokens = 2
    MaxSteps = 3

INVARIANTS
    PinnedFree
    ForwardReadsOwn

\* The bound on the steps stops the host.
CHECK_DEADLOCK FALSE
