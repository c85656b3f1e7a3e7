SPECIFICATION Spec

CONSTANTS
    Batch = 2
    CompactBlock = 2
    Configurations <- MCConfigurations
    PrefixUnits = {0, 1, 2}

INVARIANTS
    TypeOK
    PagesDisjoint
    EveryLayerPlanned
    WorkersAgree
    LongestRequestFits
    AutoFitMaximal
    PrefixEndsWhole

\* An engine that is planned, or that refuses to start, does nothing more.
CHECK_DEADLOCK FALSE
