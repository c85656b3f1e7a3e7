SPECIFICATION FairSpec

CONSTANTS
    d1 = d1  d2 = d2  d3 = d3
    b1 = b1  b2 = b2
    NoDigest = NoDigest
    NoRef = NoRef
    NoTag = NoTag
    NoRecord = NoRecord
    Absent = Absent
    Torn = Torn
    Digests = {d1, d2, d3}
    Works = {d1, d2, d3}
    Refs = {b1, b2}
    Tags = {1, 2}
    LabelOf <- MCLabels
    MaxImages = 2
    MaxFaults = 2

INVARIANTS
    Gated
    RecordedRevisionKept
    NeverReprocessed
    RevisionsConsecutive

PROPERTIES
    VerdictsFinal
    KeepsLedger
    
