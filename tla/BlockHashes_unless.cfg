SPECIFICATION Spec

CONSTANTS
    r1 = r1  r2 = r2
    a = a  b = b  c = c
    t = t  x = x  y = y
    None = None
    Placeholder = Placeholder
    Requests = {r1, r2}
    Items = {a, b, c}
    LengthOf <- MCLengthOf
    Texts = {t}
    Adapters = {x}
    Salts = {y}
    HashBlockSize = 3
    ScaleFactor = 2
    MaxPrompt = 5
    MaxItems = 2
    MaxTokens = 6

SYMMETRY Symmetry

INVARIANTS
    TypeOK
    HashIsOfPrefixUnlessItemsInTail
    GroupHashIsOfPrefix

\* The bound on the tokens stops the requests.
CHECK_DEADLOCK FALSE
