SPECIFICATION Spec
CONSTANTS
    k1 = k1
    k2 = k2
    t1 = t1
    t2 = t2
    None = None
    Threads <- MCThreads
    Ids <- MCIds
    Keys <- MCKeys
    MaxReqs <- MCMaxReqs
    MaxToks <- MCMaxToks
    MaxCharge = 1
SYMMETRY MCSymmetry
INVARIANT
    UniqueApiKeys
