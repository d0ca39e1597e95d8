SPECIFICATION FairSpec
CONSTANTS
    a1 = a1
    a2 = a2
    a3 = a3
    Agent = {a1, a2, a3}
    Datum <- MCDatum
    Target <- MCTarget
    Epochs = 2
    None = None
INVARIANTS
    IndInv
    KnownIsTrue
    GroupAnswer
PROPERTIES
    GatherEnds
CHECK_DEADLOCK FALSE
