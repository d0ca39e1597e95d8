SPECIFICATION FairSpec
CONSTANTS
    Summand <- MCSummand
    Target <- MCTarget
    MaxLen = 4
INVARIANTS
    IndInv
    Correct
PROPERTIES
    Returns
CHECK_DEADLOCK FALSE
